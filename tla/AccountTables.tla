--------------------------- MODULE AccountTables ---------------------------
(***************************************************************************)
(* The rows of identity_users, identity_passwords and identity_sessions,   *)
(* as far as accounts, passwords and logins tell them apart.               *)
(***************************************************************************)

CONSTANTS Users,        \* user IDs; an ID is never used twice
          Sessions,     \* session IDs; an ID is never used twice
          Passwords,
          None          \* stands for no value

\* unborn: not inserted yet; deleted: the row is gone.
UserStates == {"unborn", "active", "disabled", "deleted"}
Exists(state) == state \in {"active", "disabled"}

\* A row of identity_passwords.  A retired hash verifies but was made with an
\* old scheme or old parameters, so needsCredentialRehash holds.  Hashes are
\* salted, so two hashes of one password differ; every hash the code writes is
\* current, so a row that is still retired was never rewritten.
CredRows == [pw : Passwords \cup {None}, scheme : {"current", "retired"}]
NoCred == [pw |-> None, scheme |-> "current"]

\* A row of identity_sessions.  via is a history variable: the password that
\* was verified to obtain the session, None for an external login.
SessionRows == [state : {"unused", "live", "revoked", "deleted"},
                user : Users \cup {None}, via : Passwords \cup {None}]
UnusedSession == [state |-> "unused", user |-> None, via |-> None]
DeletedSession == [state |-> "deleted", user |-> None, via |-> None]

VARIABLES users,     \* committed: user ID -> state
          creds,     \* committed: user ID -> password row
          sessions   \* committed: session ID -> session row

\* The host may start with accounts it migrated: hashes of a retired scheme,
\* or no password at all.
InitialUsers == [Users -> {"unborn", "active"}]
InitialCreds == [Users -> [pw : Passwords, scheme : {"retired"}] \cup {NoCred}]

ASSUME NoneIsNoValue ==
    None \notin Users \cup Sessions \cup Passwords \cup UserStates
                \cup CredRows \cup SessionRows

-----------------------------------------------------------------------------
(* What the service promises of the tables.                                *)

\* "Disabling a user revokes sessions": no session of a disabled account is
\* live, whatever logins were under way when it was disabled.
DisabledUserHasNoLiveSession ==
    \A s \in Sessions :
        sessions[s].state = "live" => users[sessions[s].user] # "disabled"

\* "Password changes and resets revoke old sessions": a live session that was
\* obtained with a password was obtained with the one now in force.
SessionsMatchPassword ==
    \A s \in Sessions :
        sessions[s].state = "live" /\ sessions[s].via # None
            => creds[sessions[s].user].pw = sessions[s].via

\* Deleting an account leaves no session and no password behind, also when a
\* login or a reset of that account commits in between.
NoOrphans ==
    /\ \A s \in Sessions : sessions[s].state \in {"live", "revoked"}
                             => Exists(users[sessions[s].user])
    /\ \A u \in Users : creds[u].pw # None => Exists(users[u])
=============================================================================
