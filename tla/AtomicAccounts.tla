--------------------------- MODULE AtomicAccounts ---------------------------
(***************************************************************************)
(* What the account service promises: every request takes effect at one    *)
(* instant or not at all.  The three tables are those of AccountTables;    *)
(* statements, locks and open transactions are gone.                       *)
(***************************************************************************)

EXTENDS AccountTables

vars == <<users, creds, sessions>>

Init == /\ users \in InitialUsers
        /\ creds \in InitialCreds
        /\ \A u \in Users : users[u] = "unborn" => creds[u] = NoCred
        /\ sessions = [s \in Sessions |-> UnusedSession]

Current(w) == [pw |-> w, scheme |-> "current"]

\* The sessions after every live one of the users in ids is revoked, and
\* after every one of the users in ids is deleted.
Revoked(ids) ==
    [s \in Sessions |->
        IF sessions[s].state = "live" /\ sessions[s].user \in ids
        THEN [sessions[s] EXCEPT !.state = "revoked"] ELSE sessions[s]]
Deleted(ids) ==
    [s \in Sessions |->
        IF sessions[s].user \in ids THEN DeletedSession ELSE sessions[s]]

\* A new session of u; via is the password that was verified for it.
Issue(s, u, via) ==
    /\ sessions[s] = UnusedSession
    /\ sessions' = [sessions EXCEPT ![s] =
                      [state |-> "live", user |-> u, via |-> via]]

\* The password in force is w; verifying it renews a retired hash.
Verify(u, w) ==
    /\ creds[u].pw = w
    /\ creds' = [creds EXCEPT ![u] = Current(w)]

Login(u, w, s) ==
    /\ users[u] = "active"
    /\ Verify(u, w)
    /\ Issue(s, u, w)
    /\ UNCHANGED users

IssueSession(u, s) ==
    /\ users[u] = "active"
    /\ Issue(s, u, None)
    /\ UNCHANGED <<users, creds>>

\* Verifies outside a transaction: by the time the hash is renewed the account
\* may be disabled, but the password is still the one that was verified.
Authenticate(u, w) ==
    /\ Verify(u, w)
    /\ UNCHANGED <<users, sessions>>

CreateAccount(u, state) ==
    /\ users[u] = "unborn"
    /\ users' = [users EXCEPT ![u] = state]
    /\ UNCHANGED <<creds, sessions>>

Register(u, state, w) ==
    /\ users[u] = "unborn"
    /\ users' = [users EXCEPT ![u] = state]
    /\ creds' = [creds EXCEPT ![u] = Current(w)]
    /\ UNCHANGED sessions

RegisterAndLogin(u, w, s) ==
    /\ users[u] = "unborn"
    /\ users' = [users EXCEPT ![u] = "active"]
    /\ creds' = [creds EXCEPT ![u] = Current(w)]
    /\ Issue(s, u, w)

ChangePassword(u, current, next) ==
    /\ users[u] = "active"
    /\ creds[u].pw = current
    /\ creds' = [creds EXCEPT ![u] = Current(next)]
    /\ sessions' = Revoked({u})
    /\ UNCHANGED users

ResetPassword(u, next) ==
    /\ Exists(users[u])
    /\ creds' = [creds EXCEPT ![u] = Current(next)]
    /\ sessions' = Revoked({u})
    /\ UNCHANGED users

SetState(ids, state) ==
    /\ \A u \in ids : Exists(users[u])
    /\ users' = [u \in Users |-> IF u \in ids THEN state ELSE users[u]]
    /\ sessions' = IF state = "disabled" THEN Revoked(ids) ELSE sessions
    /\ UNCHANGED creds

RevokeForUsers(ids) ==
    /\ sessions' = Revoked(ids)
    /\ UNCHANGED <<users, creds>>

DeleteUsers(ids) ==
    /\ \A u \in ids : Exists(users[u])
    /\ users' = [u \in Users |-> IF u \in ids THEN "deleted" ELSE users[u]]
    /\ creds' = [u \in Users |-> IF u \in ids THEN NoCred ELSE creds[u]]
    /\ sessions' = Deleted(ids)

Next ==
    \/ \E u \in Users, w \in Passwords, s \in Sessions : Login(u, w, s)
    \/ \E u \in Users, s \in Sessions : IssueSession(u, s)
    \/ \E u \in Users, w \in Passwords : Authenticate(u, w)
    \/ \E u \in Users, state \in {"active", "disabled"} : CreateAccount(u, state)
    \/ \E u \in Users, state \in {"active", "disabled"}, w \in Passwords :
          Register(u, state, w)
    \/ \E u \in Users, w \in Passwords, s \in Sessions : RegisterAndLogin(u, w, s)
    \/ \E u \in Users, w, next \in Passwords : ChangePassword(u, w, next)
    \/ \E u \in Users, next \in Passwords : ResetPassword(u, next)
    \/ \E ids \in SUBSET Users, state \in {"active", "disabled"} :
          SetState(ids, state)
    \/ \E ids \in SUBSET Users : RevokeForUsers(ids)
    \/ \E ids \in SUBSET Users : DeleteUsers(ids)

Spec == Init /\ [][Next]_vars

-----------------------------------------------------------------------------
\* Every table holds what the schema allows.
TypeOK ==
    /\ users \in [Users -> UserStates]
    /\ creds \in [Users -> CredRows]
    /\ sessions \in [Sessions -> SessionRows]
=============================================================================
