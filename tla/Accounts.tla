------------------------------ MODULE Accounts ------------------------------
(***************************************************************************)
(* Accounts, passwords and sessions as the service runs them: every        *)
(* request of AccountService, UserService, PasswordService and             *)
(* SessionService that touches more than one of the three tables is a      *)
(* sequence of SQL statements, and the statements of concurrent requests   *)
(* interleave.                                                             *)
(*                                                                         *)
(* The database is the part the code relies on and does not contain.  Two  *)
(* of them are supported and they isolate transactions differently:        *)
(*   "Serializable"   SQLite: one writer at a time, and a transaction that *)
(*                    read before another one committed cannot write.      *)
(*   "ReadCommitted"  PostgreSQL with the default isolation WithinTx asks  *)
(*                    for: each statement reads what is committed when it  *)
(*                    starts, writes lock single rows, and a deadlock      *)
(*                    costs one transaction its life.                      *)
(***************************************************************************)

EXTENDS AccountTables

CONSTANTS Procs,        \* the goroutines that serve requests
          Isolation,    \* "Serializable" or "ReadCommitted"
          ForeignKeys   \* whether the database enforces the declared keys

ASSUME IsolationIsKnown == Isolation \in {"Serializable", "ReadCommitted"}
ASSUME ForeignKeysIsBoolean == ForeignKeys \in BOOLEAN
ASSUME ServerEnforcesKeys == Isolation = "ReadCommitted" => ForeignKeys

VARIABLES tx,        \* what each goroutine is doing
          draft,     \* the rows its open transaction wrote; None: not written
          stale      \* goroutines whose transaction missed a later commit

vars == <<users, creds, sessions, tx, draft, stale>>
tables == <<users, creds, sessions>>

Kinds == {"idle", "login", "issue", "register", "registerLogin", "create",
          "change", "reset", "enable", "disable", "revoke", "delete", "auth",
          "markLogin"}
Steps == {"idle", "find", "verify", "rehash", "reread", "insert", "mark",
          "create", "identifiers", "setHash", "setState", "revoke", "sweep",
          "pick", "wipeCred", "wipeUser", "cascade", "commit"}

Creators == {"create", "register", "registerLogin"}

\* Requests that run outside WithinTx: every statement commits on its own, and
\* these have a single statement that writes.
Autocommitted == {"create", "auth", "markLogin"}

Idle == [kind |-> "idle", pc |-> "idle", ids |-> {}, user |-> None,
         offered |-> None, next |-> None, sid |-> None, seen |-> NoCred,
         todo |-> {}, rows |-> {}]
Blank == [users |-> [u \in Users |-> None], creds |-> [u \in Users |-> None],
          sessions |-> [s \in Sessions |-> None]]

Init == /\ users \in InitialUsers
        /\ creds \in InitialCreds
        /\ \A u \in Users : users[u] = "unborn" => creds[u] = NoCred
        /\ sessions = [s \in Sessions |-> UnusedSession]
        /\ tx = [p \in Procs |-> Idle]
        /\ draft = [p \in Procs |-> Blank]
        /\ stale = {}

-----------------------------------------------------------------------------
(* What a transaction reads, and the row locks its statements meet.        *)

SeesUser(p, u) ==
    IF draft[p].users[u] = None THEN users[u] ELSE draft[p].users[u]
SeesCred(p, u) ==
    IF draft[p].creds[u] = None THEN creds[u] ELSE draft[p].creds[u]
SeesSession(p, s) ==
    IF draft[p].sessions[s] = None THEN sessions[s] ELSE draft[p].sessions[s]

UserHolders(p, u) == {q \in Procs \ {p} : draft[q].users[u] # None}
UserDeleters(p, u) == {q \in Procs \ {p} : draft[q].users[u] = "deleted"}
CredHolders(p, u) == {q \in Procs \ {p} : draft[q].creds[u] # None}
SessionHolders(p, s) == {q \in Procs \ {p} : draft[q].sessions[s] # None}

\* An uncommitted row that references a user holds that user's key share lock.
KeySharers(p, u) ==
    {q \in Procs \ {p} :
        \/ \E s \in Sessions : /\ draft[q].sessions[s] # None
                               /\ draft[q].sessions[s].user = u
                               /\ sessions[s].state = "unused"
        \/ /\ draft[q].creds[u] # None
           /\ draft[q].creds[u].pw # None
           /\ creds[u].pw = None}

Wrote(p) == draft[p] # Blank
Writers(p) == {q \in Procs \ {p} : Wrote(q)}

\* The foreign key check of a row that references u.
KeyHolds(p, u) == ForeignKeys => Exists(SeesUser(p, u))

\* The transactions whose end the next statement of p waits for.  A statement
\* only waits for rows it finds, and an insert for what would collide with it.
WaitsFor(p) ==
    LET u == tx[p].user IN
    CASE tx[p].pc = "rehash" /\ SeesCred(p, u) = tx[p].seen -> CredHolders(p, u)
      [] tx[p].pc = "wipeCred" /\ SeesCred(p, u).pw # None -> CredHolders(p, u)
      [] tx[p].pc = "setHash" ->
            CredHolders(p, u) \cup (IF SeesCred(p, u).pw = None /\ ForeignKeys
                                    THEN UserDeleters(p, u) ELSE {})
      [] tx[p].pc = "insert" /\ ForeignKeys -> UserDeleters(p, u)
      [] tx[p].pc = "mark" -> UserHolders(p, u)
      [] tx[p].pc = "wipeUser" -> UserHolders(p, u) \cup KeySharers(p, u)
      [] tx[p].pc = "setState" ->
            UNION {UserHolders(p, v) : v \in {w \in tx[p].todo : Exists(users[w])}}
      [] tx[p].pc = "sweep" -> UNION {SessionHolders(p, s) : s \in tx[p].rows}
      [] tx[p].pc = "cascade" ->
            (IF SeesCred(p, u).pw = None THEN {} ELSE CredHolders(p, u))
            \cup UNION {SessionHolders(p, s) : s \in tx[p].rows}
      [] OTHER -> {}

-----------------------------------------------------------------------------
(* Beginning, ending and continuing a transaction.                         *)

\* Each request is one goroutine's call; WithinTx opens the transaction.
Open(p, request) ==
    /\ tx[p].pc = "idle"
    /\ tx' = [tx EXCEPT ![p] = request]
    /\ UNCHANGED <<users, creds, sessions, draft, stale>>

\* An error returned inside WithinTx rolls back everything it wrote.
Rollback(p) ==
    /\ tx' = [tx EXCEPT ![p] = Idle]
    /\ draft' = [draft EXCEPT ![p] = Blank]

Committed(row, written) == IF written = None THEN row ELSE written

\* The writes of p become visible at once.  Under SQLite every transaction
\* that is open then has a snapshot without them.
Commit(p) ==
    /\ tx[p].pc = "commit"
    /\ p \notin stale
    /\ users' = [u \in Users |-> Committed(users[u], draft[p].users[u])]
    /\ creds' = [u \in Users |-> Committed(creds[u], draft[p].creds[u])]
    /\ sessions' =
         [s \in Sessions |-> Committed(sessions[s], draft[p].sessions[s])]
    /\ tx' = [tx EXCEPT ![p] = Idle]
    /\ draft' = [draft EXCEPT ![p] = Blank]
    /\ stale' = IF Isolation = "Serializable" /\ Wrote(p)
                THEN {q \in Procs \ {p} :
                         tx[q].kind \notin Autocommitted \cup {"idle"}}
                ELSE stale

Goto(p, step) == tx' = [tx EXCEPT ![p].pc = step]

\* A statement that only reads.
Reads(p, step) ==
    /\ tx[p].pc = step
    /\ p \notin stale
    /\ UNCHANGED <<users, creds, sessions, stale>>

\* A statement that writes; SQLite has room for one writing transaction.
Writes(p, step) ==
    /\ tx[p].pc = step
    /\ p \notin stale
    /\ Isolation = "Serializable" => Writers(p) = {}
    /\ UNCHANGED <<users, creds, sessions, stale>>

-----------------------------------------------------------------------------
(* Requests.                                                               *)

UnclaimedSessions ==
    {s \in Sessions : /\ sessions[s] = UnusedSession
                      /\ \A q \in Procs : tx[q].sid # s}
UnclaimedUsers ==
    {u \in Users : /\ users[u] = "unborn"
                   /\ \A q \in Procs : tx[q].kind \in Creators => tx[q].user # u}

Login(p) ==
    \E u \in Users, w \in Passwords, s \in UnclaimedSessions :
        Open(p, [Idle EXCEPT !.kind = "login", !.pc = "find", !.ids = {u},
                             !.user = u, !.offered = w, !.sid = s])

\* CreateSession of the module: the host verified an external credential.
IssueSession(p) ==
    \E u \in Users, s \in UnclaimedSessions :
        Open(p, [Idle EXCEPT !.kind = "issue", !.pc = "find", !.ids = {u},
                             !.user = u, !.sid = s])

\* Authenticate of the module: verifies a password and opens no session.
Authenticate(p) ==
    \E u \in Users, w \in Passwords :
        Open(p, [Idle EXCEPT !.kind = "auth", !.pc = "find", !.ids = {u},
                             !.user = u, !.offered = w])

\* CreateUser of the module: an account without a password.
CreateAccount(p) ==
    \E u \in UnclaimedUsers :
        Open(p, [Idle EXCEPT !.kind = "create", !.pc = "create", !.ids = {u},
                             !.user = u])

\* Register and ProvisionUser; they differ only in the roles they bind.
Register(p) ==
    \E u \in UnclaimedUsers, w \in Passwords :
        Open(p, [Idle EXCEPT !.kind = "register", !.pc = "create", !.ids = {u},
                             !.user = u, !.next = w])

RegisterAndLogin(p) ==
    \E u \in UnclaimedUsers, w \in Passwords, s \in UnclaimedSessions :
        Open(p, [Idle EXCEPT !.kind = "registerLogin", !.pc = "create",
                             !.ids = {u}, !.user = u, !.next = w, !.sid = s])

ChangePassword(p) ==
    \E u \in Users, current, next \in Passwords :
        Open(p, [Idle EXCEPT !.kind = "change", !.pc = "find", !.ids = {u},
                             !.user = u, !.offered = current, !.next = next])

ResetPassword(p) ==
    \E u \in Users, next \in Passwords :
        Open(p, [Idle EXCEPT !.kind = "reset", !.pc = "find", !.ids = {u},
                             !.user = u, !.next = next])

SetState(p) ==
    \E ids \in (SUBSET Users) \ {{}}, kind \in {"enable", "disable"} :
        Open(p, [Idle EXCEPT !.kind = kind, !.pc = "setState", !.ids = ids,
                             !.todo = ids])

RevokeForUsers(p) ==
    \E ids \in (SUBSET Users) \ {{}} :
        Open(p, [Idle EXCEPT !.kind = "revoke", !.pc = "revoke", !.ids = ids])

\* MarkUserLogin of the module: the host logged the user in by itself.
MarkLogin(p) ==
    \E u \in Users :
        Open(p, [Idle EXCEPT !.kind = "markLogin", !.pc = "mark", !.ids = {u},
                             !.user = u])

DeleteUsers(p) ==
    \E ids \in (SUBSET Users) \ {{}} :
        Open(p, [Idle EXCEPT !.kind = "delete", !.pc = "find", !.ids = ids,
                             !.todo = ids])

Begin(p) ==
    \/ Login(p) \/ IssueSession(p) \/ Authenticate(p)
    \/ CreateAccount(p) \/ Register(p) \/ RegisterAndLogin(p)
    \/ ChangePassword(p) \/ ResetPassword(p)
    \/ SetState(p) \/ RevokeForUsers(p) \/ MarkLogin(p) \/ DeleteUsers(p)

-----------------------------------------------------------------------------
(* Statements.  A check that fails returns an error and rolls back.        *)

\* The user is looked up before anything else; a login needs it active, a
\* reset does not.
FindUser(p) ==
    /\ Reads(p, "find")
    /\ tx[p].kind # "delete"
    /\ LET state == SeesUser(p, tx[p].user) IN
       IF state = "active" \/ (tx[p].kind = "reset" /\ Exists(state))
       THEN /\ Goto(p, CASE tx[p].kind \in {"login", "auth", "change"} -> "verify"
                         [] tx[p].kind = "issue" -> "reread"
                         [] tx[p].kind = "reset" -> "identifiers")
            /\ UNCHANGED draft
       ELSE Rollback(p)

AfterVerify(kind) == CASE kind = "login" -> "reread"
                       [] kind = "change" -> "identifiers"
                       [] kind = "auth" -> "commit"

\* Mutant: remembers the verified password where the stored row is meant.
AuthenticateUserKeepsPassword(p) ==
    /\ Reads(p, "verify")
    /\ UNCHANGED draft
    /\ tx' = [tx EXCEPT ![p].seen = SeesCred(p, tx[p].user).pw,
                        ![p].pc = AfterVerify(tx[p].kind)]

AuthenticateUser(p) ==
    /\ Reads(p, "verify")
    /\ LET c == SeesCred(p, tx[p].user) IN
       IF c.pw = tx[p].offered
       THEN /\ tx' = [tx EXCEPT ![p].seen = c,
                                ![p].pc = IF c.scheme = "retired" THEN "rehash"
                                          ELSE AfterVerify(tx[p].kind)]
            /\ UNCHANGED draft
       ELSE Rollback(p)

\* Mutant: the upgraded hash goes in whatever the row holds by now.
UpdatePasswordCredential(p) ==
    /\ Writes(p, "rehash")
    /\ WaitsFor(p) = {}
    /\ Goto(p, AfterVerify(tx[p].kind))
    /\ draft' = [draft EXCEPT ![p].creds[tx[p].user] =
                     [tx[p].seen EXCEPT !.scheme = "current"]]

\* The new hash goes in only where the row is still the one that was verified.
UpdatePasswordCredentialIfMatch(p) ==
    /\ Writes(p, "rehash")
    /\ WaitsFor(p) = {}
    /\ Goto(p, AfterVerify(tx[p].kind))
    /\ draft' = IF SeesCred(p, tx[p].user) = tx[p].seen
                THEN [draft EXCEPT ![p].creds[tx[p].user] =
                                       [tx[p].seen EXCEPT !.scheme = "current"]]
                ELSE draft

\* SessionService.Create reads the user again before it issues a token.
RereadUser(p) ==
    /\ Reads(p, "reread")
    /\ IF SeesUser(p, tx[p].user) = "active"
       THEN Goto(p, "insert") /\ UNCHANGED draft
       ELSE Rollback(p)

CreateSession(p) ==
    /\ Writes(p, "insert")
    /\ WaitsFor(p) = {}
    /\ IF KeyHolds(p, tx[p].user)
       THEN /\ Goto(p, "mark")
            /\ draft' = [draft EXCEPT ![p].sessions[tx[p].sid] =
                  [state |-> "live", user |-> tx[p].user,
                   via |-> IF tx[p].kind = "registerLogin" THEN tx[p].next
                           ELSE tx[p].offered]]
       ELSE Rollback(p)

\* Mutant: writes back the whole row that the login read.
SaveUserRead(p) ==
    /\ Writes(p, "mark")
    /\ WaitsFor(p) = {}
    /\ Goto(p, "commit")
    /\ draft' = [draft EXCEPT ![p].users[tx[p].user] = "active"]

\* Writes last_login_at and leaves the state column alone.
MarkUserLogin(p) ==
    /\ Writes(p, "mark")
    /\ WaitsFor(p) = {}
    /\ LET state == SeesUser(p, tx[p].user) IN
       IF Exists(state)
       THEN /\ Goto(p, "commit")
            /\ draft' = [draft EXCEPT ![p].users[tx[p].user] = state]
       ELSE Rollback(p)

CreateUser(p) ==
    /\ Writes(p, "create")
    /\ Goto(p, IF tx[p].kind = "create" THEN "commit" ELSE "setHash")
    /\ \E state \in {"active", "disabled"} :
          draft' = [draft EXCEPT ![p].users[tx[p].user] = state]

\* Reads the user's identifiers for the password policy.
LoginIdentifiers(p) ==
    /\ Reads(p, "identifiers")
    /\ IF Exists(SeesUser(p, tx[p].user))
       THEN Goto(p, "setHash") /\ UNCHANGED draft
       ELSE Rollback(p)

\* Mutant: a new password leaves the sessions alone.
AfterSetHashKeepsSessions(kind) ==
    IF kind = "registerLogin" THEN "reread" ELSE "commit"

AfterSetHash(kind) == CASE kind = "register" -> "commit"
                        [] kind = "registerLogin" -> "reread"
                        [] OTHER -> "revoke"

\* Overwrites the row or inserts one; an insert references the user.
UpsertPasswordCredential(p) ==
    /\ Writes(p, "setHash")
    /\ WaitsFor(p) = {}
    /\ IF SeesCred(p, tx[p].user).pw # None \/ KeyHolds(p, tx[p].user)
       THEN /\ Goto(p, AfterSetHash(tx[p].kind))
            /\ draft' = [draft EXCEPT ![p].creds[tx[p].user] =
                            [pw |-> tx[p].next, scheme |-> "current"]]
       ELSE Rollback(p)

\* Mutant: goes on waiting for an account that is not there.
UpdateUserStateWhenThere(p) ==
    /\ Writes(p, "setState")
    /\ \E u \in tx[p].todo :
          /\ Exists(users[u]) /\ UserHolders(p, u) = {}
          /\ tx' = [tx EXCEPT ![p].todo = @ \ {u}]
          /\ draft' = [draft EXCEPT ![p].users[u] =
                          IF tx[p].kind = "enable" THEN "active" ELSE "disabled"]

\* One UPDATE over all ids; it meets their rows one after the other.
UpdateUserState(p) ==
    /\ Writes(p, "setState")
    /\ \E u \in tx[p].todo :
          /\ Exists(users[u]) => UserHolders(p, u) = {}
          /\ tx' = [tx EXCEPT ![p].todo = @ \ {u}]
          /\ draft' = IF Exists(users[u])
                      THEN [draft EXCEPT ![p].users[u] =
                              IF tx[p].kind = "enable" THEN "active"
                              ELSE "disabled"]
                      ELSE draft

\* Mutant: disabling forgets the sessions.
CheckUpdatedKeepsSessions(p) ==
    /\ Reads(p, "setState")
    /\ tx[p].todo = {}
    /\ IF \A u \in tx[p].ids : draft[p].users[u] # None
       THEN Goto(p, "commit") /\ UNCHANGED draft
       ELSE Rollback(p)

\* Mutant: only an UPDATE that meets no row at all is an error.
CheckUpdatedSome(p) ==
    /\ Reads(p, "setState")
    /\ tx[p].todo = {}
    /\ IF \E u \in tx[p].ids : draft[p].users[u] # None
       THEN /\ Goto(p, IF tx[p].kind = "disable" THEN "revoke" ELSE "commit")
            /\ UNCHANGED draft
       ELSE Rollback(p)

\* SetState compares the number of rows with the number of ids.
CheckUpdated(p) ==
    /\ Reads(p, "setState")
    /\ tx[p].todo = {}
    /\ IF \A u \in tx[p].ids : draft[p].users[u] # None
       THEN /\ Goto(p, IF tx[p].kind = "disable" THEN "revoke" ELSE "commit")
            /\ UNCHANGED draft
       ELSE Rollback(p)

\* One UPDATE over the live sessions visible when it starts.
RevokeSessionsForUsers(p) ==
    /\ Reads(p, "revoke")
    /\ tx' = [tx EXCEPT ![p].pc = "sweep",
                        ![p].rows = {s \in Sessions :
                            /\ SeesSession(p, s).state = "live"
                            /\ SeesSession(p, s).user \in tx[p].ids}]
    /\ UNCHANGED draft

\* What the statement makes of a row, whose condition it tests again.
Swept(kind, row) ==
    CASE kind = "delete" /\ row.state \in {"live", "revoked"} -> DeletedSession
      [] kind # "delete" /\ row.state = "live" -> [row EXCEPT !.state = "revoked"]
      [] OTHER -> row

SweepSession(p) ==
    /\ \E step \in {"sweep", "cascade"} : Writes(p, step)
    /\ \E s \in tx[p].rows :
          /\ SessionHolders(p, s) = {}
          /\ tx' = [tx EXCEPT ![p].rows = @ \ {s}]
          /\ draft' = LET row == SeesSession(p, s) IN
                      IF Swept(tx[p].kind, row) = row THEN draft
                      ELSE [draft EXCEPT ![p].sessions[s] = Swept(tx[p].kind, row)]

EndSweep(p) ==
    /\ Reads(p, "sweep")
    /\ tx[p].rows = {}
    /\ Goto(p, IF tx[p].kind = "delete" THEN "wipeCred" ELSE "commit")
    /\ UNCHANGED draft

\* DeleteUsers reads every user before it deletes the first.
GetUserToDelete(p) ==
    /\ Reads(p, "find")
    /\ tx[p].kind = "delete"
    /\ \E u \in tx[p].todo :
          IF Exists(SeesUser(p, u))
          THEN /\ tx' = IF tx[p].todo = {u}
                        THEN [tx EXCEPT ![p].pc = "pick", ![p].todo = tx[p].ids]
                        ELSE [tx EXCEPT ![p].todo = @ \ {u}]
               /\ UNCHANGED draft
          ELSE Rollback(p)

\* Mutant: deletes the live sessions only.
LiveSessionsOf(p, u) ==
    {s \in Sessions : /\ SeesSession(p, s).user = u
                      /\ SeesSession(p, s).state = "live"}

SessionsOf(p, u) ==
    {s \in Sessions : SeesSession(p, s).user = u}

\* Takes the next id and starts the DELETE over its sessions.
DeleteSessionsOfNext(p) ==
    /\ Reads(p, "pick")
    /\ UNCHANGED draft
    /\ \/ tx[p].todo = {} /\ Goto(p, "commit")
       \/ \E u \in tx[p].todo :
             tx' = [tx EXCEPT ![p].pc = "sweep", ![p].user = u,
                              ![p].todo = @ \ {u}, ![p].rows = SessionsOf(p, u)]

\* Deletes the password row unless there is none.
WithoutCred(p) ==
    IF SeesCred(p, tx[p].user).pw = None THEN draft
    ELSE [draft EXCEPT ![p].creds[tx[p].user] = NoCred]

DeletePassword(p) ==
    /\ Writes(p, "wipeCred")
    /\ WaitsFor(p) = {}
    /\ Goto(p, "wipeUser")
    /\ draft' = WithoutCred(p)

\* Mutant: relies on the sweeps before it and cascades to nothing.
DeleteUserRowAlone(p) ==
    /\ Writes(p, "wipeUser")
    /\ WaitsFor(p) = {}
    /\ IF Exists(SeesUser(p, tx[p].user))
       THEN /\ tx' = [tx EXCEPT ![p].pc = "cascade", ![p].rows = {}]
            /\ draft' = [draft EXCEPT ![p].users[tx[p].user] = "deleted"]
       ELSE Rollback(p)

\* The declared keys cascade to rows committed since the sessions were swept.
DeleteUserRow(p) ==
    /\ Writes(p, "wipeUser")
    /\ WaitsFor(p) = {}
    /\ IF Exists(SeesUser(p, tx[p].user))
       THEN /\ tx' = [tx EXCEPT ![p].pc = "cascade",
                                ![p].rows = IF ForeignKeys
                                            THEN SessionsOf(p, tx[p].user) ELSE {}]
            /\ draft' = [draft EXCEPT ![p].users[tx[p].user] = "deleted"]
       ELSE Rollback(p)

EndCascade(p) ==
    /\ Writes(p, "cascade")
    /\ WaitsFor(p) = {}
    /\ tx[p].rows = {}
    /\ Goto(p, "pick")
    /\ draft' = IF ForeignKeys THEN WithoutCred(p) ELSE draft

Step(p) ==
    \/ FindUser(p) \/ AuthenticateUser(p) \/ UpdatePasswordCredentialIfMatch(p)
    \/ RereadUser(p) \/ CreateSession(p) \/ MarkUserLogin(p)
    \/ CreateUser(p) \/ LoginIdentifiers(p) \/ UpsertPasswordCredential(p)
    \/ UpdateUserState(p) \/ CheckUpdated(p)
    \/ RevokeSessionsForUsers(p) \/ SweepSession(p) \/ EndSweep(p)
    \/ GetUserToDelete(p) \/ DeleteSessionsOfNext(p) \/ DeletePassword(p)
    \/ DeleteUserRow(p) \/ EndCascade(p)

-----------------------------------------------------------------------------
(* Failures.                                                               *)

Aborts(p) ==
    /\ tx[p].pc # "idle"
    /\ Rollback(p)
    /\ stale' = stale \ {p}
    /\ UNCHANGED tables

\* The request is cancelled, the connection is lost, a validation or a host
\* callback returns an error, a name is taken: the transaction rolls back.
Fail(p) == Aborts(p)

\* SQLITE_BUSY: the snapshot is out of date, or another writer is at work.
Busy(p) ==
    /\ Isolation = "Serializable"
    /\ p \in stale \/ Writers(p) # {}
    /\ Aborts(p)

\* PostgreSQL ends one of the transactions that wait for each other.
Deadlocked(p) ==
    \E S \in SUBSET Procs :
        /\ p \in S
        /\ \A q \in S : /\ WaitsFor(q) \cap S # {}
                        /\ \E r \in S : q \in WaitsFor(r)
DeadlockVictim(p) ==
    /\ Isolation = "ReadCommitted"
    /\ Deadlocked(p)
    /\ Aborts(p)

Advance(p) == Step(p) \/ Commit(p) \/ Busy(p) \/ DeadlockVictim(p)

Next == \E p \in Procs : Begin(p) \/ Advance(p) \/ Fail(p)

Spec == Init /\ [][Next]_vars

\* A goroutine that can go on does, and a lock that comes free again and
\* again is not withheld from one waiter for ever: PostgreSQL queues them.
Fairness == \A p \in Procs : SF_vars(Advance(p))
FairSpec == Spec /\ Fairness

-----------------------------------------------------------------------------
(* Properties.                                                             *)

TxRows ==
    [kind : Kinds, pc : Steps, ids : SUBSET Users, user : Users \cup {None},
     offered : Passwords \cup {None}, next : Passwords \cup {None},
     sid : Sessions \cup {None}, seen : CredRows,
     todo : SUBSET Users, rows : SUBSET Sessions]
Drafts ==
    [users : [Users -> UserStates \cup {None}],
     creds : [Users -> CredRows \cup {None}],
     sessions : [Sessions -> SessionRows \cup {None}]]

\* Every variable ranges over what the schema and the code can put there.
TypeOK ==
    /\ users \in [Users -> UserStates]
    /\ creds \in [Users -> CredRows]
    /\ sessions \in [Sessions -> SessionRows]
    /\ tx \in [Procs -> TxRows]
    /\ draft \in [Procs -> Drafts]
    /\ stale \subseteq Procs

\* "Disabling a user revokes sessions. Password changes and resets revoke old
\* sessions" (docs/architecture.md:52-53): both, whatever logins are under way.
RevocationsReachEverySession ==
    DisabledUserHasNoLiveSession /\ SessionsMatchPassword

\* The password of an account is replaced only by a request that was asked to
\* replace it; the hash upgrade of a concurrent login never is what does it.
OnlyAskedPasswordChanges ==
    [][\A u \in Users : creds'[u].pw # creds[u].pw =>
         \E p \in Procs : /\ tx[p].pc = "commit"
                          /\ u \in tx[p].ids
                          /\ creds'[u].pw = tx[p].next]_vars

\* A disabled account becomes active only by SetState: the login that was
\* under way when it was disabled writes its time, not the state it read.
OnlySetStateEnables ==
    [][\A u \in Users : users[u] = "disabled" /\ users'[u] = "active" =>
         \E p \in Procs : /\ tx[p].kind = "enable"
                          /\ tx[p].pc = "commit"
                          /\ u \in tx[p].ids]_vars

\* A batch commits for all of its accounts or for none: when one of them is
\* gone the others keep their state, their sessions and their passwords.
BatchIsAllOrNothing ==
    [][\A p \in Procs :
         tx[p].pc = "commit" /\ tx'[p].pc = "idle" /\ tables' # tables =>
            \A u \in tx[p].ids :
               /\ tx[p].kind = "disable" => users'[u] = "disabled"
               /\ tx[p].kind = "enable" => users'[u] = "active"
               /\ tx[p].kind = "delete" => users'[u] = "deleted"]_vars

\* Every request ends, whatever the others lock and however they overlap.
RequestsEnd == \A p \in Procs : tx[p].pc # "idle" ~> tx[p].pc = "idle"

\* Under SQLite the statements of a request add up to one atomic step: what
\* is committed evolves as AtomicAccounts allows.
Atomic == INSTANCE AtomicAccounts
EveryRequestIsAtomic == Atomic!Spec
=============================================================================
