--------------------------- MODULE AccountsProofs ---------------------------
(***************************************************************************)
(* What module Accounts keeps for any number of goroutines, users,         *)
(* sessions and passwords, in four parts:                                  *)
(*   1. the types of the rows and the course of each request (IInv);       *)
(*   2. the inductive invariant Lock: what a transaction has written is    *)
(*      locked against the others and agrees with the committed rows, and  *)
(*      what follows from it at either isolation level;                    *)
(*   3. the inductive invariant Serial of one writer at a time: what the   *)
(*      request has done so far, said of the committed rows;               *)
(*   4. the refinement of AtomicAccounts that Serial gives.                *)
(***************************************************************************)
EXTENDS Accounts, TLAPS

LEMMA InitTypeOK == Init => TypeOK
  BY DEF Init, TypeOK, InitialUsers, InitialCreds, UserStates, CredRows, NoCred,
         SessionRows, UnusedSession, TxRows, Drafts, Idle, Blank, Kinds, Steps

\* What a transaction reads is a row of the table.
LEMMA SeesType ==
  ASSUME TypeOK, NEW p \in Procs
  PROVE  /\ \A u \in Users : SeesUser(p, u) \in UserStates
         /\ \A u \in Users : SeesCred(p, u) \in CredRows
         /\ \A s \in Sessions : SeesSession(p, s) \in SessionRows
  BY DEF TypeOK, SeesUser, SeesCred, SeesSession, Drafts

\* The course of each request: the statements it can be at, and what it was
\* given.  Without it TypeOK is not inductive: FindUser and AfterVerify say
\* where a request goes on only for the kinds that come there.
StepsOf == [idle          |-> {"idle"},
            login         |-> {"find", "verify", "rehash", "reread", "insert",
                               "mark", "commit"},
            issue         |-> {"find", "reread", "insert", "mark", "commit"},
            auth          |-> {"find", "verify", "rehash", "commit"},
            create        |-> {"create", "commit"},
            register      |-> {"create", "setHash", "commit"},
            registerLogin |-> {"create", "setHash", "reread", "insert", "mark",
                               "commit"},
            change        |-> {"find", "verify", "rehash", "identifiers",
                               "setHash", "revoke", "sweep", "commit"},
            reset         |-> {"find", "identifiers", "setHash", "revoke",
                               "sweep", "commit"},
            enable        |-> {"setState", "commit"},
            disable       |-> {"setState", "revoke", "sweep", "commit"},
            revoke        |-> {"revoke", "sweep", "commit"},
            markLogin     |-> {"mark", "commit"},
            delete        |-> {"find", "pick", "sweep", "wipeCred", "wipeUser",
                               "cascade", "commit"}]

OnCourse(row) ==
    /\ row.pc \in StepsOf[row.kind]
    /\ row.kind \in Creators \cup {"login", "issue", "auth", "change", "reset",
                                  "markLogin"}
          => row.user \in Users
    /\ row.kind = "delete" /\ row.pc \notin {"find", "pick", "commit"}
          => row.user \in Users
    /\ row.kind \in {"login", "issue", "registerLogin"} => row.sid \in Sessions
    /\ row.kind \in {"register", "registerLogin", "change", "reset"}
          => row.next \in Passwords

IInv == TypeOK /\ \A p \in Procs : OnCourse(tx[p])

\* A goroutine's row may be replaced by any row that is on course.
LEMMA RowStep ==
  ASSUME IInv, NEW p \in Procs, NEW row \in TxRows, OnCourse(row),
         tx' = [tx EXCEPT ![p] = row]
  PROVE  tx' \in [Procs -> TxRows] /\ \A q \in Procs : OnCourse(tx'[q])
  BY DEF IInv, TypeOK

LEMMA RollbackStep ==
  ASSUME IInv, NEW p \in Procs, Rollback(p)
  PROVE  /\ tx' \in [Procs -> TxRows] /\ \A q \in Procs : OnCourse(tx'[q])
         /\ draft' \in [Procs -> Drafts]
  <1>1. Idle \in TxRows /\ OnCourse(Idle)
    BY DEF OnCourse, StepsOf, TxRows, Idle, Kinds, Steps, CredRows, NoCred, Creators
  <1>2. draft' \in [Procs -> Drafts]
    BY DEF IInv, TypeOK, Rollback, Drafts, Blank
  <1> QED
    BY <1>1, <1>2, RowStep DEF Rollback

\* Writing one row of a draft keeps its type.
LEMMA DraftType ==
  ASSUME TypeOK, NEW p \in Procs
  PROVE  /\ \A u \in Users, row \in UserStates :
              [draft EXCEPT ![p].users[u] = row] \in [Procs -> Drafts]
         /\ \A u \in Users, row \in CredRows :
              [draft EXCEPT ![p].creds[u] = row] \in [Procs -> Drafts]
         /\ \A s \in Sessions, row \in SessionRows :
              [draft EXCEPT ![p].sessions[s] = row] \in [Procs -> Drafts]
  BY DEF TypeOK, Drafts

LEMMA CommitStep ==
  ASSUME IInv, NEW p \in Procs, Commit(p)
  PROVE  IInv'
  <1>1. Rollback(p)
    BY DEF Commit, Rollback
  <1>2. TypeOK'
    BY <1>1, RollbackStep DEF IInv, TypeOK, Commit, Committed, Drafts
  <1> QED
    BY <1>1, <1>2, RollbackStep DEF IInv

LEMMA AbortsStep ==
  ASSUME IInv, NEW p \in Procs, Aborts(p)
  PROVE  IInv'
  <1>1. Rollback(p) /\ UNCHANGED <<users, creds, sessions>>
    BY DEF Aborts, tables
  <1>2. stale' \subseteq Procs
    BY DEF Aborts, IInv, TypeOK
  <1> QED
    BY <1>1, <1>2, RollbackStep DEF IInv, TypeOK

\* A request or a statement leaves the committed rows alone.
LEMMA StatementType ==
  ASSUME IInv, UNCHANGED <<users, creds, sessions, stale>>,
         tx' \in [Procs -> TxRows], \A q \in Procs : OnCourse(tx'[q]),
         draft' \in [Procs -> Drafts]
  PROVE  IInv'
  BY DEF IInv, TypeOK

LEMMA OpenStep ==
  ASSUME IInv, NEW p \in Procs,
         NEW request \in TxRows, OnCourse(request), Open(p, request)
  PROVE  IInv'
  BY RowStep, StatementType DEF Open, IInv, TypeOK

LEMMA BeginStep ==
  ASSUME IInv, NEW p \in Procs, Begin(p)
  PROVE  IInv'
  <1> USE DEF TxRows, Idle, Kinds, Steps, CredRows, NoCred, OnCourse, StepsOf,
              Creators
  <1>1. CASE Login(p)
    <2>1. PICK u \in Users, w \in Passwords, s \in UnclaimedSessions :
            Open(p, [Idle EXCEPT !.kind = "login", !.pc = "find", !.ids = {u},
                                 !.user = u, !.offered = w, !.sid = s])
      BY <1>1 DEF Login
    <2> DEFINE row == [Idle EXCEPT !.kind = "login", !.pc = "find", !.ids = {u},
                                   !.user = u, !.offered = w, !.sid = s]
    <2>2. row \in TxRows
      BY <2>1 DEF UnclaimedSessions
    <2>3. OnCourse(row)
      BY <2>1 DEF UnclaimedSessions
    <2>4. Open(p, row)
      BY <2>1
    <2> HIDE DEF row, TxRows, OnCourse
    <2> QED
      BY <2>2, <2>3, <2>4, OpenStep
  <1>2. CASE IssueSession(p)
    BY <1>2, OpenStep DEF IssueSession, UnclaimedSessions
  <1>3. CASE Authenticate(p)
    BY <1>3, OpenStep DEF Authenticate
  <1>4. CASE CreateAccount(p)
    <2>1. PICK u \in UnclaimedUsers :
            Open(p, [Idle EXCEPT !.kind = "create", !.pc = "create", !.ids = {u},
                                 !.user = u])
      BY <1>4 DEF CreateAccount
    <2> DEFINE row == [Idle EXCEPT !.kind = "create", !.pc = "create", !.ids = {u},
                                   !.user = u]
    <2>2. row \in TxRows
      BY <2>1 DEF UnclaimedUsers
    <2>3. OnCourse(row)
      BY <2>1 DEF UnclaimedUsers
    <2>4. Open(p, row)
      BY <2>1
    <2> HIDE DEF row, TxRows, OnCourse
    <2> QED
      BY <2>2, <2>3, <2>4, OpenStep
  <1>5. CASE Register(p)
    <2>1. PICK u \in UnclaimedUsers, w \in Passwords :
            Open(p, [Idle EXCEPT !.kind = "register", !.pc = "create", !.ids = {u},
                                 !.user = u, !.next = w])
      BY <1>5 DEF Register
    <2> DEFINE row == [Idle EXCEPT !.kind = "register", !.pc = "create", !.ids = {u},
                                   !.user = u, !.next = w]
    <2>2. row \in TxRows
      BY <2>1 DEF UnclaimedUsers
    <2>3. OnCourse(row)
      BY <2>1 DEF UnclaimedUsers
    <2>4. Open(p, row)
      BY <2>1
    <2> HIDE DEF row, TxRows, OnCourse
    <2> QED
      BY <2>2, <2>3, <2>4, OpenStep
  <1>6. CASE RegisterAndLogin(p)
    <2>1. PICK u \in UnclaimedUsers, w \in Passwords, s \in UnclaimedSessions :
            Open(p, [Idle EXCEPT !.kind = "registerLogin", !.pc = "create",
                                 !.ids = {u}, !.user = u, !.next = w, !.sid = s])
      BY <1>6 DEF RegisterAndLogin
    <2> DEFINE row == [Idle EXCEPT !.kind = "registerLogin", !.pc = "create",
                                   !.ids = {u}, !.user = u, !.next = w, !.sid = s]
    <2>2. row \in TxRows
      BY <2>1 DEF UnclaimedUsers, UnclaimedSessions
    <2>3. OnCourse(row)
      BY <2>1 DEF UnclaimedUsers, UnclaimedSessions
    <2>4. Open(p, row)
      BY <2>1
    <2> HIDE DEF row, TxRows, OnCourse
    <2> QED
      BY <2>2, <2>3, <2>4, OpenStep
  <1>7. CASE ChangePassword(p)
    <2>1. PICK u \in Users, w \in Passwords, next \in Passwords :
            Open(p, [Idle EXCEPT !.kind = "change", !.pc = "find", !.ids = {u},
                                 !.user = u, !.offered = w, !.next = next])
      BY <1>7 DEF ChangePassword
    <2> DEFINE row == [Idle EXCEPT !.kind = "change", !.pc = "find", !.ids = {u},
                                   !.user = u, !.offered = w, !.next = next]
    <2>2. row \in TxRows
      BY <2>1
    <2>3. OnCourse(row)
      BY <2>1
    <2>4. Open(p, row)
      BY <2>1
    <2> HIDE DEF row, TxRows, OnCourse
    <2> QED
      BY <2>2, <2>3, <2>4, OpenStep
  <1>8. CASE ResetPassword(p)
    <2>1. PICK u \in Users, next \in Passwords :
            Open(p, [Idle EXCEPT !.kind = "reset", !.pc = "find", !.ids = {u},
                                 !.user = u, !.next = next])
      BY <1>8 DEF ResetPassword
    <2> DEFINE row == [Idle EXCEPT !.kind = "reset", !.pc = "find", !.ids = {u},
                                   !.user = u, !.next = next]
    <2>2. row \in TxRows
      BY <2>1
    <2>3. OnCourse(row)
      BY <2>1
    <2>4. Open(p, row)
      BY <2>1
    <2> HIDE DEF row, TxRows, OnCourse
    <2> QED
      BY <2>2, <2>3, <2>4, OpenStep
  <1>9. CASE SetState(p)
    <2>1. PICK ids \in (SUBSET Users) \ {{}}, kind \in {"enable", "disable"} :
            Open(p, [Idle EXCEPT !.kind = kind, !.pc = "setState", !.ids = ids,
                                 !.todo = ids])
      BY <1>9 DEF SetState
    <2>2. CASE kind = "enable"
      BY <2>1, <2>2, OpenStep
    <2>3. CASE kind = "disable"
      BY <2>1, <2>3, OpenStep
    <2> QED
      BY <2>2, <2>3
  <1>10. CASE RevokeForUsers(p)
    BY <1>10, OpenStep DEF RevokeForUsers
  <1>11. CASE DeleteUsers(p)
    BY <1>11, OpenStep DEF DeleteUsers
  <1>12. CASE MarkLogin(p)
    BY <1>12, OpenStep DEF MarkLogin
  <1> QED
    BY <1>12, <1>1, <1>2, <1>3, <1>4, <1>5, <1>6, <1>7, <1>8, <1>9, <1>10, <1>11 DEF Begin

\* Most statements move the request on to one given step.
LEMMA GotoStep ==
  ASSUME IInv, NEW p \in Procs, NEW step \in Steps, Goto(p, step),
         OnCourse([tx[p] EXCEPT !.pc = step])
  PROVE  tx' \in [Procs -> TxRows] /\ \A q \in Procs : OnCourse(tx'[q])
  <1>1. tx[p] \in TxRows
    BY DEF IInv, TypeOK
  <1>2. [tx[p] EXCEPT !.pc = step] \in TxRows
    BY <1>1 DEF TxRows
  <1>3. tx' = [tx EXCEPT ![p] = [tx[p] EXCEPT !.pc = step]]
    BY DEF Goto
  <1> QED
    BY <1>2, <1>3, RowStep

\* What brought a request to its next statement, and what it has in hand.
LEMMA Course ==
  ASSUME IInv, NEW p \in Procs
  PROVE
  /\ tx[p] \in TxRows
  /\ tx[p].pc = "find" => \/ tx[p].kind = "delete"
                          \/ /\ tx[p].kind \in {"login", "auth", "change", "issue",
                                                "reset"}
                             /\ tx[p].user \in Users
  /\ tx[p].pc \in {"verify", "rehash"} =>
        tx[p].kind \in {"login", "auth", "change"} /\ tx[p].user \in Users
  /\ tx[p].pc \in {"reread", "insert"} =>
        /\ tx[p].kind \in {"login", "issue", "registerLogin"}
        /\ tx[p].user \in Users /\ tx[p].sid \in Sessions
  /\ tx[p].pc = "mark" =>
        /\ tx[p].kind \in {"login", "issue", "registerLogin", "markLogin"}
        /\ tx[p].user \in Users
  /\ tx[p].kind = "registerLogin" => tx[p].next \in Passwords
  /\ tx[p].pc = "create" => tx[p].kind \in Creators /\ tx[p].user \in Users
  /\ tx[p].pc = "identifiers" =>
        tx[p].kind \in {"change", "reset"} /\ tx[p].user \in Users
  /\ tx[p].pc = "setHash" =>
        /\ tx[p].kind \in {"register", "registerLogin", "change", "reset"}
        /\ tx[p].user \in Users /\ tx[p].next \in Passwords
  /\ tx[p].pc = "setState" => tx[p].kind \in {"enable", "disable"}
  /\ tx[p].pc \in {"revoke", "sweep"} =>
        \/ /\ tx[p].kind \in {"change", "reset"} /\ tx[p].user \in Users
           /\ tx[p].next \in Passwords
        \/ tx[p].kind \in {"disable", "revoke"}
        \/ tx[p].kind = "delete" /\ (tx[p].pc = "sweep" => tx[p].user \in Users)
  /\ tx[p].pc = "revoke" => tx[p].kind # "delete"
  /\ tx[p].pc = "pick" => tx[p].kind = "delete"
  /\ tx[p].pc \in {"wipeCred", "wipeUser", "cascade"} =>
        tx[p].kind = "delete" /\ tx[p].user \in Users
  <1>1. tx[p] \in TxRows /\ OnCourse(tx[p])
    BY DEF IInv, TypeOK
  <1>2. tx[p].kind \in Kinds
    BY <1>1 DEF TxRows
  <1> QED
    BY <1>1, <1>2 DEF OnCourse, StepsOf, Creators, Kinds

\* Each statement keeps the request on its course and writes rows of the right
\* type into its draft.
LEMMA StatementStep ==
  ASSUME IInv, NEW p \in Procs, Step(p)
  PROVE  IInv'
  <1> DEFINE Moves == /\ tx' \in [Procs -> TxRows]
                      /\ \A q \in Procs : OnCourse(tx'[q])
                      /\ draft' \in [Procs -> Drafts]
             OnTo(step) == OnCourse([tx[p] EXCEPT !.pc = step])
  <1> SUFFICES Moves
    <2>1. UNCHANGED <<users, creds, sessions, stale>>
      BY DEF Step, FindUser, AuthenticateUser, UpdatePasswordCredentialIfMatch,
             RereadUser, CreateSession, MarkUserLogin, CreateUser,
             LoginIdentifiers, UpsertPasswordCredential, UpdateUserState,
             CheckUpdated, RevokeSessionsForUsers, SweepSession, EndSweep,
             GetUserToDelete, DeleteSessionsOfNext, DeletePassword,
             DeleteUserRow, EndCascade, Reads, Writes
    <2> QED
      BY <2>1, StatementType
  <1>a. /\ TypeOK /\ draft \in [Procs -> Drafts]
        /\ tx[p] \in TxRows /\ OnCourse(tx[p])
    BY DEF IInv, TypeOK
  <1>b. Rollback(p) => Moves
    BY RollbackStep
  <1>c. ASSUME NEW step \in Steps, OnTo(step), Goto(p, step),
               draft' \in [Procs -> Drafts]
        PROVE  Moves
    BY <1>c, GotoStep
  <1>d. ASSUME NEW row \in TxRows, OnCourse(row), tx' = [tx EXCEPT ![p] = row],
               draft' \in [Procs -> Drafts]
        PROVE  Moves
    BY <1>d, RowStep
  <1> HIDE DEF Moves
  <1>1. CASE FindUser(p)
    <2>1. CASE Rollback(p)
      BY <2>1, <1>b
    <2>2. CASE ~Rollback(p)
      <3> DEFINE step == CASE tx[p].kind \in {"login", "auth", "change"} -> "verify"
                           [] tx[p].kind = "issue" -> "reread"
                           [] tx[p].kind = "reset" -> "identifiers"
      <3>1. tx[p].kind \in {"login", "auth", "change", "issue", "reset"}
            /\ tx[p].user \in Users
        BY <1>1, Course DEF FindUser, Reads
      <3>2. Goto(p, step) /\ UNCHANGED draft
        BY <1>1, <2>2 DEF FindUser
      <3>3. step \in Steps /\ OnTo(step)
        BY <3>1, <1>a, Course DEF OnCourse, StepsOf, Creators, TxRows, Steps, IInv
      <3> QED
        BY <3>2, <3>3, <1>a, <1>c
    <2> QED
      BY <2>1, <2>2
  <1>2. CASE AuthenticateUser(p)
    <2> DEFINE c == SeesCred(p, tx[p].user)
               row == [tx[p] EXCEPT
                         !.seen = c, !.pc = IF c.scheme = "retired" THEN "rehash"
                                            ELSE AfterVerify(tx[p].kind)]
    <2>1. tx[p].kind \in {"login", "auth", "change"} /\ tx[p].user \in Users
      BY <1>2, Course DEF AuthenticateUser, Reads
    <2>2. c \in CredRows
      BY <2>1, <1>a, SeesType
    <2>3. AfterVerify(tx[p].kind) \in {"reread", "identifiers", "commit"}
      BY <2>1 DEF AfterVerify
    <2> DEFINE step == IF c.scheme = "retired" THEN "rehash" ELSE AfterVerify(tx[p].kind)
    <2>7. step \in Steps
      BY <2>3 DEF Steps
    <2>4. row \in TxRows
      <3> HIDE DEF c, step
      <3>1. [tx[p] EXCEPT !.seen = c, !.pc = step] \in TxRows
        BY <2>2, <2>7, <1>a DEF TxRows
      <3> QED
        BY <3>1 DEF step
    <2>5. OnCourse(row)
      BY <2>1, <2>3, <1>a DEF TxRows, AfterVerify, OnCourse, StepsOf, Creators
    <2>6. Rollback(p) \/ (tx' = [tx EXCEPT ![p] = row] /\ UNCHANGED draft)
      BY <1>2 DEF AuthenticateUser
    <2> QED
      BY <2>4, <2>5, <2>6, <1>a, <1>b, <1>d
  <1>3. CASE UpdatePasswordCredentialIfMatch(p)
    <2>1. tx[p].kind \in {"login", "auth", "change"} /\ tx[p].user \in Users
      BY <1>3, Course DEF UpdatePasswordCredentialIfMatch, Writes
    <2>2. [tx[p].seen EXCEPT !.scheme = "current"] \in CredRows
      BY <1>a DEF TxRows, CredRows
    <2>3. draft' \in [Procs -> Drafts]
      BY <1>3, <1>a, <2>1, <2>2, DraftType DEF UpdatePasswordCredentialIfMatch
    <2>4. AfterVerify(tx[p].kind) \in Steps /\ OnTo(AfterVerify(tx[p].kind))
      BY <2>1, <1>a
         DEF AfterVerify, TxRows, Steps, OnCourse, StepsOf, Creators
    <2> QED
      BY <1>3, <2>3, <2>4, <1>c DEF UpdatePasswordCredentialIfMatch
  <1>4. CASE RereadUser(p)
    <2>1. "insert" \in Steps /\ OnTo("insert")
      BY <1>4, <1>a, Course
         DEF RereadUser, Reads, TxRows, Steps, OnCourse, StepsOf, Creators
    <2> QED
      BY <1>4, <2>1, <1>a, <1>b, <1>c DEF RereadUser
  <1>5. CASE CreateSession(p)
    <2> DEFINE row == [state |-> "live", user |-> tx[p].user,
                       via |-> IF tx[p].kind = "registerLogin" THEN tx[p].next
                               ELSE tx[p].offered]
    <2>1. /\ tx[p].kind \in {"login", "issue", "registerLogin"}
          /\ tx[p].user \in Users /\ tx[p].sid \in Sessions
      BY <1>5, Course DEF CreateSession, Writes
    <2>2. row \in SessionRows
      BY <2>1, <1>a DEF TxRows, SessionRows
    <2>3. [draft EXCEPT ![p].sessions[tx[p].sid] = row] \in [Procs -> Drafts]
      BY <2>1, <2>2, <1>a, DraftType
    <2>4. "mark" \in Steps /\ OnTo("mark")
      BY <2>1, <1>a, Course DEF TxRows, Steps, OnCourse, StepsOf, Creators
    <2> QED
      BY <1>5, <2>3, <2>4, <1>b, <1>c DEF CreateSession
  <1>6. CASE MarkUserLogin(p)
    <2> DEFINE state == SeesUser(p, tx[p].user)
    <2>1. /\ tx[p].kind \in {"login", "issue", "registerLogin", "markLogin"}
          /\ tx[p].user \in Users
      BY <1>6, Course DEF MarkUserLogin, Writes
    <2>2. [draft EXCEPT ![p].users[tx[p].user] = state] \in [Procs -> Drafts]
      BY <2>1, <1>a, SeesType, DraftType
    <2>3. "commit" \in Steps /\ OnTo("commit")
      BY <2>1, <1>a, Course DEF TxRows, Steps, OnCourse, StepsOf, Creators
    <2> QED
      BY <1>6, <2>2, <2>3, <1>b, <1>c DEF MarkUserLogin
  <1>7. CASE CreateUser(p)
    <2> DEFINE step == IF tx[p].kind = "create" THEN "commit" ELSE "setHash"
    <2>1. tx[p].kind \in Creators /\ tx[p].user \in Users
      BY <1>7, Course DEF CreateUser, Writes
    <2>2. draft' \in [Procs -> Drafts]
      <3>1. PICK state \in {"active", "disabled"} :
              draft' = [draft EXCEPT ![p].users[tx[p].user] = state]
        BY <1>7 DEF CreateUser
      <3>2. state \in UserStates
        BY DEF UserStates
      <3> QED
        BY <3>1, <3>2, <2>1, <1>a, DraftType
    <2>3. step \in Steps /\ OnTo(step)
      BY <2>1, <1>a, Course DEF TxRows, Steps, OnCourse, StepsOf, Creators, IInv
    <2> QED
      BY <1>7, <2>2, <2>3, <1>c DEF CreateUser
  <1>8. CASE LoginIdentifiers(p)
    <2>1. "setHash" \in Steps /\ OnTo("setHash")
      BY <1>8, <1>a, Course
         DEF LoginIdentifiers, Reads, TxRows, Steps, OnCourse, StepsOf, Creators, IInv
    <2> QED
      BY <1>8, <2>1, <1>a, <1>b, <1>c DEF LoginIdentifiers
  <1>9. CASE UpsertPasswordCredential(p)
    <2>1. /\ tx[p].kind \in {"register", "registerLogin", "change", "reset"}
          /\ tx[p].user \in Users /\ tx[p].next \in Passwords
      BY <1>9, Course DEF UpsertPasswordCredential, Writes
    <2>2. [pw |-> tx[p].next, scheme |-> "current"] \in CredRows
      BY <2>1 DEF CredRows
    <2>3. [draft EXCEPT ![p].creds[tx[p].user] =
             [pw |-> tx[p].next, scheme |-> "current"]] \in [Procs -> Drafts]
      BY <2>1, <2>2, <1>a, DraftType
    <2>4. AfterSetHash(tx[p].kind) \in Steps /\ OnTo(AfterSetHash(tx[p].kind))
      BY <2>1, <1>a, Course
         DEF AfterSetHash, TxRows, Steps, OnCourse, StepsOf, Creators, IInv
    <2> QED
      BY <1>9, <2>3, <2>4, <1>b, <1>c DEF UpsertPasswordCredential
  <1>10. CASE UpdateUserState(p)
    <2>1. PICK u \in tx[p].todo :
            /\ tx' = [tx EXCEPT ![p].todo = @ \ {u}]
            /\ draft' = IF Exists(users[u])
                        THEN [draft EXCEPT ![p].users[u] =
                                IF tx[p].kind = "enable" THEN "active"
                                ELSE "disabled"]
                        ELSE draft
      BY <1>10 DEF UpdateUserState
    <2>2. u \in Users
      BY <1>a DEF TxRows
    <2>3. draft' \in [Procs -> Drafts]
      BY <2>1, <2>2, <1>a, DraftType DEF UserStates
    <2>4. [tx[p] EXCEPT !.todo = @ \ {u}] \in TxRows
      BY <1>a DEF TxRows
    <2>5. OnCourse([tx[p] EXCEPT !.todo = @ \ {u}])
      BY <1>10, <1>a, Course
         DEF UpdateUserState, Writes, TxRows, OnCourse, StepsOf, Creators
    <2> QED
      BY <2>1, <2>3, <2>4, <2>5, <1>d
  <1>11. CASE CheckUpdated(p)
    <2> DEFINE step == IF tx[p].kind = "disable" THEN "revoke" ELSE "commit"
    <2>1. step \in Steps /\ OnTo(step)
      BY <1>11, <1>a, Course
         DEF CheckUpdated, Reads, TxRows, Steps, OnCourse, StepsOf, Creators
    <2> QED
      BY <1>11, <2>1, <1>a, <1>b, <1>c DEF CheckUpdated
  <1>12. CASE RevokeSessionsForUsers(p)
    <2> DEFINE found == {s \in Sessions : /\ SeesSession(p, s).state = "live"
                                          /\ SeesSession(p, s).user \in tx[p].ids}
               row == [tx[p] EXCEPT !.pc = "sweep", !.rows = found]
    <2>1. row \in TxRows
      BY <1>a DEF TxRows, Steps
    <2>2. OnCourse(row)
      BY <1>12, <1>a, Course
         DEF RevokeSessionsForUsers, Reads, TxRows, OnCourse, StepsOf, Creators
    <2> QED
      BY <1>12, <2>1, <2>2, <1>a, <1>d DEF RevokeSessionsForUsers
  <1>13. CASE SweepSession(p)
    <2>1. PICK s \in tx[p].rows :
            /\ tx' = [tx EXCEPT ![p].rows = @ \ {s}]
            /\ draft' = LET row == SeesSession(p, s) IN
                        IF Swept(tx[p].kind, row) = row THEN draft
                        ELSE [draft EXCEPT ![p].sessions[s] =
                                Swept(tx[p].kind, row)]
      BY <1>13 DEF SweepSession
    <2>2. s \in Sessions
      BY <1>a DEF TxRows
    <2>3. Swept(tx[p].kind, SeesSession(p, s)) \in SessionRows
      BY <2>2, <1>a, SeesType DEF Swept, SessionRows, DeletedSession
    <2>4. draft' \in [Procs -> Drafts]
      BY <2>1, <2>2, <2>3, <1>a, DraftType
    <2>5. [tx[p] EXCEPT !.rows = @ \ {s}] \in TxRows
      BY <1>a DEF TxRows
    <2>6. OnCourse([tx[p] EXCEPT !.rows = @ \ {s}])
      BY <1>a DEF IInv, TxRows, OnCourse
    <2> QED
      BY <2>1, <2>4, <2>5, <2>6, <1>d
  <1>14. CASE EndSweep(p)
    <2> DEFINE step == IF tx[p].kind = "delete" THEN "wipeCred" ELSE "commit"
    <2>1. step \in Steps /\ OnTo(step)
      BY <1>14, <1>a, Course
         DEF EndSweep, Reads, TxRows, Steps, OnCourse, StepsOf, Creators, IInv
    <2> QED
      BY <1>14, <2>1, <1>a, <1>c DEF EndSweep
  <1>15. CASE GetUserToDelete(p)
    <2> DEFINE last == [tx[p] EXCEPT !.pc = "pick", !.todo = tx[p].ids]
    <2>1. PICK u \in tx[p].todo :
            \/ Rollback(p)
            \/ tx' = [tx EXCEPT ![p] = last] /\ UNCHANGED draft
            \/ tx' = [tx EXCEPT ![p].todo = @ \ {u}] /\ UNCHANGED draft
      BY <1>15 DEF GetUserToDelete
    <2>2. last \in TxRows /\ [tx[p] EXCEPT !.todo = @ \ {u}] \in TxRows
      BY <1>a DEF TxRows, Steps
    <2>3. OnCourse(last) /\ OnCourse([tx[p] EXCEPT !.todo = @ \ {u}])
      BY <1>15, <1>a
         DEF GetUserToDelete, Reads, TxRows, OnCourse, StepsOf, Creators
    <2> QED
      BY <2>1, <2>2, <2>3, <1>a, <1>b, <1>d
  <1>16. CASE DeleteSessionsOfNext(p)
    <2>1. tx[p].kind = "delete"
      BY <1>16, Course DEF DeleteSessionsOfNext, Reads
    <2>2. CASE Goto(p, "commit")
      <3>1. "commit" \in Steps /\ OnTo("commit")
        BY <2>1, <1>a DEF TxRows, Steps, OnCourse, StepsOf, Creators
      <3> QED
        BY <1>16, <2>2, <3>1, <1>a, <1>c DEF DeleteSessionsOfNext
    <2>3. CASE ~Goto(p, "commit")
      <3>1. PICK u \in tx[p].todo :
              tx' = [tx EXCEPT ![p].pc = "sweep", ![p].user = u,
                               ![p].todo = @ \ {u}, ![p].rows = SessionsOf(p, u)]
        BY <1>16, <2>3 DEF DeleteSessionsOfNext
      <3> DEFINE row == [tx[p] EXCEPT !.pc = "sweep", !.user = u,
                                      !.todo = @ \ {u}, !.rows = SessionsOf(p, u)]
      <3>2. row \in TxRows
        BY <1>a DEF TxRows, Steps, SessionsOf
      <3>3. OnCourse(row)
        BY <2>1, <1>a DEF TxRows, OnCourse, StepsOf, Creators
      <3>4. tx' = [tx EXCEPT ![p] = row] /\ UNCHANGED draft
        BY <1>16, <3>1 DEF DeleteSessionsOfNext
      <3> QED
        BY <3>2, <3>3, <3>4, <1>a, <1>d
    <2> QED
      BY <2>2, <2>3
  <1>e. tx[p].user \in Users => WithoutCred(p) \in [Procs -> Drafts]
    <2>1. NoCred \in CredRows
      BY DEF NoCred, CredRows
    <2> QED
      BY <2>1, <1>a, DraftType DEF WithoutCred
  <1>17. CASE DeletePassword(p)
    <2>1. tx[p].kind = "delete" /\ tx[p].user \in Users
      BY <1>17, Course DEF DeletePassword, Writes
    <2>2. "wipeUser" \in Steps /\ OnTo("wipeUser")
      BY <2>1, <1>a DEF TxRows, Steps, OnCourse, StepsOf, Creators
    <2> QED
      BY <1>17, <2>1, <2>2, <1>e, <1>c DEF DeletePassword
  <1>18. CASE DeleteUserRow(p)
    <2> DEFINE row == [tx[p] EXCEPT
                         !.pc = "cascade",
                         !.rows = IF ForeignKeys THEN SessionsOf(p, tx[p].user)
                                  ELSE {}]
    <2>1. tx[p].kind = "delete" /\ tx[p].user \in Users
      BY <1>18, Course DEF DeleteUserRow, Writes
    <2>2. row \in TxRows
      BY <1>a DEF TxRows, Steps, SessionsOf
    <2>3. OnCourse(row)
      BY <2>1, <1>a DEF TxRows, OnCourse, StepsOf, Creators
    <2>4. [draft EXCEPT ![p].users[tx[p].user] = "deleted"] \in [Procs -> Drafts]
      BY <2>1, <1>a, DraftType DEF UserStates
    <2>5. CASE ~Rollback(p)
      <3>1. tx' = [tx EXCEPT ![p] = row]
        BY <1>18, <2>5 DEF DeleteUserRow
      <3>2. draft' \in [Procs -> Drafts]
        BY <1>18, <2>4, <2>5 DEF DeleteUserRow
      <3> QED
        BY <2>2, <2>3, <3>1, <3>2, <1>d
    <2> QED
      BY <2>5, <1>b
  <1>19. CASE EndCascade(p)
    <2>1. tx[p].kind = "delete" /\ tx[p].user \in Users
      BY <1>19, Course DEF EndCascade, Writes
    <2>2. "pick" \in Steps /\ OnTo("pick")
      BY <2>1, <1>a DEF TxRows, Steps, OnCourse, StepsOf, Creators
    <2> QED
      BY <1>19, <2>1, <2>2, <1>a, <1>c, <1>e DEF EndCascade
  <1> QED
    BY <1>1, <1>2, <1>3, <1>4, <1>5, <1>6, <1>7, <1>8, <1>9, <1>10, <1>11, <1>12,
       <1>13, <1>14, <1>15, <1>16, <1>17, <1>18, <1>19 DEF Step

LEMMA StepIInv == IInv /\ [Next]_vars => IInv'
  <1> SUFFICES ASSUME IInv, [Next]_vars PROVE IInv'
    OBVIOUS
  <1>1. CASE UNCHANGED vars
    BY <1>1 DEF IInv, TypeOK, vars
  <1>2. ASSUME NEW p \in Procs, Begin(p) \/ Advance(p) \/ Fail(p)
        PROVE  IInv'
    BY <1>2, BeginStep, StatementStep, CommitStep, AbortsStep
       DEF Advance, Fail, Busy, DeadlockVictim
  <1> QED
    BY <1>1, <1>2 DEF Next

\* The rows, the drafts and the requests under way always have the shapes that
\* the schema and the services give them, under either database.
THEOREM AccountsTypeCorrect == Spec => []TypeOK
  <1>1. Init => IInv
    BY InitTypeOK DEF IInv, Init, Idle, OnCourse, StepsOf, Creators
  <1>2. IInv => TypeOK
    BY DEF IInv
  <1> QED
    BY <1>1, <1>2, StepIInv, PTL DEF Spec

-----------------------------------------------------------------------------
\* What a request was given and keeps: a request for one account names no other,
\* and of a batch of deletions the account at hand is no longer to do.
Given(r) ==
    /\ r.kind \notin {"register", "registerLogin", "change", "reset"} => r.next = None
    /\ r.kind \notin {"login", "issue", "registerLogin"} => r.sid = None
    /\ r.kind \in Creators \cup {"login", "issue", "auth", "change", "reset",
                                "markLogin"} => r.ids = {r.user}
    /\ r.todo \subseteq r.ids
    /\ r.kind = "delete" /\ r.pc \in {"sweep", "wipeCred", "wipeUser", "cascade"}
         => r.user \in r.ids \ r.todo
    /\ r.kind = "delete" /\ r.pc = "commit" => r.todo = {}

\* What a request may have written into the rows of each table.
UserDraft(r, d) ==
    \A u \in Users : d.users[u] # None =>
        /\ u \in r.ids
        /\ \/ r.kind \in Creators /\ d.users[u] \in {"active", "disabled"}
           \/ /\ Exists(users[u])
              /\ \/ r.kind \in {"login", "issue", "markLogin"} /\ d.users[u] = users[u]
                 \/ r.kind = "enable" /\ d.users[u] = "active"
                 \/ r.kind = "disable" /\ d.users[u] = "disabled"
                 \/ r.kind = "delete" /\ d.users[u] = "deleted"

CredDraft(r, d) ==
    \A u \in Users : d.creds[u] # None =>
        /\ u \in r.ids
        /\ d.creds[u].pw \in {creds[u].pw, r.next}

Started(s) == sessions[s].state \in {"live", "revoked"}

SessionDraft(r, d) ==
    \A s \in Sessions : d.sessions[s] # None =>
        \/ /\ r.kind \in {"login", "issue", "registerLogin"} /\ s = r.sid
           /\ d.sessions[s].state = "live" /\ d.sessions[s].user = r.user
        \/ /\ r.kind = "delete" /\ Started(s)
           /\ d.sessions[s] = DeletedSession
        \/ /\ r.kind \in {"change", "reset", "disable", "revoke"} /\ Started(s)
           /\ d.sessions[s].state = "revoked"
           /\ d.sessions[s].user = sessions[s].user

\* The accounts whose rows a deletion has deleted so far.
Gone(r) == CASE r.kind # "delete" \/ r.pc = "find" -> {}
             [] r.kind = "delete" /\ r.pc \in {"sweep", "wipeCred", "wipeUser"} ->
                  (r.ids \ r.todo) \ {r.user}
             [] OTHER -> r.ids \ r.todo

Batch(r, d) ==
    /\ r.kind \in {"enable", "disable"} /\ r.pc # "setState" =>
          \A u \in r.ids : d.users[u] # None
    /\ \A u \in Gone(r) : d.users[u] = "deleted"

\* The draft holds a new row that references u: KeySharers.
References(d, u) ==
    \/ \E s \in Sessions : /\ d.sessions[s] # None
                           /\ d.sessions[s].user = u
                           /\ sessions[s].state = "unused"
    \/ d.creds[u] # None /\ d.creds[u].pw # None /\ creds[u].pw = None

Cascading(r, u) == r.pc = "cascade" /\ r.user = u

\* A new row references a user that is there, and what references a deleted user is
\* deleted with it, at the latest when the cascade has ended.
Keys(r, d) ==
    \A u \in Users :
       /\ References(d, u) => Exists(Committed(users[u], d.users[u]))
       /\ d.users[u] = "deleted" =>
             /\ Committed(creds[u], d.creds[u]).pw = None \/ Cascading(r, u)
             /\ \A s \in Sessions : sessions[s].user = u =>
                   \/ Committed(sessions[s], d.sessions[s]) = DeletedSession
                   \/ Cascading(r, u) /\ s \in r.rows

Fresh(r, d) == r.pc = "idle" => d = Blank

Local(r, d) ==
    /\ Given(r) /\ Fresh(r, d)
    /\ UserDraft(r, d) /\ CredDraft(r, d) /\ SessionDraft(r, d)
    /\ Batch(r, d)
    /\ ForeignKeys => Keys(r, d)

\* The IDs a request reserved are not in the tables yet.
Claims(r) ==
    /\ r.sid # None => sessions[r.sid] = UnusedSession
    /\ r.kind \in Creators => users[r.user] = "unborn"

\* Two requests reserve different IDs and write different rows, and neither deletes
\* a user that the other references.
Disjoint(d, e) ==
    /\ \A u \in Users : d.users[u] # None => e.users[u] = None
    /\ \A u \in Users : d.creds[u] # None => e.creds[u] = None
    /\ \A s \in Sessions : d.sessions[s] # None => e.sessions[s] = None
    /\ ForeignKeys =>
         \A u \in Users : /\ References(d, u) => e.users[u] # "deleted"
                          /\ References(e, u) => d.users[u] # "deleted"

Apart(r, q) ==
    /\ r.sid # None => r.sid # q.sid
    /\ r.kind \in Creators /\ q.kind \in Creators => r.user # q.user

RowForm ==
    \A s \in Sessions : IF Started(s) THEN sessions[s].user \in Users
                        ELSE sessions[s].user = None

\* The inductive invariant about locks.
Lock ==
    /\ IInv
    /\ \A p \in Procs : Local(tx[p], draft[p]) /\ Claims(tx[p])
    /\ \A p, q \in Procs : p # q => Apart(tx[p], tx[q]) /\ Disjoint(draft[p], draft[q])
    /\ RowForm
    /\ ForeignKeys => NoOrphans

LEMMA NoneFacts ==
  /\ None \notin Users /\ None \notin Sessions /\ None \notin Passwords
  /\ None \notin UserStates /\ None \notin CredRows /\ None \notin SessionRows
  BY NoneIsNoValue

LEMMA Shapes ==
  ASSUME IInv
  PROVE  /\ users \in [Users -> UserStates] /\ creds \in [Users -> CredRows]
         /\ sessions \in [Sessions -> SessionRows]
         /\ tx \in [Procs -> TxRows] /\ draft \in [Procs -> Drafts]
         /\ \A p \in Procs : tx[p] \in TxRows /\ draft[p] \in Drafts /\ OnCourse(tx[p])
  BY DEF IInv, TypeOK

LEMMA BlankRow ==
  /\ Blank \in Drafts
  /\ \A u \in Users : Blank.users[u] = None /\ Blank.creds[u] = None
  /\ \A s \in Sessions : Blank.sessions[s] = None
  /\ \A u \in Users : ~References(Blank, u)
  /\ \A d \in Drafts : Disjoint(d, Blank) /\ Disjoint(Blank, d)
<1>1. /\ Blank \in Drafts
      /\ \A u \in Users : Blank.users[u] = None /\ Blank.creds[u] = None
      /\ \A s \in Sessions : Blank.sessions[s] = None
  BY DEF Blank, Drafts
<1>2. \A u \in Users : ~References(Blank, u)
  BY <1>1 DEF References
<1>3. "deleted" # None
  BY NoneFacts DEF UserStates
<1> HIDE DEF Blank
<1> QED
  BY <1>1, <1>2, <1>3 DEF Disjoint

\* What is said of the requests and their drafts refers to the tables only.
LEMMA SameTables ==
  ASSUME UNCHANGED <<users, creds, sessions>>
  PROVE  /\ \A q \in Procs : Local(tx'[q], draft'[q]) => Local(tx[q], draft[q])'
         /\ \A q \in Procs : Claims(tx'[q]) => Claims(tx[q])'
         /\ \A q, o \in Procs : Apart(tx'[q], tx'[o]) => Apart(tx[q], tx[o])'
         /\ \A q, o \in Procs :
              Disjoint(draft'[q], draft'[o]) => Disjoint(draft[q], draft[o])'
<1>1. ASSUME NEW q \in Procs
      PROVE  /\ Given(tx'[q]) <=> Given(tx[q])'
             /\ Fresh(tx'[q], draft'[q]) <=> Fresh(tx[q], draft[q])'
             /\ Batch(tx'[q], draft'[q]) <=> Batch(tx[q], draft[q])'
             /\ UserDraft(tx'[q], draft'[q]) <=> UserDraft(tx[q], draft[q])'
             /\ CredDraft(tx'[q], draft'[q]) <=> CredDraft(tx[q], draft[q])'
             /\ SessionDraft(tx'[q], draft'[q]) <=> SessionDraft(tx[q], draft[q])'
             /\ Claims(tx'[q]) <=> Claims(tx[q])'
  BY DEF Given, Fresh, UserDraft, CredDraft, SessionDraft, Batch, Started, Gone, Claims
<1>2. \A q \in Procs : \A u : References(draft'[q], u) <=> References(draft[q], u)'
  BY DEF References
<1>3. \A q \in Procs : Keys(tx'[q], draft'[q]) => Keys(tx[q], draft[q])'
  BY <1>2 DEF Keys, Cascading
<1>4. \A q \in Procs : Local(tx'[q], draft'[q]) => Local(tx[q], draft[q])'
  BY <1>1, <1>3 DEF Local
<1>5. \A q, o \in Procs : Apart(tx'[q], tx'[o]) => Apart(tx[q], tx[o])'
  BY DEF Apart
<1>6. \A q, o \in Procs :
        Disjoint(draft'[q], draft'[o]) => Disjoint(draft[q], draft[o])'
  BY <1>2 DEF Disjoint
<1> QED
  BY <1>1, <1>4, <1>5, <1>6

\* A statement of p leaves the tables alone and what the others have in hand.
LEMMA StatementKeeps ==
  ASSUME Lock, NEW p \in Procs, NEW r, NEW d, UNCHANGED <<users, creds, sessions>>,
         IInv', tx' = [tx EXCEPT ![p] = r], draft' = [draft EXCEPT ![p] = d],
         r.kind = tx[p].kind, r.sid = tx[p].sid,
         r.kind \in Creators => r.user = tx[p].user,
         Local(r, d),
         \A q \in Procs \ {p} : Disjoint(d, draft[q]) /\ Disjoint(draft[q], d)
  PROVE  Lock'
<1>1. /\ tx'[p] = r /\ draft'[p] = d
      /\ \A q \in Procs \ {p} : tx'[q] = tx[q] /\ draft'[q] = draft[q]
  BY Shapes DEF Lock
<1>2. /\ \A q \in Procs : Claims(tx'[q])
      /\ \A q, o \in Procs : q # o => Apart(tx'[q], tx'[o])
  BY <1>1 DEF Lock, Claims, Apart
<1>3. \A q \in Procs : Local(tx'[q], draft'[q])
  BY <1>1 DEF Lock
<1>4. \A q, o \in Procs : q # o => Disjoint(draft'[q], draft'[o])
  BY <1>1 DEF Lock
<1>5. /\ \A q \in Procs : Local(tx[q], draft[q])'
      /\ \A q \in Procs : Claims(tx[q])'
  BY <1>2, <1>3, SameTables
<1>6. \A q, o \in Procs : q # o => Apart(tx[q], tx[o])' /\ Disjoint(draft[q], draft[o])'
  BY <1>2, <1>4, SameTables
<1>7. RowForm' /\ (ForeignKeys => NoOrphans')
  BY DEF Lock, RowForm, Started, NoOrphans
<1> QED
  BY <1>5, <1>6, <1>7 DEF Lock

LEMMA DraftWith ==
  ASSUME NEW d \in Drafts
  PROVE  /\ \A u, x : LET e == [d EXCEPT !.users[u] = x]
                      IN  e.users = [d.users EXCEPT ![u] = x]
                          /\ e.creds = d.creds /\ e.sessions = d.sessions
         /\ \A u, x : LET e == [d EXCEPT !.creds[u] = x]
                      IN  e.creds = [d.creds EXCEPT ![u] = x]
                          /\ e.users = d.users /\ e.sessions = d.sessions
         /\ \A s, x : LET e == [d EXCEPT !.sessions[s] = x]
                      IN  e.sessions = [d.sessions EXCEPT ![s] = x]
                          /\ e.users = d.users /\ e.creds = d.creds
         /\ d.users \in [Users -> UserStates \cup {None}]
         /\ d.creds \in [Users -> CredRows \cup {None}]
         /\ d.sessions \in [Sessions -> SessionRows \cup {None}]
  BY DEF Drafts

\* A statement that writes one row keeps the drafts apart when no other transaction
\* holds that row, and none holds what it would break.
LEMMA WriteUser ==
  ASSUME Lock, NEW p \in Procs, NEW u \in Users, NEW x \in UserStates,
         NEW d, d = [draft[p] EXCEPT !.users[u] = x],
         UserHolders(p, u) = {},
         ForeignKeys /\ x = "deleted" => KeySharers(p, u) = {}
  PROVE  \A q \in Procs \ {p} : Disjoint(d, draft[q]) /\ Disjoint(draft[q], d)
<1> SUFFICES ASSUME NEW q \in Procs \ {p}
             PROVE  Disjoint(d, draft[q]) /\ Disjoint(draft[q], d)
  OBVIOUS
<1>1. /\ draft[p] \in Drafts /\ draft[q] \in Drafts
      /\ Disjoint(draft[p], draft[q]) /\ Disjoint(draft[q], draft[p])
  BY Shapes DEF Lock
<1>2. /\ d.users = [draft[p].users EXCEPT ![u] = x]
      /\ d.creds = draft[p].creds /\ d.sessions = draft[p].sessions
      /\ draft[p].users \in [Users -> UserStates \cup {None}]
  BY <1>1, DraftWith
<1>3. draft[q].users[u] = None
  BY DEF UserHolders
<1>4. ForeignKeys /\ x = "deleted" => ~References(draft[q], u)
  BY DEF KeySharers, References
<1>5. \A v \in Users : References(d, v) <=> References(draft[p], v)
  BY <1>2 DEF References
<1>6. "deleted" # None
  BY NoneFacts DEF UserStates
<1> QED
  BY <1>1, <1>2, <1>3, <1>4, <1>5, <1>6 DEF Disjoint

LEMMA WriteCred ==
  ASSUME Lock, NEW p \in Procs, NEW u \in Users, NEW x \in CredRows,
         NEW d, d = [draft[p] EXCEPT !.creds[u] = x],
         CredHolders(p, u) = {},
         \/ ~ForeignKeys \/ x.pw = None \/ creds[u].pw # None
         \/ References(draft[p], u) \/ UserDeleters(p, u) = {}
  PROVE  \A q \in Procs \ {p} : Disjoint(d, draft[q]) /\ Disjoint(draft[q], d)
<1> SUFFICES ASSUME NEW q \in Procs \ {p}
             PROVE  Disjoint(d, draft[q]) /\ Disjoint(draft[q], d)
  OBVIOUS
<1>1. /\ draft[p] \in Drafts /\ draft[q] \in Drafts
      /\ Disjoint(draft[p], draft[q]) /\ Disjoint(draft[q], draft[p])
  BY Shapes DEF Lock
<1>2. /\ d.creds = [draft[p].creds EXCEPT ![u] = x]
      /\ d.users = draft[p].users /\ d.sessions = draft[p].sessions
      /\ draft[p].creds \in [Users -> CredRows \cup {None}]
  BY <1>1, DraftWith
<1>3. draft[q].creds[u] = None
  BY DEF CredHolders
<1>4. UserDeleters(p, u) = {} => draft[q].users[u] # "deleted"
  BY DEF UserDeleters
<1>5. \A v \in Users : References(d, v) =>
        \/ References(draft[p], v)
        \/ v = u /\ x.pw # None /\ creds[u].pw = None
  BY <1>2 DEF References
<1> QED
  BY <1>1, <1>2, <1>3, <1>4, <1>5 DEF Disjoint

LEMMA WriteSession ==
  ASSUME Lock, NEW p \in Procs, NEW s \in Sessions, NEW x \in SessionRows,
         NEW d, d = [draft[p] EXCEPT !.sessions[s] = x],
         SessionHolders(p, s) = {},
         \/ ~ForeignKeys \/ sessions[s].state # "unused"
         \/ x.user \in Users /\ UserDeleters(p, x.user) = {}
  PROVE  \A q \in Procs \ {p} : Disjoint(d, draft[q]) /\ Disjoint(draft[q], d)
<1> SUFFICES ASSUME NEW q \in Procs \ {p}
             PROVE  Disjoint(d, draft[q]) /\ Disjoint(draft[q], d)
  OBVIOUS
<1>1. /\ draft[p] \in Drafts /\ draft[q] \in Drafts
      /\ Disjoint(draft[p], draft[q]) /\ Disjoint(draft[q], draft[p])
  BY Shapes DEF Lock
<1>2. /\ d.sessions = [draft[p].sessions EXCEPT ![s] = x]
      /\ d.users = draft[p].users /\ d.creds = draft[p].creds
      /\ draft[p].sessions \in [Sessions -> SessionRows \cup {None}]
  BY <1>1, DraftWith
<1>3. draft[q].sessions[s] = None
  BY DEF SessionHolders
<1>4. \A u \in Users : UserDeleters(p, u) = {} => draft[q].users[u] # "deleted"
  BY DEF UserDeleters
<1>5. \A v \in Users : References(d, v) =>
        \/ References(draft[p], v)
        \/ v = x.user /\ sessions[s].state = "unused"
  BY <1>2 DEF References
<1> QED
  BY <1>1, <1>2, <1>3, <1>4, <1>5 DEF Disjoint

\* A goroutine that begins or ends a request has an empty draft.
LEMMA EmptyDraft ==
  ASSUME NEW r, Given(r), r.kind \notin {"enable", "disable"} \/ r.pc = "setState",
         r.kind = "delete" => r.pc = "find"
  PROVE  Local(r, Blank)
<1>1. Fresh(r, Blank) /\ UserDraft(r, Blank) /\ CredDraft(r, Blank)
      /\ SessionDraft(r, Blank)
  BY BlankRow DEF Fresh, UserDraft, CredDraft, SessionDraft
<1>2. Gone(r) = {}
  BY DEF Gone
<1>3. Batch(r, Blank)
  BY <1>2 DEF Batch
<1>4. Keys(r, Blank)
  BY BlankRow, NoneFacts DEF Keys, UserStates
<1> QED
  BY <1>1, <1>3, <1>4 DEF Local

LEMMA EndKeeps ==
  ASSUME Lock, NEW p \in Procs, Rollback(p), UNCHANGED <<users, creds, sessions>>, IInv'
  PROVE  Lock'
<1>1. /\ tx'[p] = Idle /\ draft'[p] = Blank
      /\ \A q \in Procs \ {p} : tx'[q] = tx[q] /\ draft'[q] = draft[q]
      /\ UNCHANGED <<users, creds, sessions>>
  BY Shapes DEF Lock, Rollback
<1>2. /\ Given(Idle) /\ Local(Idle, Blank) /\ Claims(Idle)
      /\ \A q \in Procs : Apart(Idle, tx[q]) /\ Apart(tx[q], Idle)
      /\ \A q \in Procs : Disjoint(draft[q], Blank) /\ Disjoint(Blank, draft[q])
  <2>1. Given(Idle)
    BY DEF Given, Idle, Creators
  <2>2. Claims(Idle) /\ \A q \in Procs : Apart(Idle, tx[q]) /\ Apart(tx[q], Idle)
    BY DEF Claims, Apart, Idle, Creators
  <2>3. Local(Idle, Blank)
    BY <2>1, EmptyDraft DEF Idle
  <2>4. \A q \in Procs : Disjoint(draft[q], Blank) /\ Disjoint(Blank, draft[q])
    BY Shapes, BlankRow DEF Lock
  <2> QED
    BY <2>1, <2>2, <2>3, <2>4
<1> HIDE DEF Idle, Blank
<1>3. /\ \A q \in Procs : Local(tx'[q], draft'[q]) /\ Claims(tx'[q])
      /\ \A q, o \in Procs : q # o =>
           Apart(tx'[q], tx'[o]) /\ Disjoint(draft'[q], draft'[o])
  BY <1>1, <1>2 DEF Lock
<1>4. /\ \A q \in Procs : Local(tx[q], draft[q])' /\ Claims(tx[q])'
      /\ \A q, o \in Procs : q # o =>
           Apart(tx[q], tx[o])' /\ Disjoint(draft[q], draft[o])'
  BY <1>1, <1>3, SameTables
<1>5. RowForm' /\ (ForeignKeys => NoOrphans')
  BY <1>1 DEF Lock, RowForm, Started, NoOrphans
<1> QED
  BY <1>4, <1>5 DEF Lock

LEMMA OpenKeeps ==
  ASSUME Lock, IInv', NEW p \in Procs, NEW r, Open(p, r), Given(r),
         r.kind \in {"enable", "disable"} => r.pc = "setState",
         r.kind = "delete" => r.pc = "find",
         r.sid # None => r.sid \in UnclaimedSessions,
         r.kind \in Creators => r.user \in UnclaimedUsers
  PROVE  Lock'
<1>1. /\ tx'[p] = r /\ \A q \in Procs \ {p} : tx'[q] = tx[q]
      /\ UNCHANGED <<users, creds, sessions, draft>>
  BY Shapes DEF Lock, Open
<1>2. draft[p] = Blank
  BY DEF Lock, Local, Fresh, Open
<1>3. Local(r, draft[p])
  BY <1>2, EmptyDraft
<1>4. Claims(r) /\ \A q \in Procs : Apart(r, tx[q]) /\ Apart(tx[q], r)
  BY DEF Claims, Apart, UnclaimedSessions, UnclaimedUsers
<1>5. /\ \A q \in Procs : Local(tx'[q], draft[q]) /\ Claims(tx'[q])
      /\ \A q, o \in Procs : q # o => Apart(tx'[q], tx'[o]) /\ Disjoint(draft[q], draft[o])
  BY <1>1, <1>3, <1>4 DEF Lock
<1>6. /\ \A q \in Procs : Local(tx[q], draft[q])' /\ Claims(tx[q])'
      /\ \A q, o \in Procs : q # o =>
           Apart(tx[q], tx[o])' /\ Disjoint(draft[q], draft[o])'
  BY <1>1, <1>5, SameTables
<1>7. RowForm' /\ (ForeignKeys => NoOrphans')
  BY <1>1 DEF Lock, RowForm, Started, NoOrphans
<1> QED
  BY <1>6, <1>7 DEF Lock

LEMMA BeginKeeps ==
  ASSUME Lock, IInv', NEW p \in Procs, Begin(p)
  PROVE  Lock'
<1> USE OpenKeeps DEF Idle, Given, Creators
<1>1. CASE Login(p)
  BY <1>1 DEF Login
<1>2. CASE IssueSession(p)
  BY <1>2 DEF IssueSession
<1>3. CASE Authenticate(p)
  BY <1>3 DEF Authenticate
<1>4. CASE CreateAccount(p)
  BY <1>4 DEF CreateAccount
<1>5. CASE Register(p)
  BY <1>5 DEF Register
<1>6. CASE RegisterAndLogin(p)
  BY <1>6 DEF RegisterAndLogin
<1>7. CASE ChangePassword(p)
  BY <1>7 DEF ChangePassword
<1>8. CASE ResetPassword(p)
  BY <1>8 DEF ResetPassword
<1>9. CASE SetState(p)
  <2>1. PICK ids \in (SUBSET Users) \ {{}}, kind \in {"enable", "disable"} :
          Open(p, [Idle EXCEPT !.kind = kind, !.pc = "setState", !.ids = ids,
                               !.todo = ids])
    BY <1>9 DEF SetState
  <2> QED
    BY <2>1
<1>10. CASE RevokeForUsers(p)
  BY <1>10 DEF RevokeForUsers
<1>11. CASE DeleteUsers(p)
  BY <1>11 DEF DeleteUsers
<1>12. CASE MarkLogin(p)
  BY <1>12 DEF MarkLogin
<1> QED
  BY <1>1, <1>2, <1>3, <1>4, <1>5, <1>6, <1>7, <1>8, <1>9, <1>10, <1>11, <1>12 DEF Begin

\* The drafts of the others are still about the rows as they are after a commit.
LEMMA CommitLocal ==
  ASSUME Lock, NEW p \in Procs, NEW q \in Procs \ {p}, Commit(p)
  PROVE  Local(tx[q], draft[q])' /\ Claims(tx[q])'
<1> DEFINE r == tx[q]
           d == draft[q]
           e == draft[p]
<1>0. /\ users \in [Users -> UserStates] /\ creds \in [Users -> CredRows]
      /\ sessions \in [Sessions -> SessionRows]
      /\ e \in Drafts /\ d \in Drafts
      /\ OnCourse(r) /\ OnCourse(tx[p])
  BY Shapes DEF Lock
<1>1. /\ r' = r /\ d' = d
      /\ \A u \in Users : users'[u] = Committed(users[u], e.users[u])
      /\ \A u \in Users : creds'[u] = Committed(creds[u], e.creds[u])
      /\ \A s \in Sessions : sessions'[s] = Committed(sessions[s], e.sessions[s])
  BY Shapes DEF Lock, Commit
<1>2. /\ Local(r, d) /\ Local(tx[p], e) /\ Claims(r) /\ Claims(tx[p])
      /\ Apart(tx[p], r) /\ Disjoint(d, e)
  BY DEF Lock
<1> HIDE DEF r, d, e
<1>3. UserDraft(r, d)'
  BY <1>1, <1>2 DEF Local, UserDraft, Disjoint, Committed
<1>4. CredDraft(r, d)'
  BY <1>1, <1>2 DEF Local, CredDraft, Disjoint, Committed
<1>5. SessionDraft(r, d)'
  BY <1>1, <1>2 DEF Local, SessionDraft, Disjoint, Committed, Started
<1>6. Given(r)' /\ Fresh(r, d)' /\ Batch(r, d)'
  BY <1>1, <1>2 DEF Local, Given, Fresh, Batch, Gone
<1>7. \A s \in Sessions : e.sessions[s] # None =>
        /\ e.sessions[s].state # "unused"
        /\ \/ sessions[s] = UnusedSession /\ s = tx[p].sid /\ tx[p].sid # None
           \/ Started(s) /\ e.sessions[s] = DeletedSession
           \/ Started(s) /\ e.sessions[s].user = sessions[s].user
  <2>1. DeletedSession.state = "deleted"
    BY DEF DeletedSession
  <2>2. tx[p].kind \in {"login", "issue", "registerLogin"} => tx[p].sid # None
    BY <1>0, NoneFacts DEF OnCourse
  <2> QED
    BY <1>2, <2>1, <2>2 DEF Local, SessionDraft, Claims
<1>8. \A u \in Users : e.users[u] # None =>
        \/ u = tx[p].user /\ tx[p].kind \in Creators /\ Exists(e.users[u])
        \/ Exists(users[u]) /\ (Exists(e.users[u]) \/ e.users[u] = "deleted")
  BY <1>2 DEF Local, UserDraft, Given, Exists
<1>9. Claims(r)'
  <2>1. r.sid # None => r.sid \in Sessions
    BY <1>0, <1>2 DEF OnCourse, Local, Given
  <2>2. r.kind \in Creators => r.user \in Users
    BY <1>0 DEF OnCourse
  <2>3. ~Exists("unborn") /\ UnusedSession.state = "unused"
    BY DEF Exists, UnusedSession
  <2>4. ASSUME r.sid # None
        PROVE  sessions'[r.sid] = UnusedSession
    BY <1>1, <1>2, <1>7, <2>1, <2>3, <2>4 DEF Claims, Apart, Started, Committed
  <2>5. ASSUME r.kind \in Creators
        PROVE  users'[r.user] = "unborn"
    BY <1>1, <1>2, <1>8, <2>2, <2>3, <2>5 DEF Claims, Apart, Committed
  <2> QED
    BY <1>1, <2>4, <2>5 DEF Claims
<1>10. ASSUME ForeignKeys
       PROVE  Keys(r, d)'
  <2>1. Keys(r, d) /\ "deleted" # None
    BY <1>2, <1>10, NoneFacts DEF Local, UserStates
  <2>2. ASSUME NEW u \in Users, References(d, u)'
        PROVE  References(d, u)
    BY <1>1, <1>2, <1>7, <2>2 DEF References, Disjoint, Committed
  <2>3. ASSUME NEW u \in Users, References(d, u)'
        PROVE  Exists(Committed(users'[u], d.users[u]))
    <3>1. Exists(Committed(users[u], d.users[u])) /\ e.users[u] # "deleted"
      BY <1>2, <1>10, <2>1, <2>2, <2>3 DEF Keys, Disjoint
    <3> QED
      BY <1>1, <1>8, <3>1 DEF Committed
  <2>4. ASSUME NEW u \in Users, d.users[u] = "deleted", ~Cascading(r, u)
        PROVE  Committed(creds'[u], d.creds[u]).pw = None
    <3>1. ~References(e, u) /\ Committed(creds[u], d.creds[u]).pw = None
      BY <1>2, <1>10, <2>1, <2>4 DEF Keys, Disjoint
    <3> QED
      BY <1>1, <1>2, <3>1 DEF References, Committed, Disjoint
  <2>5. ASSUME NEW u \in Users, d.users[u] = "deleted", NEW s \in Sessions,
               sessions'[s].user = u,
               ~(Cascading(r, u) /\ s \in r.rows)
        PROVE  Committed(sessions'[s], d.sessions[s]) = DeletedSession
    <3>1. ~References(e, u)
      BY <1>2, <1>10, <2>5 DEF Disjoint
    <3>2. sessions[s].user = u =>
            Committed(sessions[s], d.sessions[s]) = DeletedSession
      BY <2>1, <2>5 DEF Keys
    <3>3. CASE e.sessions[s] = None
      BY <1>1, <2>5, <3>2, <3>3 DEF Committed
    <3>4. CASE e.sessions[s] # None
      <4>1. e.sessions[s].user = u /\ d.sessions[s] = None
        BY <1>1, <1>2, <2>5, <3>4 DEF Committed, Disjoint
      <4>2. sessions[s].state # "unused"
        BY <3>1, <3>4, <4>1 DEF References
      <4>3. Started(s) /\ (e.sessions[s] = DeletedSession \/ sessions[s].user = u)
        BY <1>7, <3>4, <4>1, <4>2 DEF UnusedSession
      <4>4. DeletedSession.user = None /\ DeletedSession.state = "deleted"
        BY DEF DeletedSession
      <4>5. sessions[s].user = u
        BY <4>1, <4>3, <4>4, NoneFacts
      <4>6. sessions[s] = DeletedSession
        BY <3>2, <4>1, <4>5 DEF Committed
      <4> QED
        BY <4>3, <4>4, <4>6 DEF Started
    <3> QED
      BY <3>3, <3>4
  <2> QED
    BY <1>1, <2>3, <2>4, <2>5 DEF Keys, Cascading
<1> QED
  BY <1>3, <1>4, <1>5, <1>6, <1>9, <1>10 DEF Local, r, d

LEMMA CommitKeeps ==
  ASSUME Lock, NEW p \in Procs, Commit(p), IInv'
  PROVE  Lock'
<1> DEFINE e == draft[p]
<1>1. /\ tx'[p] = Idle /\ draft'[p] = Blank
      /\ \A q \in Procs \ {p} : tx'[q] = tx[q] /\ draft'[q] = draft[q]
      /\ \A u \in Users : users'[u] = Committed(users[u], e.users[u])
      /\ \A u \in Users : creds'[u] = Committed(creds[u], e.creds[u])
      /\ \A s \in Sessions : sessions'[s] = Committed(sessions[s], e.sessions[s])
  BY Shapes DEF Lock, Commit
<1>2. /\ Local(tx[p], e) /\ Claims(tx[p]) /\ tx[p].pc = "commit"
      /\ e \in Drafts /\ OnCourse(tx[p])
  BY Shapes DEF Lock, Commit
<1>3. \A q \in Procs : Local(tx[q], draft[q])' /\ Claims(tx[q])'
  <2>1. Local(tx[p], draft[p])' /\ Claims(tx[p])'
    <3>1. Given(Idle)' /\ Claims(Idle)'
      BY DEF Given, Claims, Idle, Creators
    <3>2. /\ \A u \in Users : Blank.users[u] = None /\ Blank.creds[u] = None
          /\ \A s \in Sessions : Blank.sessions[s] = None
          /\ "deleted" # None /\ Idle.pc = "idle" /\ Idle.kind = "idle"
      BY BlankRow, NoneFacts DEF UserStates, Idle
    <3> HIDE DEF Idle, Blank
    <3>3. Local(Idle, Blank)'
      BY <3>1, <3>2 DEF Local, Fresh, UserDraft, CredDraft, SessionDraft, Batch, Gone,
           Keys, References
    <3> QED
      BY <1>1, <3>1, <3>3
  <2> QED
    BY <2>1, CommitLocal
<1>4. \A s \in Sessions : e.sessions[s] # None => e.sessions[s].state # "unused"
  <2>1. DeletedSession.state = "deleted"
    BY DEF DeletedSession
  <2> QED
    BY <1>2, <2>1 DEF Local, SessionDraft
<1>5. \A q, o \in Procs : q # o => Apart(tx[q], tx[o])' /\ Disjoint(draft[q], draft[o])'
  <2>1. \A q \in Procs : /\ Apart(Idle, tx[q]) /\ Apart(tx[q], Idle)
                         /\ Disjoint(draft[q], Blank) /\ Disjoint(Blank, draft[q])
    BY Shapes, BlankRow DEF Lock, Apart, Idle, Creators
  <2>2. /\ \A u \in Users : ~References(Blank, u)'
        /\ \A u \in Users : Blank.users[u] # "deleted" /\ Blank.creds[u] = None
        /\ \A s \in Sessions : Blank.sessions[s] = None
    BY BlankRow, NoneFacts DEF UserStates, References
  <2>3. ASSUME NEW q \in Procs, q # p, NEW u \in Users, References(draft[q], u)'
        PROVE  References(draft[q], u)
    BY <1>1, <1>4, <2>3 DEF Lock, Disjoint, References, Committed
  <2>4. ASSUME NEW q \in Procs, NEW o \in Procs, q # o
        PROVE  Apart(tx[q], tx[o])'
    BY <1>1, <2>1, <2>4 DEF Lock, Apart
  <2>5. ASSUME NEW q \in Procs, NEW o \in Procs, q # o
        PROVE  Disjoint(draft[q], draft[o])'
    <3>1. CASE q # p /\ o # p
      <4>1. Disjoint(draft[q], draft[o])
        BY <2>5 DEF Lock
      <4>2. draft'[q] = draft[q] /\ draft'[o] = draft[o]
        BY <1>1, <3>1
      <4> QED
        BY <2>3, <3>1, <4>1, <4>2 DEF Disjoint
    <3>2. CASE q = p \/ o = p
      <4> HIDE DEF Blank
      <4> QED
        BY <1>1, <2>1, <2>2, <2>5, <3>2 DEF Disjoint, References
    <3> QED
      BY <3>1, <3>2
  <2> QED
    BY <2>4, <2>5
<1>6. RowForm'
  <2>1. DeletedSession.state = "deleted" /\ DeletedSession.user = None
    BY DEF DeletedSession
  <2>2. tx[p].kind \in {"login", "issue", "registerLogin"} => tx[p].user \in Users
    BY <1>2 DEF OnCourse, Creators
  <2> QED
    BY <1>1, <1>2, <2>1, <2>2
       DEF Lock, RowForm, Started, Local, SessionDraft, Committed
<1>7. ASSUME ForeignKeys
      PROVE  NoOrphans'
  <2>0. /\ NoOrphans /\ Keys(tx[p], e) /\ UserDraft(tx[p], e) /\ SessionDraft(tx[p], e)
        /\ CredDraft(tx[p], e) /\ RowForm /\ \A u \in Users : ~Cascading(tx[p], u)
        /\ \A u \in Users : e.users[u] # None =>
             Exists(e.users[u]) \/ e.users[u] = "deleted"
    BY <1>2, <1>7 DEF Lock, Local, Cascading, UserDraft, Exists
  <2>1. ASSUME NEW s \in Sessions, sessions'[s].state \in {"live", "revoked"}
        PROVE  Exists(users'[sessions'[s].user])
    <3> DEFINE u == sessions'[s].user
    <3>1. u \in Users
      BY <1>6, <2>1 DEF RowForm, Started
    <3>2. DeletedSession.state = "deleted"
      BY DEF DeletedSession
    <3>3. CASE e.sessions[s] # None /\ sessions[s].state = "unused"
      <4>1. References(e, u)
        BY <1>1, <3>1, <3>3 DEF References, Committed
      <4> QED
        BY <1>1, <2>0, <3>1, <4>1 DEF Keys
    <3>4. CASE ~(e.sessions[s] # None /\ sessions[s].state = "unused")
      <4>1. Started(s) /\ sessions[s].user = u
        <5>1. e.sessions[s] = None => Started(s) /\ sessions[s].user = u
          BY <1>1, <2>1 DEF Started, Committed
        <5>2. UnusedSession.state = "unused"
          BY DEF UnusedSession
        <5>3. tx[p].kind \in {"login", "issue", "registerLogin"} => tx[p].sid # None
          BY <1>2, NoneFacts DEF OnCourse
        <5>4. ASSUME e.sessions[s] # None
              PROVE  Started(s) /\ sessions[s].user = u
          BY <1>1, <1>2, <2>0, <2>1, <3>2, <3>4, <5>2, <5>3, <5>4
             DEF SessionDraft, Claims, Committed
        <5> QED
          BY <5>1, <5>4
      <4>2. Exists(users[u])
        BY <2>0, <4>1 DEF NoOrphans, Started
      <4>3. e.users[u] # "deleted"
        BY <1>1, <2>0, <2>1, <3>1, <3>2, <4>1 DEF Keys
      <4> QED
        BY <1>1, <2>0, <3>1, <4>2, <4>3 DEF Committed
    <3> QED
      BY <3>3, <3>4
  <2>2. ASSUME NEW u \in Users, creds'[u].pw # None
        PROVE  Exists(users'[u])
    <3>1. CASE References(e, u)
      BY <1>1, <2>0, <3>1 DEF Keys
    <3>2. CASE ~References(e, u)
      <4>1. creds[u].pw # None
        BY <1>1, <2>2, <3>2 DEF References, Committed
      <4>2. e.users[u] # "deleted"
        BY <1>1, <2>0, <2>2 DEF Keys
      <4> QED
        BY <1>1, <2>0, <4>1, <4>2 DEF NoOrphans, Committed
    <3> QED
      BY <3>1, <3>2
  <2> QED
    BY <2>1, <2>2 DEF NoOrphans
<1> QED
  BY <1>3, <1>5, <1>6, <1>7 DEF Lock

\* The statements of a request leave alone what it was given.
SameRequest(r, q) ==
    /\ r.kind = q.kind /\ r.ids = q.ids /\ r.next = q.next /\ r.sid = q.sid
    /\ r.user = q.user /\ r.offered = q.offered /\ r.todo \subseteq q.todo

LEMMA GotoRow ==
  ASSUME NEW q \in TxRows, NEW step
  PROVE  /\ SameRequest([q EXCEPT !.pc = step], q)
         /\ [q EXCEPT !.pc = step].pc = step
  BY DEF TxRows, SameRequest

\* What a request that deletes nothing has in hand after a statement.
LEMMA StillLocal ==
  ASSUME Lock, NEW p \in Procs, tx[p].kind # "delete", tx[p].pc # "idle",
         NEW r, NEW d, SameRequest(r, tx[p]), r.pc # "idle",
         UserDraft(r, d), CredDraft(r, d), SessionDraft(r, d),
         r.kind \in {"enable", "disable"} /\ r.pc # "setState" =>
            \A u \in r.ids : d.users[u] # None,
         ForeignKeys => \A u \in Users :
            References(d, u) => Exists(Committed(users[u], d.users[u]))
  PROVE  Local(r, d)
<1>1. Given(tx[p])
  BY DEF Lock, Local
<1>2. Given(r)
  BY <1>1 DEF Given, SameRequest
<1>3. Fresh(r, d) /\ Batch(r, d)
  BY DEF Fresh, Batch, Gone, SameRequest
<1>4. \A u \in Users : d.users[u] # "deleted"
  BY NoneFacts DEF UserDraft, Exists, SameRequest, UserStates
<1>5. ForeignKeys => Keys(r, d)
  BY <1>4 DEF Keys
<1> QED
  BY <1>2, <1>3, <1>5 DEF Local

LEMMA ReadKeeps ==
  ASSUME Lock, IInv', NEW p \in Procs, tx[p].kind # "delete", tx[p].pc # "idle",
         UNCHANGED <<users, creds, sessions, draft>>,
         NEW r, tx' = [tx EXCEPT ![p] = r], SameRequest(r, tx[p]), r.pc # "idle",
         r.kind \in {"enable", "disable"} /\ r.pc # "setState" =>
            \A u \in r.ids : draft[p].users[u] # None
  PROVE  Lock'
<1> DEFINE d == draft[p]
<1>1. draft' = [draft EXCEPT ![p] = d]
  BY Shapes DEF Lock
<1>2. /\ Local(tx[p], d)
      /\ \A q \in Procs \ {p} : Disjoint(d, draft[q]) /\ Disjoint(draft[q], d)
  BY DEF Lock
<1> HIDE DEF d
<1>3. UserDraft(r, d) /\ CredDraft(r, d) /\ SessionDraft(r, d)
  BY <1>2 DEF Local, UserDraft, CredDraft, SessionDraft, SameRequest
<1>4. ForeignKeys => \A u \in Users :
         References(d, u) => Exists(Committed(users[u], d.users[u]))
  BY <1>2 DEF Local, Keys
<1>5. Local(r, d)
  BY <1>3, <1>4, StillLocal DEF d
<1> QED
  BY <1>1, <1>2, <1>5, StatementKeeps DEF SameRequest

\* A request that creates, logs in or changes one account writes rows that it found
\* in the state it means to have.
LEMMA UserWriteKeeps ==
  ASSUME Lock, IInv', NEW p \in Procs, tx[p].kind # "delete", tx[p].pc # "idle",
         UNCHANGED <<users, creds, sessions>>,
         NEW r, tx' = [tx EXCEPT ![p] = r], SameRequest(r, tx[p]), r.pc # "idle",
         NEW u \in Users, u \in tx[p].ids, NEW x \in {"active", "disabled"},
         draft' = [draft EXCEPT ![p].users[u] = x],
         UserHolders(p, u) = {},
         \/ tx[p].kind \in Creators
         \/ /\ Exists(users[u])
            /\ \/ tx[p].kind \in {"login", "issue", "markLogin"} /\ x = users[u]
               \/ tx[p].kind = "enable" /\ x = "active" /\ r.pc = "setState"
               \/ tx[p].kind = "disable" /\ x = "disabled" /\ r.pc = "setState"
  PROVE  Lock'
<1> DEFINE d == [draft[p] EXCEPT !.users[u] = x]
<1>0. draft[p] \in Drafts /\ Local(tx[p], draft[p]) /\ x \in UserStates /\ Exists(x)
  BY Shapes DEF Lock, UserStates, Exists
<1>1. /\ d.users = [draft[p].users EXCEPT ![u] = x]
      /\ d.creds = draft[p].creds /\ d.sessions = draft[p].sessions
      /\ draft[p].users \in [Users -> UserStates \cup {None}]
  BY <1>0, DraftWith
<1>2. draft' = [draft EXCEPT ![p] = d]
  OBVIOUS
<1>3. \A q \in Procs \ {p} : Disjoint(d, draft[q]) /\ Disjoint(draft[q], d)
  <2>1. x # "deleted"
    OBVIOUS
  <2>2. d = [draft[p] EXCEPT !.users[u] = x]
    OBVIOUS
  <2> HIDE DEF d
  <2> QED
    BY <1>0, <2>1, <2>2, WriteUser
<1> HIDE DEF d
<1>4. CredDraft(r, d) /\ SessionDraft(r, d)
  <2>1. CredDraft(tx[p], draft[p]) /\ SessionDraft(tx[p], draft[p])
    BY <1>0 DEF Local
  <2>2. CredDraft(r, d)
    BY <1>1, <2>1 DEF CredDraft, SameRequest
  <2>3. SessionDraft(r, d)
    BY <1>1, <2>1 DEF SessionDraft, SameRequest
  <2> QED
    BY <2>2, <2>3
<1>5. UserDraft(r, d)
  BY <1>0, <1>1 DEF Local, UserDraft, SameRequest
<1>6. ASSUME ForeignKeys, NEW v \in Users, References(d, v)
      PROVE  Exists(Committed(users[v], d.users[v]))
  <2>1. References(draft[p], v)
    BY <1>1, <1>6 DEF References
  <2>2. Exists(Committed(users[v], draft[p].users[v])) /\ x # None
    BY <1>0, <1>6, <2>1, NoneFacts DEF Local, Keys
  <2>3. CASE v = u
    BY <1>0, <1>1, <2>2, <2>3 DEF Committed
  <2>4. CASE v # u
    BY <1>1, <2>2, <2>4 DEF Committed
  <2> QED
    BY <2>3, <2>4
<1>7. r.kind \in {"enable", "disable"} => r.pc = "setState"
  BY DEF SameRequest, Creators
<1>8. Local(r, d)
  BY <1>4, <1>5, <1>6, <1>7, StillLocal
<1> QED
  BY <1>2, <1>3, <1>8, StatementKeeps DEF SameRequest

LEMMA CredWriteKeeps ==
  ASSUME Lock, IInv', NEW p \in Procs, tx[p].kind # "delete", tx[p].pc # "idle",
         tx[p].kind \notin {"enable", "disable"},
         UNCHANGED <<users, creds, sessions>>,
         NEW r, tx' = [tx EXCEPT ![p] = r], SameRequest(r, tx[p]), r.pc # "idle",
         NEW u \in Users, u \in tx[p].ids, NEW x \in CredRows,
         draft' = [draft EXCEPT ![p].creds[u] = x],
         CredHolders(p, u) = {}, x.pw \in {creds[u].pw, tx[p].next},
         \/ ~ForeignKeys \/ x.pw = None \/ creds[u].pw # None \/ References(draft[p], u)
         \/ UserDeleters(p, u) = {} /\ Exists(Committed(users[u], draft[p].users[u]))
  PROVE  Lock'
<1> DEFINE d == [draft[p] EXCEPT !.creds[u] = x]
<1>0. draft[p] \in Drafts /\ Local(tx[p], draft[p])
  BY Shapes DEF Lock
<1>1. /\ d.creds = [draft[p].creds EXCEPT ![u] = x]
      /\ d.users = draft[p].users /\ d.sessions = draft[p].sessions
      /\ draft[p].creds \in [Users -> CredRows \cup {None}]
  BY <1>0, DraftWith
<1>2. draft' = [draft EXCEPT ![p] = d]
  OBVIOUS
<1>3. \A q \in Procs \ {p} : Disjoint(d, draft[q]) /\ Disjoint(draft[q], d)
  BY WriteCred
<1> HIDE DEF d
<1>4. UserDraft(r, d) /\ SessionDraft(r, d)
  BY <1>0, <1>1 DEF Local, UserDraft, SessionDraft, SameRequest
<1>5. CredDraft(r, d)
  BY <1>0, <1>1 DEF Local, CredDraft, SameRequest
<1>6. ASSUME ForeignKeys, NEW v \in Users, References(d, v)
      PROVE  Exists(Committed(users[v], d.users[v]))
  <2>1. References(draft[p], v) \/ (v = u /\ x.pw # None /\ creds[u].pw = None)
    BY <1>1, <1>6 DEF References
  <2> QED
    BY <1>0, <1>1, <1>6, <2>1 DEF Local, Keys
<1>7. Local(r, d)
  BY <1>4, <1>5, <1>6, StillLocal DEF SameRequest
<1> QED
  BY <1>2, <1>3, <1>7, StatementKeeps DEF SameRequest

LEMMA SessionWriteKeeps ==
  ASSUME Lock, IInv', NEW p \in Procs, tx[p].kind # "delete", tx[p].pc # "idle",
         UNCHANGED <<users, creds, sessions>>,
         NEW r, tx' = [tx EXCEPT ![p] = r], SameRequest(r, tx[p]), r.pc # "idle",
         NEW s \in Sessions, NEW x \in SessionRows,
         draft' = [draft EXCEPT ![p].sessions[s] = x],
         SessionHolders(p, s) = {},
         r.kind \in {"enable", "disable"} /\ r.pc # "setState" =>
            \A u \in r.ids : draft[p].users[u] # None,
         \/ /\ tx[p].kind \in {"login", "issue", "registerLogin"} /\ s = tx[p].sid
            /\ x.state = "live" /\ x.user = tx[p].user /\ tx[p].user \in Users
            /\ ForeignKeys =>
                 /\ UserDeleters(p, x.user) = {}
                 /\ Exists(Committed(users[x.user], draft[p].users[x.user]))
         \/ /\ tx[p].kind \in {"change", "reset", "disable", "revoke"} /\ Started(s)
            /\ x.state = "revoked" /\ x.user = sessions[s].user
  PROVE  Lock'
<1> DEFINE d == [draft[p] EXCEPT !.sessions[s] = x]
<1>0. draft[p] \in Drafts /\ Local(tx[p], draft[p])
  BY Shapes DEF Lock
<1>1. /\ d.sessions = [draft[p].sessions EXCEPT ![s] = x]
      /\ d.users = draft[p].users /\ d.creds = draft[p].creds
      /\ draft[p].sessions \in [Sessions -> SessionRows \cup {None}]
  BY <1>0, DraftWith
<1>2. draft' = [draft EXCEPT ![p] = d]
  OBVIOUS
<1>3. \A q \in Procs \ {p} : Disjoint(d, draft[q]) /\ Disjoint(draft[q], d)
  BY WriteSession DEF Started
<1> HIDE DEF d
<1>4. UserDraft(r, d) /\ CredDraft(r, d)
  BY <1>0, <1>1 DEF Local, UserDraft, CredDraft, SameRequest
<1>5. SessionDraft(r, d)
  BY <1>0, <1>1 DEF Local, SessionDraft, SameRequest
<1>6. ASSUME ForeignKeys, NEW v \in Users, References(d, v)
      PROVE  Exists(Committed(users[v], d.users[v]))
  <2>1. References(draft[p], v) \/ (v = x.user /\ sessions[s].state = "unused")
    BY <1>1, <1>6 DEF References
  <2> QED
    BY <1>0, <1>1, <1>6, <2>1 DEF Local, Keys, Started
<1>7. Local(r, d)
  BY <1>1, <1>4, <1>5, <1>6, StillLocal
<1> QED
  BY <1>2, <1>3, <1>7, StatementKeeps DEF SameRequest

LEMMA Reading ==
  ASSUME NEW p \in Procs
  PROVE  /\ \A u \in Users : SeesUser(p, u) = Committed(users[u], draft[p].users[u])
         /\ \A u \in Users : SeesCred(p, u) = Committed(creds[u], draft[p].creds[u])
         /\ \A s \in Sessions :
              SeesSession(p, s) = Committed(sessions[s], draft[p].sessions[s])
  BY DEF SeesUser, SeesCred, SeesSession, Committed

\* The statements that only read, of requests that delete nothing.
LEMMA ReadsKeep ==
  ASSUME Lock, IInv', NEW p \in Procs, tx[p].kind # "delete",
         \/ FindUser(p) \/ AuthenticateUser(p) \/ RereadUser(p) \/ LoginIdentifiers(p)
         \/ CheckUpdated(p) \/ RevokeSessionsForUsers(p) \/ EndSweep(p)
  PROVE  Lock'
<1>1. /\ UNCHANGED <<users, creds, sessions>> /\ tx[p].pc # "idle"
      /\ tx \in [Procs -> TxRows] /\ tx[p] \in TxRows
      /\ tx[p].kind \in {"enable", "disable"} =>
           \/ CheckUpdated(p)
           \/ tx[p].pc # "setState" /\ ~CheckUpdated(p) /\ ~FindUser(p)
              /\ ~AuthenticateUser(p) /\ ~RereadUser(p) /\ ~LoginIdentifiers(p)
  BY Shapes, Course DEF Lock, FindUser, AuthenticateUser, RereadUser, LoginIdentifiers,
     CheckUpdated, RevokeSessionsForUsers, EndSweep, Reads
<1>2. CASE Rollback(p)
  BY <1>1, <1>2, EndKeeps
<1>3. CASE ~Rollback(p)
  <2>1. tx[p].kind \in {"enable", "disable"} =>
          \A u \in tx[p].ids : draft[p].users[u] # None
    BY <1>1, <1>3 DEF Lock, Local, Batch, CheckUpdated
  <2>2. ASSUME NEW step, step # "idle", Goto(p, step), UNCHANGED draft
        PROVE  Lock'
    <3> DEFINE r == [tx[p] EXCEPT !.pc = step]
    <3>1. tx' = [tx EXCEPT ![p] = r]
      BY <1>1, <2>2 DEF Goto
    <3>2. SameRequest(r, tx[p]) /\ r.pc # "idle"
      BY <1>1, <2>2, GotoRow
    <3> HIDE DEF r
    <3> QED
      BY <1>1, <2>1, <2>2, <3>1, <3>2, ReadKeeps DEF SameRequest
  <2>3. CASE AuthenticateUser(p)
    <3> DEFINE c == SeesCred(p, tx[p].user)
               step == IF c.scheme = "retired" THEN "rehash"
                       ELSE AfterVerify(tx[p].kind)
               r == [tx[p] EXCEPT !.seen = c, !.pc = step]
    <3>1. tx' = [tx EXCEPT ![p] = r] /\ UNCHANGED draft
      BY <1>1, <1>3, <2>3 DEF AuthenticateUser
    <3>2. tx[p].kind \in {"login", "auth", "change"}
      BY <2>3, Course DEF Lock, AuthenticateUser, Reads
    <3>3. step # "idle"
      BY <3>2 DEF AfterVerify
    <3> HIDE DEF c, step
    <3>4. SameRequest(r, tx[p]) /\ r.pc # "idle"
      BY <1>1, <3>3 DEF SameRequest, TxRows
    <3> HIDE DEF r
    <3> QED
      BY <1>1, <2>1, <3>1, <3>4, ReadKeeps DEF SameRequest
  <2>4. CASE RevokeSessionsForUsers(p)
    <3> DEFINE found == {s \in Sessions : /\ SeesSession(p, s).state = "live"
                                          /\ SeesSession(p, s).user \in tx[p].ids}
               r == [tx[p] EXCEPT !.pc = "sweep", !.rows = found]
    <3>1. tx' = [tx EXCEPT ![p] = r] /\ UNCHANGED draft
      BY <1>1, <2>4 DEF RevokeSessionsForUsers
    <3> HIDE DEF found
    <3>2. SameRequest(r, tx[p]) /\ r.pc # "idle"
      BY <1>1 DEF SameRequest, TxRows
    <3> HIDE DEF r
    <3> QED
      BY <1>1, <2>1, <3>1, <3>2, ReadKeeps DEF SameRequest
  <2>5. CASE FindUser(p)
    <3>1. tx[p].kind \in {"login", "auth", "change", "issue", "reset"}
      BY <2>5, Course DEF Lock, FindUser, Reads
    <3> QED
      BY <1>3, <2>2, <2>5, <3>1 DEF FindUser
  <2>6. CASE RereadUser(p) \/ LoginIdentifiers(p) \/ CheckUpdated(p) \/ EndSweep(p)
    BY <1>3, <2>2, <2>6 DEF RereadUser, LoginIdentifiers, CheckUpdated, EndSweep
  <2> QED
    BY <2>3, <2>4, <2>5, <2>6
<1> QED
  BY <1>2, <1>3

\* The statements that write, of requests that delete nothing.
LEMMA WritesKeep ==
  ASSUME Lock, IInv', NEW p \in Procs, tx[p].kind # "delete",
         \/ UpdatePasswordCredentialIfMatch(p) \/ CreateSession(p) \/ MarkUserLogin(p)
         \/ CreateUser(p) \/ UpsertPasswordCredential(p)
         \/ UpdateUserState(p) \/ SweepSession(p)
  PROVE  Lock'
<1>1. /\ UNCHANGED <<users, creds, sessions>> /\ tx[p].pc # "idle"
      /\ tx \in [Procs -> TxRows] /\ tx[p] \in TxRows
      /\ draft \in [Procs -> Drafts] /\ draft[p] \in Drafts /\ Local(tx[p], draft[p])
      /\ users \in [Users -> UserStates]
      /\ OnCourse(tx[p])
  BY Shapes DEF Lock, UpdatePasswordCredentialIfMatch, CreateSession, MarkUserLogin,
     CreateUser, UpsertPasswordCredential, UpdateUserState, SweepSession, Writes
<1>2. CASE Rollback(p)
  BY <1>1, <1>2, EndKeeps
<1> DEFINE u == tx[p].user
<1>3. tx[p].kind \in Creators \cup {"login", "issue", "auth", "change", "reset",
                                   "markLogin"} => u \in Users /\ u \in tx[p].ids
  BY <1>1 DEF OnCourse, Local, Given
<1>4. \A step : LET r == [tx[p] EXCEPT !.pc = step]
                IN  /\ SameRequest(r, tx[p]) /\ r.pc = step
                    /\ Goto(p, step) => tx' = [tx EXCEPT ![p] = r]
  <2> TAKE step
  <2>1. SameRequest([tx[p] EXCEPT !.pc = step], tx[p])
        /\ [tx[p] EXCEPT !.pc = step].pc = step
    BY <1>1 DEF SameRequest, TxRows
  <2>2. Goto(p, step) => tx' = [tx EXCEPT ![p] = [tx[p] EXCEPT !.pc = step]]
    BY DEF Goto
  <2> QED
    BY <2>1, <2>2
<1>5. CASE UpdatePasswordCredentialIfMatch(p)
  <2> DEFINE step == AfterVerify(tx[p].kind)
             r == [tx[p] EXCEPT !.pc = step]
             c == SeesCred(p, u)
             x == [tx[p].seen EXCEPT !.scheme = "current"]
  <2>1. tx[p].kind \in {"login", "auth", "change"} /\ tx[p].pc = "rehash"
    BY <1>5, Course DEF Lock, UpdatePasswordCredentialIfMatch, Writes
  <2>2. step # "idle"
    BY <2>1 DEF AfterVerify
  <2>3. SameRequest(r, tx[p]) /\ r.pc # "idle" /\ tx' = [tx EXCEPT ![p] = r]
    BY <1>4, <1>5, <2>2 DEF UpdatePasswordCredentialIfMatch
  <2>4. x \in CredRows /\ x.pw = tx[p].seen.pw
    BY <1>1 DEF TxRows, CredRows
  <2> HIDE DEF r, x
  <2>5. CASE c # tx[p].seen
    <3>1. UNCHANGED draft
      BY <1>5, <2>5 DEF UpdatePasswordCredentialIfMatch
    <3>2. r.kind \notin {"enable", "disable"}
      BY <2>1, <2>3 DEF SameRequest
    <3> QED
      BY <1>1, <2>3, <3>1, <3>2, ReadKeeps
  <2>6. CASE c = tx[p].seen
    <3>1. draft' = [draft EXCEPT ![p].creds[u] = x] /\ CredHolders(p, u) = {}
      BY <1>5, <2>1, <2>6 DEF UpdatePasswordCredentialIfMatch, WaitsFor, x
    <3>2. c = Committed(creds[u], draft[p].creds[u])
      BY Reading, <1>3, <2>1
    <3>3. x.pw \in {creds[u].pw, tx[p].next}
      BY <1>1, <1>3, <2>1, <2>4, <2>6, <3>2 DEF Local, CredDraft, Committed
    <3>4. x.pw = None \/ creds[u].pw # None \/ References(draft[p], u)
      BY <2>4, <2>6, <3>2 DEF References, Committed
    <3> QED
      BY <1>1, <1>3, <2>1, <2>3, <2>4, <3>1, <3>3, <3>4, CredWriteKeeps
  <2> QED
    BY <2>5, <2>6
<1>6. CASE CreateSession(p) /\ ~Rollback(p)
  <2> DEFINE s == tx[p].sid
             r == [tx[p] EXCEPT !.pc = "mark"]
             x == [state |-> "live", user |-> u,
                   via |-> IF tx[p].kind = "registerLogin" THEN tx[p].next
                           ELSE tx[p].offered]
  <2>1. tx[p].kind \in {"login", "issue", "registerLogin"} /\ tx[p].pc = "insert"
        /\ s \in Sessions
    BY <1>6, Course DEF Lock, CreateSession, Writes
  <2>2. SameRequest(r, tx[p]) /\ r.pc # "idle" /\ tx' = [tx EXCEPT ![p] = r]
    BY <1>4, <1>6 DEF CreateSession
  <2>3. x \in SessionRows /\ x.state = "live" /\ x.user = u
    BY <1>1, <1>3, <2>1 DEF SessionRows, TxRows, Creators
  <2>4. draft' = [draft EXCEPT ![p].sessions[s] = x] /\ KeyHolds(p, u)
    BY <1>6 DEF CreateSession
  <2> HIDE DEF r, x
  <2>5. ForeignKeys => UserDeleters(p, u) = {}
    BY <1>6, <2>1 DEF CreateSession, WaitsFor
  <2>6. ForeignKeys => Exists(Committed(users[u], draft[p].users[u]))
    BY <1>3, <2>1, <2>4, Reading DEF KeyHolds, Creators
  <2>7. SessionHolders(p, s) = {}
    <3>1. s # None /\ sessions[s] = UnusedSession /\ UnusedSession.state = "unused"
      BY <2>1, NoneFacts DEF Lock, Claims, UnusedSession
    <3>2. SUFFICES ASSUME NEW q \in Procs \ {p}, draft[q].sessions[s] # None
                   PROVE  FALSE
      BY DEF SessionHolders
    <3>3. SessionDraft(tx[q], draft[q]) /\ Apart(tx[p], tx[q])
      BY DEF Lock, Local
    <3> QED
      BY <2>1, <3>1, <3>2, <3>3 DEF SessionDraft, Started, Apart
  <2>8. r.kind \notin {"enable", "disable"}
    BY <2>1, <2>2 DEF SameRequest
  <2> QED
    BY <1>1, <1>3, <2>1, <2>2, <2>3, <2>4, <2>5, <2>6, <2>7, <2>8, SessionWriteKeeps
       DEF Creators
<1>7. CASE MarkUserLogin(p) /\ ~Rollback(p)
  <2> DEFINE x == SeesUser(p, u)
             r == [tx[p] EXCEPT !.pc = "commit"]
  <2>1. tx[p].kind \in {"login", "issue", "registerLogin", "markLogin"}
        /\ tx[p].pc = "mark" /\ u \in Users /\ u \in tx[p].ids
    BY <1>3, <1>7, Course DEF Lock, MarkUserLogin, Writes, Creators
  <2>2. SameRequest(r, tx[p]) /\ r.pc = "commit" /\ tx' = [tx EXCEPT ![p] = r]
    BY <1>4, <1>7 DEF MarkUserLogin
  <2>3. /\ Exists(x) /\ draft' = [draft EXCEPT ![p].users[u] = x]
        /\ UserHolders(p, u) = {}
    BY <1>7, <2>1 DEF MarkUserLogin, WaitsFor
  <2>4. x \in {"active", "disabled"}
    BY <2>3 DEF Exists
  <2>5. x = Committed(users[u], draft[p].users[u])
    BY <2>1, Reading
  <2> HIDE DEF r, x
  <2>6. tx[p].kind \in {"login", "issue", "markLogin"} => x = users[u]
    BY <1>1, <2>1, <2>5 DEF Local, UserDraft, Committed, Creators
  <2> QED
    BY <1>1, <2>1, <2>2, <2>3, <2>4, <2>6, UserWriteKeeps DEF Creators
<1>8. CASE CreateUser(p)
  <2> DEFINE step == IF tx[p].kind = "create" THEN "commit" ELSE "setHash"
             r == [tx[p] EXCEPT !.pc = step]
  <2>1. tx[p].kind \in Creators /\ u \in Users /\ u \in tx[p].ids
    BY <1>3, <1>8, Course DEF Lock, CreateUser, Writes
  <2>2. SameRequest(r, tx[p]) /\ r.pc # "idle" /\ tx' = [tx EXCEPT ![p] = r]
    BY <1>4, <1>8 DEF CreateUser
  <2>3. PICK x \in {"active", "disabled"} : draft' = [draft EXCEPT ![p].users[u] = x]
    BY <1>8 DEF CreateUser
  <2>4. UserHolders(p, u) = {}
    <3>1. users[u] = "unborn" /\ ~Exists("unborn")
      BY <2>1 DEF Lock, Claims, Exists
    <3>2. SUFFICES ASSUME NEW q \in Procs \ {p}, draft[q].users[u] # None
                   PROVE  FALSE
      BY DEF UserHolders
    <3>3. UserDraft(tx[q], draft[q]) /\ Apart(tx[p], tx[q]) /\ Given(tx[q])
      BY DEF Lock, Local
    <3> QED
      BY <2>1, <3>1, <3>2, <3>3 DEF UserDraft, Apart, Given
  <2> HIDE DEF r
  <2> QED
    BY <1>1, <2>1, <2>2, <2>3, <2>4, UserWriteKeeps
<1>9. CASE UpsertPasswordCredential(p) /\ ~Rollback(p)
  <2> DEFINE step == AfterSetHash(tx[p].kind)
             r == [tx[p] EXCEPT !.pc = step]
             x == [pw |-> tx[p].next, scheme |-> "current"]
  <2>1. /\ tx[p].kind \in {"register", "registerLogin", "change", "reset"}
        /\ tx[p].pc = "setHash" /\ tx[p].next \in Passwords
    BY <1>9, Course DEF Lock, UpsertPasswordCredential, Writes
  <2>2. u \in Users /\ u \in tx[p].ids
    BY <1>3, <2>1 DEF Creators
  <2>3. step # "idle"
    BY <2>1 DEF AfterSetHash
  <2>4. SameRequest(r, tx[p]) /\ r.pc # "idle" /\ tx' = [tx EXCEPT ![p] = r]
    BY <1>4, <1>9, <2>3 DEF UpsertPasswordCredential
  <2>5. x \in CredRows /\ x.pw = tx[p].next
    BY <2>1 DEF CredRows
  <2>6. /\ draft' = [draft EXCEPT ![p].creds[u] = x]
        /\ SeesCred(p, u).pw # None \/ KeyHolds(p, u)
        /\ CredHolders(p, u) = {}
        /\ SeesCred(p, u).pw = None /\ ForeignKeys => UserDeleters(p, u) = {}
    BY <1>9, <2>1 DEF UpsertPasswordCredential, WaitsFor
  <2> HIDE DEF r, x
  <2>7. SeesCred(p, u) = Committed(creds[u], draft[p].creds[u])
        /\ SeesUser(p, u) = Committed(users[u], draft[p].users[u])
    BY <2>2, Reading
  <2>8. SeesCred(p, u).pw # None => creds[u].pw # None \/ References(draft[p], u)
    BY <2>7 DEF References, Committed
  <2> QED
    BY <1>1, <2>1, <2>2, <2>4, <2>5, <2>6, <2>7, <2>8, CredWriteKeeps DEF KeyHolds
<1>10. CASE UpdateUserState(p)
  <2> DEFINE x == IF tx[p].kind = "enable" THEN "active" ELSE "disabled"
  <2>1. tx[p].kind \in {"enable", "disable"} /\ tx[p].pc = "setState"
    BY <1>10, Course DEF Lock, UpdateUserState, Writes
  <2>2. PICK v \in tx[p].todo :
          /\ Exists(users[v]) => UserHolders(p, v) = {}
          /\ tx' = [tx EXCEPT ![p].todo = @ \ {v}]
          /\ draft' = IF Exists(users[v]) THEN [draft EXCEPT ![p].users[v] = x]
                      ELSE draft
    BY <1>10 DEF UpdateUserState
  <2> DEFINE r == [tx[p] EXCEPT !.todo = @ \ {v}]
  <2>3. SameRequest(r, tx[p]) /\ r.pc = "setState" /\ tx' = [tx EXCEPT ![p] = r]
    <3>1. SameRequest(r, tx[p]) /\ r.pc = "setState"
      BY <1>1, <2>1 DEF SameRequest, TxRows
    <3> QED
      BY <2>2, <3>1
  <2>4. v \in Users /\ v \in tx[p].ids
    BY <1>1 DEF TxRows, Local, Given
  <2> HIDE DEF r
  <2>5. CASE Exists(users[v])
    BY <1>1, <2>1, <2>2, <2>3, <2>4, <2>5, UserWriteKeeps
  <2>6. CASE ~Exists(users[v])
    BY <1>1, <2>1, <2>2, <2>3, <2>6, ReadKeeps
  <2> QED
    BY <2>5, <2>6
<1>11. CASE SweepSession(p)
  <2>1. tx[p].kind \in {"change", "reset", "disable", "revoke"} /\ tx[p].pc = "sweep"
    BY <1>11, Course DEF Lock, SweepSession, Writes
  <2>2. PICK s \in tx[p].rows :
          /\ SessionHolders(p, s) = {}
          /\ tx' = [tx EXCEPT ![p].rows = @ \ {s}]
          /\ draft' = LET row == SeesSession(p, s) IN
                      IF Swept(tx[p].kind, row) = row THEN draft
                      ELSE [draft EXCEPT ![p].sessions[s] = Swept(tx[p].kind, row)]
    BY <1>11 DEF SweepSession
  <2> DEFINE r == [tx[p] EXCEPT !.rows = @ \ {s}]
             row == SeesSession(p, s)
             x == [row EXCEPT !.state = "revoked"]
  <2>3. SameRequest(r, tx[p]) /\ r.pc = "sweep" /\ tx' = [tx EXCEPT ![p] = r]
    <3>1. SameRequest(r, tx[p]) /\ r.pc = "sweep"
      BY <1>1, <2>1 DEF SameRequest, TxRows
    <3> QED
      BY <2>2, <3>1
  <2>4. s \in Sessions
    BY <1>1 DEF TxRows
  <2>5. row \in SessionRows /\ row = Committed(sessions[s], draft[p].sessions[s])
    BY <2>4, Reading, SeesType DEF Lock, IInv
  <2>6. x \in SessionRows /\ x.state = "revoked" /\ x.user = row.user
    BY <2>5 DEF SessionRows
  <2>7. r.kind \in {"enable", "disable"} => \A v \in r.ids : draft[p].users[v] # None
    BY <1>1, <2>1, <2>3 DEF Local, Batch, SameRequest
  <2> HIDE DEF r
  <2>8. CASE UNCHANGED draft
    BY <1>1, <2>3, <2>7, <2>8, ReadKeeps
  <2>9. CASE ~UNCHANGED draft
    <3>1. row.state = "live" /\ draft' = [draft EXCEPT ![p].sessions[s] = x]
      BY <2>1, <2>2, <2>9 DEF Swept
    <3>2. draft[p].sessions[s] = None
      BY <1>1, <2>1, <2>4, <2>5, <3>1 DEF Local, SessionDraft, Committed
    <3>3. Started(s) /\ x.user = sessions[s].user
      BY <2>5, <2>6, <3>1, <3>2 DEF Started, Committed
    <3>4. SessionHolders(p, s) = {} /\ tx[p].kind # "delete"
      BY <2>1, <2>2
    <3> HIDE DEF x, row
    <3> QED
      BY <1>1, <2>1, <2>3, <2>4, <2>6, <2>7, <3>1, <3>3, <3>4, SessionWriteKeeps
  <2> QED
    BY <2>8, <2>9
<1> QED
  BY <1>2, <1>5, <1>6, <1>7, <1>8, <1>9, <1>10, <1>11

\* A statement of a request that deletes users.
LEMMA DeletionStatement ==
  ASSUME Lock, IInv', NEW p \in Procs, tx[p].kind = "delete",
         UNCHANGED <<users, creds, sessions>>,
         NEW r, tx' = [tx EXCEPT ![p] = r], r.pc # "idle",
         r.kind = "delete", r.ids = tx[p].ids, r.next = tx[p].next, r.sid = tx[p].sid,
         r.todo \subseteq r.ids,
         r.pc \in {"sweep", "wipeCred", "wipeUser", "cascade"} =>
            r.user \in r.ids \ r.todo,
         r.pc = "commit" => r.todo = {},
         NEW d, draft' = [draft EXCEPT ![p] = d],
         UserDraft(r, d), CredDraft(r, d), SessionDraft(r, d),
         \A u \in Gone(r) : d.users[u] = "deleted",
         ForeignKeys => Keys(r, d),
         \A q \in Procs \ {p} : Disjoint(d, draft[q]) /\ Disjoint(draft[q], d)
  PROVE  Lock'
<1>1. Given(tx[p])
  BY DEF Lock, Local
<1>2. Given(r) /\ Fresh(r, d) /\ Batch(r, d)
  BY <1>1 DEF Given, Fresh, Batch, Creators
<1>3. Local(r, d)
  BY <1>2 DEF Local
<1> QED
  BY <1>3, StatementKeeps DEF Creators

\* A deletion never holds a new row, and outside the cascade what it has in hand
\* does not depend on the account it is at.
LEMMA DeletionRow ==
  ASSUME Lock, NEW p \in Procs, tx[p].kind = "delete"
  PROVE  /\ tx[p] \in TxRows /\ tx \in [Procs -> TxRows]
         /\ draft \in [Procs -> Drafts] /\ draft[p] \in Drafts
         /\ tx[p].todo \subseteq tx[p].ids /\ tx[p].ids \subseteq Users
         /\ tx[p].next = None /\ tx[p].sid = None
         /\ tx[p].pc \in {"sweep", "wipeCred", "wipeUser", "cascade"} =>
              tx[p].user \in tx[p].ids \ tx[p].todo
         /\ \A q \in Procs \ {p} :
              Disjoint(draft[p], draft[q]) /\ Disjoint(draft[q], draft[p])
         /\ \A u \in Users : ~References(draft[p], u)
         /\ \A u \in Users : draft[p].users[u] # None =>
              u \in tx[p].ids /\ Exists(users[u]) /\ draft[p].users[u] = "deleted"
         /\ \A s \in Sessions : draft[p].sessions[s] # None =>
              Started(s) /\ draft[p].sessions[s] = DeletedSession
         /\ \A u \in Users : draft[p].creds[u] # None =>
              u \in tx[p].ids /\ draft[p].creds[u].pw \in {creds[u].pw, None}
         /\ \A u \in Gone(tx[p]) : draft[p].users[u] = "deleted"
         /\ ForeignKeys => Keys(tx[p], draft[p])
<1>1. /\ tx[p] \in TxRows /\ tx \in [Procs -> TxRows]
      /\ draft \in [Procs -> Drafts] /\ draft[p] \in Drafts /\ OnCourse(tx[p])
  BY Shapes DEF Lock
<1>2. /\ Local(tx[p], draft[p])
      /\ \A q \in Procs \ {p} :
           Disjoint(draft[p], draft[q]) /\ Disjoint(draft[q], draft[p])
  BY DEF Lock
<1>3. /\ tx[p].todo \subseteq tx[p].ids /\ tx[p].ids \subseteq Users
      /\ tx[p].next = None /\ tx[p].sid = None
      /\ tx[p].pc \in {"sweep", "wipeCred", "wipeUser", "cascade"} =>
           tx[p].user \in tx[p].ids \ tx[p].todo
  BY <1>1, <1>2 DEF Local, Given, TxRows
<1>4. \A u \in Users : draft[p].users[u] # None =>
        u \in tx[p].ids /\ Exists(users[u]) /\ draft[p].users[u] = "deleted"
  BY <1>2 DEF Local, UserDraft, Creators
<1>5. \A s \in Sessions : draft[p].sessions[s] # None =>
        Started(s) /\ draft[p].sessions[s] = DeletedSession
  BY <1>2 DEF Local, SessionDraft
<1>6. \A u \in Users : draft[p].creds[u] # None =>
        u \in tx[p].ids /\ draft[p].creds[u].pw \in {creds[u].pw, None}
  BY <1>2, <1>3 DEF Local, CredDraft
<1>7. DeletedSession.user = None
  BY DEF DeletedSession
<1>8. \A u \in Users : ~References(draft[p], u)
  BY <1>5, <1>6, <1>7, NoneFacts DEF References
<1> QED
  BY <1>1, <1>2, <1>3, <1>4, <1>5, <1>6, <1>8 DEF Local, Batch

LEMMA DeletionReads ==
  ASSUME Lock, IInv', NEW p \in Procs, tx[p].kind = "delete",
         GetUserToDelete(p) \/ DeleteSessionsOfNext(p) \/ EndSweep(p)
  PROVE  Lock'
<1> DEFINE d == draft[p]
<1>0. /\ UNCHANGED <<users, creds, sessions>>
      /\ Rollback(p) \/ draft' = [draft EXCEPT ![p] = d]
  <2>1. UNCHANGED <<users, creds, sessions>> /\ (Rollback(p) \/ UNCHANGED draft)
    BY DEF GetUserToDelete, DeleteSessionsOfNext, EndSweep, Reads
  <2>2. draft = [draft EXCEPT ![p] = d]
    BY DeletionRow
  <2> QED
    BY <2>1, <2>2
<1>1. CASE Rollback(p)
  BY <1>0, <1>1, EndKeeps
<1>2. ASSUME ~Rollback(p), NEW r, tx' = [tx EXCEPT ![p] = r],
             r.pc \notin {"idle", "cascade"}, tx[p].pc # "cascade",
             r.kind = "delete", r.ids = tx[p].ids, r.next = tx[p].next,
             r.sid = tx[p].sid, r.todo \subseteq r.ids,
             r.pc \in {"sweep", "wipeCred", "wipeUser"} => r.user \in r.ids \ r.todo,
             r.pc = "commit" => r.todo = {}, Gone(r) \subseteq Gone(tx[p])
      PROVE  Lock'
  <2>1. UserDraft(r, d) /\ CredDraft(r, d) /\ SessionDraft(r, d)
    BY <1>2, DeletionRow DEF UserDraft, CredDraft, SessionDraft
  <2>2. ForeignKeys => Keys(r, d)
    BY <1>2, DeletionRow DEF Keys, Cascading
  <2>3. /\ \A u \in Gone(r) : d.users[u] = "deleted"
        /\ \A q \in Procs \ {p} : Disjoint(d, draft[q]) /\ Disjoint(draft[q], d)
        /\ UNCHANGED <<users, creds, sessions>> /\ draft' = [draft EXCEPT ![p] = d]
    BY <1>0, <1>2, DeletionRow
  <2> HIDE DEF d
  <2> QED
    BY <1>2, <2>1, <2>2, <2>3, DeletionStatement
<1> HIDE DEF d
<1>3. CASE GetUserToDelete(p) /\ ~Rollback(p)
  <2>1. tx[p].pc = "find"
    BY <1>3 DEF GetUserToDelete, Reads
  <2>2. PICK u \in tx[p].todo :
          \/ tx' = [tx EXCEPT ![p].pc = "pick", ![p].todo = tx[p].ids]
          \/ tx' = [tx EXCEPT ![p].todo = @ \ {u}]
    BY <1>3 DEF GetUserToDelete
  <2>3. CASE tx' = [tx EXCEPT ![p].pc = "pick", ![p].todo = tx[p].ids]
    <3> DEFINE r == [tx[p] EXCEPT !.pc = "pick", !.todo = tx[p].ids]
    <3>1. /\ r.pc = "pick" /\ r.kind = "delete" /\ r.ids = tx[p].ids
          /\ r.next = tx[p].next /\ r.sid = tx[p].sid /\ r.todo = r.ids
      BY DeletionRow DEF TxRows
    <3>2. tx' = [tx EXCEPT ![p] = r]
      BY <2>3
    <3> HIDE DEF r
    <3>3. Gone(r) = {}
      BY <3>1 DEF Gone
    <3> QED
      BY <1>2, <1>3, <2>1, <3>1, <3>2, <3>3
  <2>4. CASE tx' = [tx EXCEPT ![p].todo = @ \ {u}]
    <3> DEFINE r == [tx[p] EXCEPT !.todo = @ \ {u}]
    <3>1. /\ r.pc = "find" /\ r.kind = "delete" /\ r.ids = tx[p].ids
          /\ r.next = tx[p].next /\ r.sid = tx[p].sid /\ r.todo \subseteq r.ids
      BY <2>1, DeletionRow DEF TxRows
    <3>2. tx' = [tx EXCEPT ![p] = r]
      BY <2>4
    <3> HIDE DEF r
    <3>3. Gone(r) = {}
      BY <3>1 DEF Gone
    <3> QED
      BY <1>2, <1>3, <2>1, <3>1, <3>2, <3>3
  <2> QED
    BY <2>2, <2>3, <2>4
<1>4. CASE DeleteSessionsOfNext(p) /\ ~Rollback(p)
  <2>1. tx[p].pc = "pick" /\ Gone(tx[p]) = tx[p].ids \ tx[p].todo
    BY <1>4 DEF DeleteSessionsOfNext, Reads, Gone
  <2>2. CASE tx[p].todo = {} /\ Goto(p, "commit")
    <3> DEFINE r == [tx[p] EXCEPT !.pc = "commit"]
    <3>1. /\ r.pc = "commit" /\ r.kind = "delete" /\ r.ids = tx[p].ids
          /\ r.next = tx[p].next /\ r.sid = tx[p].sid /\ r.todo = {}
      BY <2>2, DeletionRow DEF TxRows
    <3>2. tx' = [tx EXCEPT ![p] = r]
      BY <2>2 DEF Goto
    <3> HIDE DEF r
    <3>3. Gone(r) = r.ids
      BY <3>1 DEF Gone
    <3>4. Gone(r) \subseteq Gone(tx[p])
      BY <2>1, <2>2, <3>1, <3>3
    <3> QED
      BY <1>2, <1>4, <2>1, <3>1, <3>2, <3>4
  <2>3. CASE ~(tx[p].todo = {} /\ Goto(p, "commit"))
    <3>1. PICK u \in tx[p].todo :
            tx' = [tx EXCEPT ![p].pc = "sweep", ![p].user = u,
                             ![p].todo = @ \ {u}, ![p].rows = SessionsOf(p, u)]
      BY <1>4, <2>3 DEF DeleteSessionsOfNext
    <3> DEFINE rows == SessionsOf(p, u)
               r == [tx[p] EXCEPT !.pc = "sweep", !.user = u, !.todo = @ \ {u},
                                  !.rows = rows]
    <3>2. tx' = [tx EXCEPT ![p] = r]
      BY <3>1
    <3> HIDE DEF rows
    <3>3. /\ r.pc = "sweep" /\ r.kind = "delete" /\ r.ids = tx[p].ids /\ r.user = u
          /\ r.next = tx[p].next /\ r.sid = tx[p].sid /\ r.todo = tx[p].todo \ {u}
      BY DeletionRow DEF TxRows
    <3> HIDE DEF r
    <3>4. Gone(r) = (r.ids \ r.todo) \ {r.user}
      BY <3>3 DEF Gone
    <3>5. Gone(r) \subseteq Gone(tx[p]) /\ r.todo \subseteq r.ids
          /\ r.user \in r.ids \ r.todo
      BY <2>1, <3>1, <3>3, <3>4, DeletionRow
    <3> QED
      BY <1>2, <1>4, <2>1, <3>2, <3>3, <3>5
  <2> QED
    BY <2>2, <2>3
<1>5. CASE EndSweep(p) /\ ~Rollback(p)
  <2> DEFINE r == [tx[p] EXCEPT !.pc = "wipeCred"]
  <2>1. tx[p].pc = "sweep" /\ tx' = [tx EXCEPT ![p] = r]
    BY <1>5 DEF EndSweep, Reads, Goto
  <2>2. /\ r.pc = "wipeCred" /\ r.kind = "delete" /\ r.ids = tx[p].ids
        /\ r.user = tx[p].user /\ r.next = tx[p].next /\ r.sid = tx[p].sid
        /\ r.todo = tx[p].todo
    BY DeletionRow DEF TxRows
  <2> HIDE DEF r
  <2>3. Gone(r) = Gone(tx[p])
    BY <2>1, <2>2 DEF Gone
  <2> QED
    BY <1>2, <1>5, <2>1, <2>2, <2>3, DeletionRow
<1> QED
  BY <1>1, <1>3, <1>4, <1>5

LEMMA DeletionSweeps ==
  ASSUME Lock, IInv', NEW p \in Procs, tx[p].kind = "delete", SweepSession(p)
  PROVE  Lock'
<1>1. UNCHANGED <<users, creds, sessions>> /\ tx[p].pc \in {"sweep", "cascade"}
  BY DEF SweepSession, Writes
<1>2. PICK s \in tx[p].rows :
        /\ SessionHolders(p, s) = {}
        /\ tx' = [tx EXCEPT ![p].rows = @ \ {s}]
        /\ draft' = LET row == SeesSession(p, s) IN
                    IF Swept(tx[p].kind, row) = row THEN draft
                    ELSE [draft EXCEPT ![p].sessions[s] = Swept(tx[p].kind, row)]
  BY DEF SweepSession
<1> DEFINE r == [tx[p] EXCEPT !.rows = @ \ {s}]
           row == SeesSession(p, s)
           d == IF Swept(tx[p].kind, row) = row THEN draft[p]
                ELSE [draft[p] EXCEPT !.sessions[s] = DeletedSession]
<1>3. s \in Sessions /\ row = Committed(sessions[s], draft[p].sessions[s])
  BY DeletionRow, Reading DEF TxRows
<1>4. /\ DeletedSession.state = "deleted" /\ DeletedSession.user = None
      /\ DeletedSession \in SessionRows
  BY DEF DeletedSession, SessionRows
<1>5. /\ row.state \in {"live", "revoked"} => Swept(tx[p].kind, row) = DeletedSession
      /\ row.state \notin {"live", "revoked"} => Swept(tx[p].kind, row) = row
  BY DEF Swept
<1>6. /\ tx' = [tx EXCEPT ![p] = r] /\ draft' = [draft EXCEPT ![p] = d]
  BY <1>2, <1>5, DeletionRow
<1>7. /\ r.kind = "delete" /\ r.pc = tx[p].pc /\ r.ids = tx[p].ids
      /\ r.user = tx[p].user /\ r.next = tx[p].next /\ r.sid = tx[p].sid
      /\ r.todo = tx[p].todo /\ r.rows = tx[p].rows \ {s}
  BY DeletionRow DEF TxRows
<1>8. /\ d.users = draft[p].users /\ d.creds = draft[p].creds
      /\ \A t \in Sessions \ {s} : d.sessions[t] = draft[p].sessions[t]
      /\ row.state \in {"live", "revoked"} => d.sessions[s] = DeletedSession
      /\ row.state \notin {"live", "revoked"} => d.sessions[s] = draft[p].sessions[s]
  <2>1. [draft[p] EXCEPT !.sessions[s] = DeletedSession].users = draft[p].users
        /\ [draft[p] EXCEPT !.sessions[s] = DeletedSession].creds = draft[p].creds
        /\ [draft[p] EXCEPT !.sessions[s] = DeletedSession].sessions
             = [draft[p].sessions EXCEPT ![s] = DeletedSession]
        /\ draft[p].sessions \in [Sessions -> SessionRows \cup {None}]
    BY DeletionRow DEF Drafts
  <2> QED
    BY <1>3, <1>4, <1>5, <2>1
<1>9. row.state \in {"live", "revoked"} => Started(s) /\ draft[p].sessions[s] = None
  BY <1>3, <1>4, DeletionRow DEF Started, Committed
<1>10. \A q \in Procs \ {p} : Disjoint(d, draft[q]) /\ Disjoint(draft[q], d)
  <2>1. CASE Swept(tx[p].kind, row) = row
    BY <2>1, DeletionRow
  <2>2. CASE Swept(tx[p].kind, row) # row
    <3>1. d = [draft[p] EXCEPT !.sessions[s] = DeletedSession]
          /\ sessions[s].state # "unused"
      BY <1>5, <1>9, <2>2 DEF Started
    <3> QED
      BY <1>2, <1>3, <1>4, <3>1, WriteSession
  <2> QED
    BY <2>1, <2>2
<1> HIDE DEF r, d, row
<1>11. UserDraft(r, d) /\ CredDraft(r, d)
  BY <1>7, <1>8, DeletionRow DEF UserDraft, CredDraft
<1>12. SessionDraft(r, d)
  BY <1>7, <1>8, <1>9, DeletionRow DEF SessionDraft
<1>13. Gone(r) = Gone(tx[p])
  BY <1>7 DEF Gone
<1>14. ASSUME ForeignKeys
       PROVE  Keys(r, d)
  <2>1. \A u \in Users : ~References(d, u)
    BY <1>3, <1>4, <1>8, DeletionRow, NoneFacts DEF References
  <2>2. ASSUME NEW u \in Users, d.users[u] = "deleted"
        PROVE  Committed(creds[u], d.creds[u]).pw = None \/ Cascading(r, u)
    BY <1>7, <1>8, <1>14, <2>2, DeletionRow DEF Keys, Cascading
  <2>3. ASSUME NEW u \in Users, d.users[u] = "deleted", NEW t \in Sessions,
               sessions[t].user = u
        PROVE  \/ Committed(sessions[t], d.sessions[t]) = DeletedSession
               \/ Cascading(r, u) /\ t \in r.rows
    <3>1. \/ Committed(sessions[t], draft[p].sessions[t]) = DeletedSession
          \/ Cascading(r, u) /\ t \in tx[p].rows
      BY <1>7, <1>8, <1>14, <2>3, DeletionRow DEF Keys, Cascading
    <3>2. CASE t # s
      BY <1>7, <1>8, <3>1, <3>2
    <3>3. CASE t = s
      <4>1. Started(s)
        BY <2>3, <3>3, NoneFacts DEF Lock, RowForm
      <4>2. row.state \in {"live", "revoked"} \/ draft[p].sessions[s] = DeletedSession
        BY <1>3, <4>1, DeletionRow DEF Started, Committed
      <4>3. d.sessions[s] = DeletedSession
        BY <1>4, <1>8, <4>2
      <4>4. DeletedSession # None
        BY <1>4, NoneFacts
      <4> QED
        BY <3>3, <4>3, <4>4 DEF Committed
    <3> QED
      BY <3>2, <3>3
  <2> QED
    BY <2>1, <2>2, <2>3 DEF Keys
<1>15. /\ \A u \in Gone(r) : d.users[u] = "deleted"
       /\ r.todo \subseteq r.ids /\ r.user \in r.ids \ r.todo
       /\ r.pc # "idle" /\ r.pc # "commit"
  BY <1>1, <1>7, <1>8, <1>13, DeletionRow
<1> QED
  BY <1>1, <1>6, <1>7, <1>10, <1>11, <1>12, <1>14, <1>15, DeletionStatement

\* Deleting the password row of the account at hand.
LEMMA PasswordGone ==
  ASSUME Lock, NEW p \in Procs, tx[p].kind = "delete",
         tx[p].pc \in {"wipeCred", "cascade"},
         SeesCred(p, tx[p].user).pw # None => CredHolders(p, tx[p].user) = {},
         NEW r, r.kind = "delete", r.ids = tx[p].ids, r.next = tx[p].next
  PROVE  \E d : /\ WithoutCred(p) = [draft EXCEPT ![p] = d]
                /\ d.users = draft[p].users /\ d.sessions = draft[p].sessions
                /\ Committed(creds[tx[p].user], d.creds[tx[p].user]).pw = None
                /\ \A u \in Users \ {tx[p].user} : d.creds[u] = draft[p].creds[u]
                /\ CredDraft(r, d)
                /\ \A u \in Users : ~References(d, u)
                /\ \A q \in Procs \ {p} : Disjoint(d, draft[q]) /\ Disjoint(draft[q], d)
<1> DEFINE u == tx[p].user
           e == [draft[p] EXCEPT !.creds[u] = NoCred]
<1>1. u \in Users /\ u \in tx[p].ids /\ tx[p].next = None
  BY DeletionRow
<1>2. SeesCred(p, u) = Committed(creds[u], draft[p].creds[u])
  BY <1>1, Reading
<1>3. CASE SeesCred(p, u).pw = None
  <2>1. WithoutCred(p) = [draft EXCEPT ![p] = draft[p]]
    BY <1>3, DeletionRow DEF WithoutCred
  <2>2. CredDraft(r, draft[p])
    BY <1>1, DeletionRow DEF CredDraft
  <2>3. Committed(creds[u], draft[p].creds[u]).pw = None
    BY <1>2, <1>3
  <2> DEFINE d == draft[p]
  <2>4. /\ WithoutCred(p) = [draft EXCEPT ![p] = d]
        /\ d.users = draft[p].users /\ d.sessions = draft[p].sessions
        /\ Committed(creds[u], d.creds[u]).pw = None
        /\ \A v \in Users \ {u} : d.creds[v] = draft[p].creds[v]
        /\ CredDraft(r, d)
        /\ \A v \in Users : ~References(d, v)
        /\ \A q \in Procs \ {p} : Disjoint(d, draft[q]) /\ Disjoint(draft[q], d)
    BY <2>1, <2>2, <2>3, DeletionRow
  <2> HIDE DEF d
  <2> QED
    BY <2>4
<1>4. CASE SeesCred(p, u).pw # None
  <2>1. WithoutCred(p) = [draft EXCEPT ![p] = e]
    BY <1>4 DEF WithoutCred
  <2>2. NoCred \in CredRows /\ NoCred.pw = None /\ NoCred # None
    BY NoneFacts DEF NoCred, CredRows
  <2>3. /\ e.users = draft[p].users /\ e.sessions = draft[p].sessions
        /\ e.creds = [draft[p].creds EXCEPT ![u] = NoCred]
        /\ draft[p].creds \in [Users -> CredRows \cup {None}]
    BY DeletionRow, DraftWith
  <2>4. \A q \in Procs \ {p} : Disjoint(e, draft[q]) /\ Disjoint(draft[q], e)
    BY <1>1, <1>4, <2>2, WriteCred
  <2> HIDE DEF e
  <2>5. CredDraft(r, e)
    BY <1>1, <2>2, <2>3, DeletionRow DEF CredDraft
  <2>6. \A v \in Users : ~References(e, v)
    BY <1>1, <2>2, <2>3, DeletionRow DEF References
  <2>7. Committed(creds[u], e.creds[u]).pw = None
        /\ \A v \in Users \ {u} : e.creds[v] = draft[p].creds[v]
    BY <1>1, <2>2, <2>3 DEF Committed
  <2> HIDE DEF u
  <2> QED
    BY <2>1, <2>3, <2>4, <2>5, <2>6, <2>7 DEF u
<1> QED
  BY <1>3, <1>4

LEMMA DeletionWrites ==
  ASSUME Lock, IInv', NEW p \in Procs, tx[p].kind = "delete",
         DeletePassword(p) \/ DeleteUserRow(p) \/ EndCascade(p)
  PROVE  Lock'
<1> DEFINE u == tx[p].user
<1>0. /\ UNCHANGED <<users, creds, sessions>>
      /\ tx[p].pc \in {"wipeCred", "wipeUser", "cascade"}
      /\ u \in Users /\ u \in tx[p].ids \ tx[p].todo
  BY DeletionRow DEF DeletePassword, DeleteUserRow, EndCascade, Writes
<1>1. CASE Rollback(p)
  BY <1>0, <1>1, EndKeeps
<1>2. CASE DeletePassword(p)
  <2> DEFINE r == [tx[p] EXCEPT !.pc = "wipeUser"]
  <2>1. tx[p].pc = "wipeCred" /\ tx' = [tx EXCEPT ![p] = r] /\ draft' = WithoutCred(p)
    BY <1>2 DEF DeletePassword, Writes, Goto
  <2>2. /\ r.pc = "wipeUser" /\ r.kind = "delete" /\ r.ids = tx[p].ids
        /\ r.user = u /\ r.next = tx[p].next /\ r.sid = tx[p].sid
        /\ r.todo = tx[p].todo
    BY DeletionRow DEF TxRows
  <2>3. SeesCred(p, u).pw # None => CredHolders(p, u) = {}
    BY <1>2, <2>1 DEF DeletePassword, WaitsFor
  <2> HIDE DEF r
  <2>4. PICK d : /\ draft' = [draft EXCEPT ![p] = d]
                 /\ d.users = draft[p].users /\ d.sessions = draft[p].sessions
                 /\ Committed(creds[u], d.creds[u]).pw = None
                 /\ \A v \in Users \ {u} : d.creds[v] = draft[p].creds[v]
                 /\ CredDraft(r, d)
                 /\ \A v \in Users : ~References(d, v)
                 /\ \A q \in Procs \ {p} :
                      Disjoint(d, draft[q]) /\ Disjoint(draft[q], d)
    BY <2>1, <2>2, <2>3, PasswordGone
  <2>5. UserDraft(r, d) /\ SessionDraft(r, d)
    BY <2>2, <2>4, DeletionRow DEF UserDraft, SessionDraft
  <2>6. Gone(r) = Gone(tx[p])
    BY <2>1, <2>2 DEF Gone
  <2>7. ForeignKeys => Keys(r, d)
    BY <2>1, <2>2, <2>4, DeletionRow DEF Keys, Cascading
  <2>8. \A v \in Gone(r) : d.users[v] = "deleted"
    BY <2>4, <2>6, DeletionRow
  <2> QED
    BY <1>0, <2>1, <2>2, <2>4, <2>5, <2>7, <2>8, DeletionRow, DeletionStatement
<1>3. CASE EndCascade(p)
  <2> DEFINE r == [tx[p] EXCEPT !.pc = "pick"]
  <2>1. /\ tx[p].pc = "cascade" /\ tx' = [tx EXCEPT ![p] = r] /\ tx[p].rows = {}
        /\ draft' = IF ForeignKeys THEN WithoutCred(p) ELSE draft
    BY <1>3 DEF EndCascade, Writes, Goto
  <2>2. /\ r.pc = "pick" /\ r.kind = "delete" /\ r.ids = tx[p].ids
        /\ r.user = u /\ r.next = tx[p].next /\ r.sid = tx[p].sid
        /\ r.todo = tx[p].todo
    BY DeletionRow DEF TxRows
  <2>3. SeesCred(p, u).pw # None => CredHolders(p, u) = {}
    <3> DEFINE S == UNION {SessionHolders(p, s) : s \in tx[p].rows}
               T == IF SeesCred(p, u).pw = None THEN {} ELSE CredHolders(p, u)
    <3>1. WaitsFor(p) = T \cup S
      BY <2>1 DEF WaitsFor
    <3>2. SeesCred(p, u).pw # None => T = CredHolders(p, u)
      OBVIOUS
    <3>3. WaitsFor(p) = {}
      BY <1>3 DEF EndCascade
    <3> HIDE DEF S, T, u
    <3>4. T = {}
      BY <3>1, <3>3
    <3> QED
      BY <3>2, <3>4
  <2> HIDE DEF r
  <2>4. Gone(r) = Gone(tx[p])
    BY <2>1, <2>2 DEF Gone
  <2>5. CASE ~ForeignKeys
    <3>1. draft' = [draft EXCEPT ![p] = draft[p]]
      BY <2>1, <2>5, DeletionRow
    <3>2. UserDraft(r, draft[p]) /\ SessionDraft(r, draft[p]) /\ CredDraft(r, draft[p])
      BY <2>2, DeletionRow DEF UserDraft, SessionDraft, CredDraft
    <3>3. /\ \A v \in Gone(r) : draft[p].users[v] = "deleted"
          /\ \A q \in Procs \ {p} :
               Disjoint(draft[p], draft[q]) /\ Disjoint(draft[q], draft[p])
          /\ tx[p].todo \subseteq tx[p].ids
      BY <2>4, DeletionRow
    <3> DEFINE d == draft[p]
    <3> HIDE DEF d
    <3> QED
      BY <1>0, <2>1, <2>2, <2>5, <3>1, <3>2, <3>3, DeletionStatement DEF d
  <2>6. CASE ForeignKeys
    <3>1. PICK d : /\ draft' = [draft EXCEPT ![p] = d]
                   /\ d.users = draft[p].users /\ d.sessions = draft[p].sessions
                   /\ Committed(creds[u], d.creds[u]).pw = None
                   /\ \A v \in Users \ {u} : d.creds[v] = draft[p].creds[v]
                   /\ CredDraft(r, d)
                   /\ \A v \in Users : ~References(d, v)
                   /\ \A q \in Procs \ {p} :
                        Disjoint(d, draft[q]) /\ Disjoint(draft[q], d)
      BY <2>1, <2>2, <2>3, <2>6, PasswordGone
    <3>2. UserDraft(r, d) /\ SessionDraft(r, d)
      BY <2>2, <3>1, DeletionRow DEF UserDraft, SessionDraft
    <3>3. Keys(r, d)
      BY <2>1, <2>2, <2>6, <3>1, DeletionRow DEF Keys, Cascading
    <3>4. \A v \in Gone(r) : d.users[v] = "deleted"
      BY <2>4, <3>1, DeletionRow
    <3> QED
      BY <1>0, <2>1, <2>2, <3>1, <3>2, <3>3, <3>4, DeletionRow, DeletionStatement
  <2> QED
    BY <2>5, <2>6
<1>4. CASE DeleteUserRow(p) /\ ~Rollback(p)
  <2> DEFINE rows == IF ForeignKeys THEN SessionsOf(p, u) ELSE {}
             r == [tx[p] EXCEPT !.pc = "cascade", !.rows = rows]
             d == [draft[p] EXCEPT !.users[u] = "deleted"]
  <2>1. /\ tx[p].pc = "wipeUser" /\ tx' = [tx EXCEPT ![p] = r]
        /\ draft' = [draft EXCEPT ![p] = d] /\ Exists(SeesUser(p, u))
    BY <1>4 DEF DeleteUserRow, Writes
  <2>2. UserHolders(p, u) = {} /\ KeySharers(p, u) = {}
    BY <1>4, <2>1 DEF DeleteUserRow, WaitsFor
  <2>3. /\ r.pc = "cascade" /\ r.kind = "delete" /\ r.ids = tx[p].ids
        /\ r.user = u /\ r.next = tx[p].next /\ r.sid = tx[p].sid
        /\ r.todo = tx[p].todo /\ r.rows = rows
    BY DeletionRow DEF TxRows
  <2>4. /\ d.users = [draft[p].users EXCEPT ![u] = "deleted"]
        /\ d.creds = draft[p].creds /\ d.sessions = draft[p].sessions
        /\ draft[p].users \in [Users -> UserStates \cup {None}]
    BY DeletionRow, DraftWith
  <2>5. \A q \in Procs \ {p} : Disjoint(d, draft[q]) /\ Disjoint(draft[q], d)
    BY <1>0, <2>2, WriteUser DEF UserStates
  <2>6. "deleted" # None /\ ~Exists("deleted") /\ DeletedSession # None
    BY NoneFacts DEF UserStates, Exists, DeletedSession, SessionRows
  <2>7. Exists(users[u])
    BY <1>0, <2>1, <2>6, Reading, DeletionRow DEF Committed
  <2>8. \A s \in Sessions : sessions[s].user = u =>
          Committed(sessions[s], draft[p].sessions[s]) = DeletedSession
          \/ (ForeignKeys => s \in rows)
    BY Reading, <2>6, DeletionRow DEF SessionsOf, Committed
  <2> HIDE DEF r, d, rows
  <2>9. UserDraft(r, d)
    BY <1>0, <2>3, <2>4, <2>7, DeletionRow DEF UserDraft
  <2>10. CredDraft(r, d) /\ SessionDraft(r, d)
    BY <2>3, <2>4, DeletionRow DEF CredDraft, SessionDraft
  <2>11. \A v \in Gone(r) : d.users[v] = "deleted"
    BY <1>0, <2>1, <2>3, <2>4, DeletionRow DEF Gone
  <2>12. ASSUME ForeignKeys
         PROVE  Keys(r, d)
    <3>1. \A v \in Users : ~References(d, v)
      BY <2>4, DeletionRow DEF References
    <3>2. \A v \in Users \ {u} : d.users[v] = draft[p].users[v]
      BY <2>4
    <3>3. Cascading(r, u) /\ \A v \in Users : ~Cascading(tx[p], v)
      BY <2>1, <2>3 DEF Cascading
    <3> QED
      BY <2>3, <2>4, <2>8, <2>12, <3>1, <3>2, <3>3, DeletionRow DEF Keys
  <2> QED
    BY <1>0, <2>1, <2>3, <2>5, <2>9, <2>10, <2>11, <2>12, DeletionRow,
       DeletionStatement
<1> QED
  BY <1>1, <1>2, <1>3, <1>4

LEMMA NextKeeps == Lock /\ [Next]_vars => Lock'
<1> SUFFICES ASSUME Lock, [Next]_vars
             PROVE  Lock'
  OBVIOUS
<1>0. IInv'
  BY StepIInv DEF Lock
<1>1. CASE UNCHANGED vars
  <2>1. /\ \A p \in Procs : Local(tx[p], draft[p])' /\ Claims(tx[p])'
        /\ \A p, q \in Procs : p # q =>
             Apart(tx[p], tx[q])' /\ Disjoint(draft[p], draft[q])'
    BY <1>1, SameTables DEF vars, Lock
  <2>2. RowForm' /\ (ForeignKeys => NoOrphans')
    BY <1>1 DEF vars, Lock, RowForm, Started, NoOrphans
  <2> QED
    BY <1>0, <2>1, <2>2 DEF Lock
<1>2. ASSUME NEW p \in Procs, Begin(p) \/ Advance(p) \/ Fail(p)
      PROVE  Lock'
  <2>1. CASE Begin(p)
    BY <1>0, <2>1, BeginKeeps
  <2>2. CASE Aborts(p)
    BY <1>0, <2>2, EndKeeps DEF Aborts, tables
  <2>3. CASE Commit(p)
    BY <1>0, <2>3, CommitKeeps
  <2>4. CASE Step(p) /\ tx[p].kind # "delete"
    <3>1. ~(GetUserToDelete(p) \/ DeleteSessionsOfNext(p) \/ DeletePassword(p)
            \/ DeleteUserRow(p) \/ EndCascade(p))
      BY <2>4, Course DEF Lock, GetUserToDelete, DeleteSessionsOfNext, DeletePassword,
         DeleteUserRow, EndCascade, Reads, Writes
    <3> QED
      BY <1>0, <2>4, <3>1, ReadsKeep, WritesKeep DEF Step
  <2>5. CASE Step(p) /\ tx[p].kind = "delete"
    <3>1. ~(FindUser(p) \/ AuthenticateUser(p) \/ UpdatePasswordCredentialIfMatch(p)
            \/ RereadUser(p) \/ CreateSession(p) \/ MarkUserLogin(p) \/ CreateUser(p)
            \/ LoginIdentifiers(p) \/ UpsertPasswordCredential(p)
            \/ UpdateUserState(p) \/ CheckUpdated(p) \/ RevokeSessionsForUsers(p))
      BY <2>5, Course DEF Lock, FindUser, AuthenticateUser, Creators,
         UpdatePasswordCredentialIfMatch, RereadUser, CreateSession, MarkUserLogin,
         CreateUser, LoginIdentifiers, UpsertPasswordCredential, UpdateUserState,
         CheckUpdated, RevokeSessionsForUsers, Reads, Writes
    <3> QED
      BY <1>0, <2>5, <3>1, DeletionReads, DeletionSweeps, DeletionWrites DEF Step
  <2> QED
    BY <1>2, <2>1, <2>2, <2>3, <2>4, <2>5 DEF Advance, Fail, Busy, DeadlockVictim
<1> QED
  BY <1>1, <1>2 DEF Next

LEMMA InitLock == Init => Lock
<1> SUFFICES ASSUME Init
             PROVE  Lock
  OBVIOUS
<1>1. IInv
  BY InitTypeOK DEF IInv, Init, Idle, OnCourse, StepsOf, Creators
<1>2. Given(Idle) /\ Claims(Idle) /\ Apart(Idle, Idle)
  BY DEF Given, Claims, Apart, Idle, Creators
<1>3. Local(Idle, Blank)
  BY <1>2, EmptyDraft DEF Idle
<1>4. Disjoint(Blank, Blank)
  BY BlankRow
<1> HIDE DEF Idle, Blank
<1>5. \A p \in Procs : tx[p] = Idle /\ draft[p] = Blank
  BY DEF Init
<1>6. RowForm
  BY DEF Init, RowForm, Started, UnusedSession
<1>7. NoOrphans
  BY NoneFacts DEF Init, NoOrphans, InitialUsers, InitialCreds, UnusedSession, NoCred,
     Exists
<1> QED
  BY <1>1, <1>2, <1>3, <1>4, <1>5, <1>6, <1>7 DEF Lock

LEMMA LockInvariant == Spec => []Lock
  BY InitLock, NextKeeps, PTL DEF Spec

\* With the declared keys in force, deleting an account leaves no session and no
\* password behind, whatever commits between its statements (DeleteUsers, account.go).
THEOREM DeletionLeavesNoOrphans ==
  ASSUME ForeignKeys
  PROVE  Spec => []NoOrphans
<1>1. Lock => NoOrphans
  BY DEF Lock
<1> QED
  BY <1>1, LockInvariant, PTL

\* Only a commit changes the tables.
LEMMA TablesChange ==
  ASSUME [Next]_vars, tables' # tables
  PROVE  \E p \in Procs : Commit(p)
<1>1. Next
  BY DEF vars, tables
<1>2. PICK p \in Procs : Begin(p) \/ Advance(p) \/ Fail(p)
  BY <1>1 DEF Next
<1>3. Begin(p) => UNCHANGED tables
  BY DEF Begin, Login, IssueSession, Authenticate, CreateAccount, Register,
     RegisterAndLogin, ChangePassword, ResetPassword, SetState, RevokeForUsers,
     MarkLogin, DeleteUsers, Open, tables
<1>4. Step(p) => UNCHANGED tables
  BY DEF Step, FindUser, AuthenticateUser, UpdatePasswordCredentialIfMatch,
     RereadUser, CreateSession, MarkUserLogin, CreateUser, LoginIdentifiers,
     UpsertPasswordCredential, UpdateUserState, CheckUpdated,
     RevokeSessionsForUsers, SweepSession, EndSweep, GetUserToDelete,
     DeleteSessionsOfNext, DeletePassword, DeleteUserRow, EndCascade, Reads, Writes,
     tables
<1>5. Aborts(p) => UNCHANGED tables
  BY DEF Aborts
<1> QED
  BY <1>2, <1>3, <1>4, <1>5 DEF Advance, Fail, Busy, DeadlockVictim

\* A password is replaced only by the request that was asked to replace it, never by
\* the hash upgrade of a concurrent login (UpdatePasswordCredentialIfMatch, store.go).
THEOREM PasswordsChangeOnRequest == Spec => OnlyAskedPasswordChanges
<1>1. ASSUME Lock, [Next]_vars, NEW u \in Users, creds'[u].pw # creds[u].pw
      PROVE  \E p \in Procs : /\ tx[p].pc = "commit" /\ u \in tx[p].ids
                              /\ creds'[u].pw = tx[p].next
  <2>1. PICK p \in Procs : Commit(p)
    BY <1>1, TablesChange DEF tables
  <2>2. creds'[u] = Committed(creds[u], draft[p].creds[u]) /\ tx[p].pc = "commit"
    BY <2>1 DEF Commit
  <2>3. CredDraft(tx[p], draft[p])
    BY <1>1 DEF Lock, Local
  <2> QED
    BY <1>1, <2>2, <2>3 DEF CredDraft, Committed
<1>2. Lock /\ [Next]_vars =>
        [\A u \in Users : creds'[u].pw # creds[u].pw =>
           \E p \in Procs : /\ tx[p].pc = "commit"
                            /\ u \in tx[p].ids
                            /\ creds'[u].pw = tx[p].next]_vars
  BY <1>1
<1> QED
  BY <1>2, LockInvariant, PTL DEF Spec, OnlyAskedPasswordChanges

\* A login that was under way when the account was disabled does not enable it again
\* (MarkUserLogin, store.go).
THEOREM LoginsDoNotEnable == Spec => OnlySetStateEnables
<1>1. ASSUME Lock, [Next]_vars, NEW u \in Users, users[u] = "disabled",
             users'[u] = "active"
      PROVE  \E p \in Procs : /\ tx[p].kind = "enable" /\ tx[p].pc = "commit"
                              /\ u \in tx[p].ids
  <2>1. PICK p \in Procs : Commit(p)
    BY <1>1, TablesChange DEF tables
  <2>2. users'[u] = Committed(users[u], draft[p].users[u]) /\ tx[p].pc = "commit"
    BY <2>1 DEF Commit
  <2>3. UserDraft(tx[p], draft[p]) /\ Claims(tx[p]) /\ Given(tx[p])
    BY <1>1 DEF Lock, Local
  <2>4. draft[p].users[u] = "active"
    BY <1>1, <2>2 DEF Committed
  <2>5. "active" # None
    BY NoneFacts DEF UserStates
  <2> QED
    BY <1>1, <2>2, <2>3, <2>4, <2>5 DEF UserDraft, Claims, Given
<1>2. Lock /\ [Next]_vars =>
        [\A u \in Users : users[u] = "disabled" /\ users'[u] = "active" =>
           \E p \in Procs : /\ tx[p].kind = "enable"
                            /\ tx[p].pc = "commit"
                            /\ u \in tx[p].ids]_vars
  BY <1>1
<1> QED
  BY <1>2, LockInvariant, PTL DEF Spec, OnlySetStateEnables

\* SetState and DeleteUsers commit for all of the accounts they were given or for none.
THEOREM BatchesAreWhole == Spec => BatchIsAllOrNothing
<1>1. ASSUME Lock, [Next]_vars, NEW p \in Procs, tx[p].pc = "commit",
             tx'[p].pc = "idle", tables' # tables, NEW u \in tx[p].ids
      PROVE  /\ tx[p].kind = "disable" => users'[u] = "disabled"
             /\ tx[p].kind = "enable" => users'[u] = "active"
             /\ tx[p].kind = "delete" => users'[u] = "deleted"
  <2>1. PICK q \in Procs : Commit(q)
    BY <1>1, TablesChange
  <2>2. q = p
    BY <1>1, <2>1, Shapes DEF Lock, Commit
  <2>3. u \in Users
    BY <1>1, Shapes DEF Lock, TxRows
  <2>4. users'[u] = Committed(users[u], draft[p].users[u])
    BY <2>1, <2>2, <2>3 DEF Commit
  <2>5. /\ UserDraft(tx[p], draft[p]) /\ Batch(tx[p], draft[p]) /\ Given(tx[p])
        /\ "deleted" # None
    BY <1>1, NoneFacts DEF Lock, Local, UserStates
  <2>6. tx[p].kind \in {"enable", "disable"} => draft[p].users[u] # None
    BY <1>1, <2>5 DEF Batch
  <2>7. tx[p].kind = "delete" => draft[p].users[u] = "deleted"
    BY <1>1, <2>5 DEF Batch, Gone, Given
  <2> QED
    BY <2>3, <2>4, <2>5, <2>6, <2>7 DEF UserDraft, Committed, Creators
<1>2. Lock /\ [Next]_vars =>
        [\A p \in Procs :
           tx[p].pc = "commit" /\ tx'[p].pc = "idle" /\ tables' # tables =>
              \A u \in tx[p].ids :
                 /\ tx[p].kind = "disable" => users'[u] = "disabled"
                 /\ tx[p].kind = "enable" => users'[u] = "active"
                 /\ tx[p].kind = "delete" => users'[u] = "deleted"]_vars
  BY <1>1
<1> QED
  BY <1>2, LockInvariant, PTL DEF Spec, BatchIsAllOrNothing

-----------------------------------------------------------------------------
\* What a live transaction has written so far, against the committed rows it is
\* going to replace: nobody else's commit comes between.
Current(w) == [pw |-> w, scheme |-> "current"]

Found(r) ==
    /\ r.kind \in {"login", "issue", "change"} /\ r.pc # "find"
         => users[r.user] = "active"
    /\ r.kind = "reset" /\ r.pc # "find" => Exists(users[r.user])

UsersSoFar(r, d) ==
    /\ r.kind \in {"register", "registerLogin"} /\ r.pc # "create"
         => d.users[r.user] # None
    /\ r.kind = "registerLogin" /\ r.pc \in {"insert", "mark", "commit"}
         => d.users[r.user] = "active"

\* The password that was offered is the one in force.
Verified(r) == creds[r.user].pw = r.offered

BeforeHash(r) ==
    \/ r.kind \in {"login", "auth", "change"} /\ r.pc \in {"find", "verify", "rehash"}
    \/ r.kind = "reset" /\ r.pc \in {"find", "identifiers", "setHash"}
    \/ r.kind \in {"register", "registerLogin"} /\ r.pc \in {"create", "setHash"}
AfterHash(r) ==
    \/ r.kind \in {"change", "reset"} /\ r.pc \in {"revoke", "sweep", "commit"}
    \/ r.kind = "register" /\ r.pc = "commit"
    \/ r.kind = "registerLogin" /\ r.pc \in {"reread", "insert", "mark", "commit"}

CredsSoFar(r, d) ==
    /\ r.kind \in {"login", "auth", "change"} => r.offered \in Passwords
    /\ r.kind \in {"issue", "create", "enable", "disable", "revoke", "markLogin"}
         => \A u \in Users : d.creds[u] = None
    /\ BeforeHash(r) => d.creds[r.user] = None
    /\ r.kind \in {"login", "auth", "change"} /\ r.pc = "rehash"
         => /\ r.seen.pw = r.offered
            /\ r.kind # "auth" => r.seen = creds[r.user]
    /\ r.kind = "login" /\ r.pc \in {"reread", "insert", "mark", "commit"}
         => Verified(r) /\ Committed(creds[r.user], d.creds[r.user]) = Current(r.offered)
    /\ r.kind = "auth" /\ r.pc = "commit" /\ d.creds[r.user] # None
         => Verified(r) /\ d.creds[r.user] = Current(r.offered)
    /\ r.kind = "change" /\ r.pc \notin {"find", "verify", "rehash"} => Verified(r)
    /\ AfterHash(r) => d.creds[r.user] = Current(r.next)
    /\ r.kind = "delete" => \A u \in Users : d.creds[u] \in {None, NoCred}

Revokers == {"change", "reset", "disable", "revoke"}
LiveOf(ids) == {s \in Sessions : sessions[s].state = "live" /\ sessions[s].user \in ids}

SessionsSoFar(r, d) ==
    /\ r.kind = "issue" => r.offered = None
    /\ r.kind \in {"login", "issue", "registerLogin"} /\ r.pc \in {"mark", "commit"}
         => d.sessions[r.sid] =
              [state |-> "live", user |-> r.user,
               via |-> IF r.kind = "registerLogin" THEN r.next ELSE r.offered]
    /\ r.kind \in Revokers =>
         /\ \A s \in Sessions : d.sessions[s] # None =>
               /\ r.pc \in {"sweep", "commit"} /\ s \in LiveOf(r.ids)
               /\ d.sessions[s] = [sessions[s] EXCEPT !.state = "revoked"]
         /\ r.pc = "sweep" => r.rows \subseteq LiveOf(r.ids)
         /\ r.pc \in {"sweep", "commit"} => \A s \in LiveOf(r.ids) :
               d.sessions[s] # None \/ (r.pc = "sweep" /\ s \in r.rows)

\* The accounts whose sessions, and whose password, a deletion is done with.
SweptOf(r) == IF r.pc = "find" THEN {} ELSE r.ids \ r.todo
WipedOf(r) == IF r.pc \in {"sweep", "wipeCred"} THEN SweptOf(r) \ {r.user}
              ELSE SweptOf(r)

DeletedSoFar(r, d) ==
    r.kind = "delete" =>
      /\ \A s \in Sessions : d.sessions[s] # None => sessions[s].user \in r.ids
      /\ r.pc \in {"sweep", "cascade"} =>
           \A s \in r.rows : sessions[s].user \in r.ids
      /\ \A s \in Sessions : sessions[s].user \in SweptOf(r) =>
           d.sessions[s] = DeletedSession \/ (r.pc = "sweep" /\ s \in r.rows)
      /\ \A u \in WipedOf(r) : Committed(creds[u], d.creds[u]) = NoCred

Progress(r, d) ==
    /\ Found(r) /\ UsersSoFar(r, d) /\ CredsSoFar(r, d)
    /\ SessionsSoFar(r, d) /\ DeletedSoFar(r, d)

CredForm == \A u \in Users : creds[u].pw = None => creds[u] = NoCred

Serial ==
    /\ CredForm
    /\ \A p, q \in Procs : p # q => ~(Wrote(p) /\ Wrote(q))
    /\ \A p \in stale : tx[p].kind \notin Autocommitted \cup {"idle"}
    /\ \A p \in Procs \ stale : Progress(tx[p], draft[p])

LEMMA SameProgress ==
  ASSUME UNCHANGED <<users, creds, sessions>>, NEW q \in Procs,
         Progress(tx'[q], draft'[q])
  PROVE  Progress(tx[q], draft[q])'
<1>1. Found(tx[q])' /\ UsersSoFar(tx[q], draft[q])'
  BY DEF Progress, Found, UsersSoFar
<1>2. CredsSoFar(tx[q], draft[q])'
  BY DEF Progress, CredsSoFar, Verified
<1>3. LiveOf(tx[q].ids)' = LiveOf(tx'[q].ids)
  BY DEF LiveOf
<1>4. SessionsSoFar(tx[q], draft[q])'
  BY <1>3 DEF Progress, SessionsSoFar
<1>5. DeletedSoFar(tx[q], draft[q])'
  BY DEF Progress, DeletedSoFar, SweptOf, WipedOf
<1> QED
  BY <1>1, <1>2, <1>4, <1>5 DEF Progress

\* The statements of p; the others keep what they have in hand.
LEMMA SerialStatement ==
  ASSUME IInv, Serial, NEW p \in Procs,
         UNCHANGED <<users, creds, sessions>>, stale' \in {stale, stale \ {p}},
         NEW r, tx' = [tx EXCEPT ![p] = r], NEW d, draft' = [draft EXCEPT ![p] = d],
         d \in {draft[p], Blank} \/ Writers(p) = {},
         p \in stale' => r.kind \notin Autocommitted \cup {"idle"},
         Progress(r, d)
  PROVE  Serial'
<1>1. /\ tx'[p] = r /\ draft'[p] = d
      /\ \A q \in Procs \ {p} : tx'[q] = tx[q] /\ draft'[q] = draft[q]
  BY Shapes
<1>2. \A q \in Procs : Wrote(q)' <=> draft'[q] # Blank
  BY DEF Wrote, Blank
<1>3. \A q, o \in Procs : q # o => ~(Wrote(q)' /\ Wrote(o)')
  <2>1. \A q \in Procs \ {p} : Wrote(q)' <=> Wrote(q)
    BY <1>1, <1>2 DEF Wrote
  <2>2. Wrote(p)' => Wrote(p) \/ Writers(p) = {}
    BY <1>1, <1>2 DEF Wrote
  <2> QED
    BY <2>1, <2>2 DEF Serial, Writers
<1>4. \A q \in Procs \ stale' : Progress(tx[q], draft[q])'
  <2>1. ASSUME NEW q \in Procs, q \notin stale'
        PROVE  Progress(tx'[q], draft'[q])
    <3>1. CASE q # p
      <4>1. q \notin stale
        BY <2>1, <3>1
      <4> QED
        BY <1>1, <3>1, <4>1 DEF Serial
    <3> QED
      BY <1>1, <3>1
  <2> QED
    BY <2>1, SameProgress
<1>5. CredForm' /\ \A q \in stale' : tx'[q].kind \notin Autocommitted \cup {"idle"}
  BY <1>1 DEF Serial, CredForm, IInv, TypeOK
<1> QED
  BY <1>3, <1>4, <1>5 DEF Serial

LEMMA SerialInit == Init => Serial
<1> SUFFICES ASSUME Init
             PROVE  Serial
  OBVIOUS
<1>1. Progress(Idle, Blank)
  BY DEF Progress, Found, UsersSoFar, CredsSoFar, BeforeHash, AfterHash,
     SessionsSoFar, DeletedSoFar, Idle, Revokers
<1>2. CredForm
  BY NoneFacts DEF Init, CredForm, InitialCreds
<1>3. \A p \in Procs : tx[p] = Idle /\ draft[p] = Blank
  BY DEF Init
<1>4. stale = {}
  BY DEF Init
<1> HIDE DEF Idle, Blank
<1> QED
  BY <1>1, <1>2, <1>3, <1>4 DEF Serial, Wrote

LEMMA SerialEnd ==
  ASSUME IInv, Serial, NEW p \in Procs, Rollback(p),
         UNCHANGED <<users, creds, sessions>>,
         \/ stale' = stale \ {p}
         \/ p \notin stale /\ UNCHANGED stale
  PROVE  Serial'
<1>1. Progress(Idle, Blank)
  BY DEF Progress, Found, UsersSoFar, CredsSoFar, BeforeHash, AfterHash,
     SessionsSoFar, DeletedSoFar, Idle, Revokers
<1>2. p \notin stale' /\ stale' \in {stale, stale \ {p}}
  OBVIOUS
<1>3. tx' = [tx EXCEPT ![p] = Idle] /\ draft' = [draft EXCEPT ![p] = Blank]
  BY DEF Rollback
<1> HIDE DEF Idle, Blank
<1> QED
  BY <1>1, <1>2, <1>3, SerialStatement

LEMMA SerialOpen ==
  ASSUME Lock, Serial, NEW p \in Procs, NEW r, Open(p, r), Progress(r, Blank)
  PROVE  Serial'
<1>1. draft[p] = Blank /\ draft = [draft EXCEPT ![p] = Blank] /\ IInv
  BY Shapes DEF Lock, Local, Fresh, Open
<1>2. tx[p].kind = "idle"
  <2>1. OnCourse(tx[p]) /\ tx[p].kind \in Kinds /\ tx[p].pc = "idle"
    BY Shapes DEF Lock, Open, TxRows
  <2> QED
    BY <2>1 DEF OnCourse, StepsOf, Kinds
<1>3. p \notin stale
  BY <1>2 DEF Serial
<1> HIDE DEF Blank
<1> QED
  BY <1>1, <1>3, SerialStatement DEF Open

LEMMA SerialBegin ==
  ASSUME Lock, Serial, NEW p \in Procs, Begin(p)
  PROVE  Serial'
<1>0. /\ \A u \in Users : Blank.users[u] = None /\ Blank.creds[u] = None
      /\ \A s \in Sessions : Blank.sessions[s] = None
  BY BlankRow
<1>1. ASSUME NEW r, Open(p, r), r.pc \in {"find", "create", "setState", "revoke", "mark"},
             r.kind = "issue" => r.offered = None,
             r.kind \in {"login", "auth", "change"} => r.offered \in Passwords,
             \/ r.kind \in {"login", "issue", "auth", "change", "reset", "delete"}
                /\ r.pc = "find"
             \/ r.kind \in Creators /\ r.pc = "create"
             \/ r.kind \in {"enable", "disable"} /\ r.pc = "setState"
             \/ r.kind = "revoke" /\ r.pc = "revoke"
             \/ r.kind = "markLogin" /\ r.pc = "mark",
             r.kind \in {"login", "issue", "auth", "change", "reset"} \cup Creators
               => r.user \in Users
      PROVE  Serial'
  <2> HIDE DEF Blank
  <2>1. Found(r) /\ UsersSoFar(r, Blank)
    BY <1>1 DEF Found, UsersSoFar, Creators
  <2>2. CredsSoFar(r, Blank)
    BY <1>0, <1>1 DEF CredsSoFar, BeforeHash, AfterHash, Creators
  <2>3. SessionsSoFar(r, Blank)
    BY <1>0, <1>1 DEF SessionsSoFar, Creators, Revokers
  <2>4. DeletedSoFar(r, Blank)
    BY <1>0, <1>1 DEF DeletedSoFar, SweptOf, WipedOf, Creators
  <2> QED
    BY <1>1, <2>1, <2>2, <2>3, <2>4, SerialOpen DEF Progress
<1> USE <1>1 DEF Idle, Creators
<1>2. CASE Login(p)
  BY <1>2 DEF Login
<1>3. CASE IssueSession(p)
  BY <1>3 DEF IssueSession
<1>4. CASE Authenticate(p)
  BY <1>4 DEF Authenticate
<1>5. CASE CreateAccount(p)
  BY <1>5 DEF CreateAccount, UnclaimedUsers
<1>6. CASE Register(p)
  BY <1>6 DEF Register, UnclaimedUsers
<1>7. CASE RegisterAndLogin(p)
  BY <1>7 DEF RegisterAndLogin, UnclaimedUsers
<1>8. CASE ChangePassword(p)
  BY <1>8 DEF ChangePassword
<1>9. CASE ResetPassword(p)
  BY <1>9 DEF ResetPassword
<1>10. CASE SetState(p)
  <2>1. PICK ids \in (SUBSET Users) \ {{}}, kind \in {"enable", "disable"} :
          Open(p, [Idle EXCEPT !.kind = kind, !.pc = "setState", !.ids = ids,
                               !.todo = ids])
    BY <1>10 DEF SetState
  <2> QED
    BY <2>1
<1>11. CASE RevokeForUsers(p)
  BY <1>11 DEF RevokeForUsers
<1>12. CASE MarkLogin(p)
  BY <1>12 DEF MarkLogin
<1>13. CASE DeleteUsers(p)
  BY <1>13 DEF DeleteUsers
<1> QED
  BY <1>2, <1>3, <1>4, <1>5, <1>6, <1>7, <1>8, <1>9, <1>10, <1>11, <1>12, <1>13 DEF Begin

LEMMA SerialCommit ==
  ASSUME Isolation = "Serializable", Lock, Serial, NEW p \in Procs, Commit(p)
  PROVE  Serial'
<1> DEFINE e == draft[p]
<1>0. /\ users \in [Users -> UserStates] /\ creds \in [Users -> CredRows]
      /\ sessions \in [Sessions -> SessionRows]
      /\ e \in Drafts /\ OnCourse(tx[p]) /\ tx[p] \in TxRows
      /\ Local(tx[p], e) /\ Progress(tx[p], e) /\ tx[p].pc = "commit"
  BY Shapes DEF Lock, Commit, Serial
<1>1. /\ tx'[p] = Idle /\ draft'[p] = Blank
      /\ \A q \in Procs \ {p} : tx'[q] = tx[q] /\ draft'[q] = draft[q]
      /\ users' = [u \in Users |-> Committed(users[u], e.users[u])]
      /\ creds' = [u \in Users |-> Committed(creds[u], e.creds[u])]
      /\ sessions' = [s \in Sessions |-> Committed(sessions[s], e.sessions[s])]
  BY Shapes DEF Lock, Commit
<1>2. stale' = IF Wrote(p) THEN {q \in Procs \ {p} :
                                   tx[q].kind \notin Autocommitted \cup {"idle"}}
               ELSE stale
  BY DEF Commit
<1>3. \A q \in stale' : tx'[q].kind \notin Autocommitted \cup {"idle"}
  <2>1. p \notin stale'
    BY <1>2 DEF Commit
  <2> QED
    BY <1>1, <1>2, <2>1 DEF Serial, IInv, TypeOK, Lock
<1>4. \A q, o \in Procs : q # o => ~(Wrote(q)' /\ Wrote(o)')
  <2>1. \A q \in Procs : Wrote(q)' <=> draft'[q] # Blank
    BY DEF Wrote, Blank
  <2> HIDE DEF Blank
  <2> QED
    BY <1>1, <2>1 DEF Serial, Wrote
<1>5. CredForm'
  <2> SUFFICES ASSUME NEW u \in Users, e.creds[u] # None, e.creds[u].pw = None
               PROVE  e.creds[u] = NoCred
    BY <1>1 DEF Serial, CredForm, Committed
  <2>1. u \in tx[p].ids
    BY <1>0 DEF Local, CredDraft
  <2>2. CredsSoFar(tx[p], e)
    BY <1>0 DEF Progress
  <2>3. \A w : Current(w).pw = w
    BY DEF Current
  <2>4. tx[p].kind \in {"login", "auth", "change", "reset", "register", "registerLogin"}
          => u = tx[p].user
    BY <1>0, <2>1 DEF Local, Given, Creators
  <2>5. CASE tx[p].kind = "delete"
    BY <2>2, <2>5 DEF CredsSoFar, BeforeHash, AfterHash
  <2>6. CASE tx[p].kind \in {"login", "auth"}
    BY <1>0, <2>2, <2>3, <2>4, <2>6, NoneFacts DEF CredsSoFar, BeforeHash, AfterHash, Committed
  <2>7. CASE tx[p].kind \in {"change", "reset", "register", "registerLogin"}
    <3>0. tx[p].pc = "commit"
      BY <1>0
    <3>1. e.creds[tx[p].user] = Current(tx[p].next)
      BY <2>2, <2>7, <3>0 DEF CredsSoFar, BeforeHash, AfterHash
    <3>2. tx[p].next \in Passwords
      BY <1>0, <2>7 DEF OnCourse
    <3> QED
      BY <2>3, <2>4, <2>7, <3>1, <3>2, NoneFacts
  <2>8. CASE tx[p].kind \in {"issue", "create", "enable", "disable", "revoke", "markLogin"}
    BY <2>2, <2>8 DEF CredsSoFar, BeforeHash, AfterHash
  <2>9. tx[p].kind # "idle"
    BY <1>0 DEF OnCourse, StepsOf
  <2> QED
    BY <1>0, <2>5, <2>6, <2>7, <2>8, <2>9 DEF TxRows, Kinds
<1>6. ASSUME NEW q \in Procs, q \notin stale'
      PROVE  Progress(tx[q], draft[q])'
  <2>1. CASE q = p
    <3>1. Progress(Idle, Blank)'
      BY DEF Progress, Found, UsersSoFar, CredsSoFar, BeforeHash, AfterHash,
         SessionsSoFar, DeletedSoFar, Idle, Revokers
    <3> HIDE DEF Idle, Blank
    <3>2. (tx[p])' = Idle /\ (draft[p])' = Blank
      BY <1>1
    <3> QED
      BY <2>1, <3>1, <3>2 DEF Progress, Found, UsersSoFar, CredsSoFar, SessionsSoFar,
         DeletedSoFar, SweptOf, WipedOf, Verified, LiveOf
  <2>2. CASE q # p /\ ~Wrote(p)
    <3>1. Progress(tx'[q], draft'[q])
      BY <1>1, <1>2, <1>6, <2>2 DEF Serial
    <3>2. UNCHANGED <<users, creds, sessions>>
      BY <1>0, <1>1, <2>2, BlankRow DEF Wrote, Committed
    <3> QED
      BY <3>1, <3>2, SameProgress
  <2>3. CASE q # p /\ Wrote(p)
    <3>1. tx[q].kind \in Autocommitted \cup {"idle"} /\ q \notin stale
      BY <1>2, <1>6, <2>3 DEF Serial
    <3>2. draft[q] = Blank /\ Progress(tx[q], draft[q])
      BY <2>3, <3>1 DEF Serial, Wrote
    <3>3. /\ \A u \in Users : draft[q].users[u] = None /\ draft[q].creds[u] = None
          /\ \A s \in Sessions : draft[q].sessions[s] = None
          /\ (tx[q])' = tx[q] /\ (draft[q])' = draft[q]
      BY <1>1, <2>3, <3>2, BlankRow
    <3>4. tx[q].kind \in {"auth", "create"} => tx[q].user \in Users
      BY Shapes DEF Lock, OnCourse, Creators
    <3>5. CredsSoFar(tx[q], draft[q])'
      BY <3>1, <3>2, <3>3, <3>4 DEF Progress, CredsSoFar, Autocommitted, Creators
    <3>6. Found(tx[q])' /\ UsersSoFar(tx[q], draft[q])' /\ DeletedSoFar(tx[q], draft[q])'
          /\ SessionsSoFar(tx[q], draft[q])'
      BY <3>1, <3>3 DEF Found, UsersSoFar, DeletedSoFar, SessionsSoFar, Autocommitted,
         Revokers
    <3> QED
      BY <3>5, <3>6 DEF Progress
  <2> QED
    BY <2>1, <2>2, <2>3
<1> QED
  BY <1>3, <1>4, <1>5, <1>6 DEF Serial

\* What a transaction that is up to date has in hand.
LEMMA InHand ==
  ASSUME Lock, Serial, NEW p \in Procs, p \notin stale
  PROVE  /\ users \in [Users -> UserStates] /\ creds \in [Users -> CredRows]
         /\ sessions \in [Sessions -> SessionRows]
         /\ tx \in [Procs -> TxRows] /\ draft \in [Procs -> Drafts]
         /\ tx[p] \in TxRows /\ draft[p] \in Drafts /\ OnCourse(tx[p])
         /\ Found(tx[p]) /\ UsersSoFar(tx[p], draft[p])
         /\ CredsSoFar(tx[p], draft[p]) /\ SessionsSoFar(tx[p], draft[p])
         /\ DeletedSoFar(tx[p], draft[p])
         /\ Local(tx[p], draft[p]) /\ RowForm /\ CredForm
  BY Shapes DEF Lock, Serial, Progress

\* The statement replaces what p has in hand by r and d.
LEMMA SerialStep ==
  ASSUME Isolation = "Serializable", Lock, Serial, NEW p \in Procs, NEW r, NEW d,
         \/ \E step : Reads(p, step) /\ d = draft[p]
         \/ \E step : Writes(p, step),
         tx' = [tx EXCEPT ![p] = r], draft' = [draft EXCEPT ![p] = d],
         Found(r), UsersSoFar(r, d), CredsSoFar(r, d), SessionsSoFar(r, d),
         DeletedSoFar(r, d)
  PROVE  Serial'
<1>1. /\ p \notin stale /\ UNCHANGED <<users, creds, sessions>> /\ stale' = stale
      /\ d = draft[p] \/ Writers(p) = {}
  BY DEF Reads, Writes
<1>2. IInv /\ Progress(r, d)
  BY DEF Lock, Progress
<1> QED
  BY <1>1, <1>2, SerialStatement

\* Requests that do not set the state of accounts read it as it is in the table.
LEMMA SeenState ==
  ASSUME Lock, NEW p \in Procs, NEW u \in Users,
         tx[p].kind \in {"login", "issue", "auth", "change", "reset", "markLogin"}
  PROVE  SeesUser(p, u) = users[u]
<1>1. UserDraft(tx[p], draft[p])
  BY DEF Lock, Local
<1> QED
  BY <1>1 DEF UserDraft, SeesUser, Creators

LEMMA MoveRow ==
  ASSUME NEW q \in TxRows, NEW step, NEW r, r = [q EXCEPT !.pc = step]
  PROVE  /\ r.kind = q.kind /\ r.ids = q.ids /\ r.next = q.next /\ r.sid = q.sid
         /\ r.user = q.user /\ r.offered = q.offered /\ r.todo = q.todo
         /\ r.seen = q.seen /\ r.rows = q.rows /\ r.pc = step
  BY DEF TxRows

LEMMA SerialReads ==
  ASSUME Isolation = "Serializable", Lock, Serial, NEW p \in Procs,
         tx[p].kind # "delete", ~Rollback(p),
         \/ FindUser(p) \/ AuthenticateUser(p) \/ RereadUser(p) \/ LoginIdentifiers(p)
         \/ CheckUpdated(p) \/ RevokeSessionsForUsers(p) \/ EndSweep(p)
  PROVE  Serial'
<1> DEFINE q == tx[p]
           d == draft[p]
           u == tx[p].user
<1>1. \E step : Reads(p, step)
  BY DEF FindUser, AuthenticateUser, RereadUser, LoginIdentifiers, CheckUpdated,
     RevokeSessionsForUsers, EndSweep
<1>2. p \notin stale /\ UNCHANGED draft
  BY <1>1 DEF Reads, FindUser, AuthenticateUser, RereadUser, LoginIdentifiers,
     CheckUpdated, RevokeSessionsForUsers, EndSweep
<1>3. /\ Found(q) /\ UsersSoFar(q, d) /\ CredsSoFar(q, d) /\ SessionsSoFar(q, d)
      /\ q \in TxRows /\ creds \in [Users -> CredRows] /\ draft' = [draft EXCEPT ![p] = d]
      /\ OnCourse(q) /\ q.kind # "delete"
  BY <1>2, InHand
<1>4. ASSUME NEW r, tx' = [tx EXCEPT ![p] = r], r.kind # "delete", Found(r),
             UsersSoFar(r, d), CredsSoFar(r, d), SessionsSoFar(r, d)
      PROVE  Serial'
  BY <1>1, <1>3, <1>4, SerialStep DEF DeletedSoFar
<1> HIDE DEF d
<1>5. CASE FindUser(p)
  <2> DEFINE step == CASE q.kind \in {"login", "auth", "change"} -> "verify"
                       [] q.kind = "issue" -> "reread"
                       [] q.kind = "reset" -> "identifiers"
             r == [q EXCEPT !.pc = step]
  <2>1. /\ q.kind \in {"login", "auth", "change", "issue", "reset"} /\ q.pc = "find"
        /\ u \in Users
    BY <1>5, Course DEF Lock, FindUser, Reads
  <2>2. /\ tx' = [tx EXCEPT ![p] = r]
        /\ SeesUser(p, u) = "active" \/ (q.kind = "reset" /\ Exists(SeesUser(p, u)))
    BY <1>5 DEF FindUser, Goto
  <2>3. /\ q.kind \in {"login", "auth", "change"} => step = "verify"
        /\ q.kind = "issue" => step = "reread"
        /\ q.kind = "reset" => step = "identifiers"
    BY <2>1
  <2> HIDE DEF step
  <2>4. /\ r.kind = q.kind /\ r.ids = q.ids /\ r.next = q.next /\ r.sid = q.sid
        /\ r.user = q.user /\ r.offered = q.offered /\ r.pc = step
    BY <1>3, MoveRow
  <2>5. SeesUser(p, u) = users[u]
    BY <2>1, SeenState
  <2> HIDE DEF r, q
  <2>6. Found(r)
    BY <2>1, <2>2, <2>4, <2>5 DEF Found, Exists, q
  <2>7. UsersSoFar(r, d)
    BY <2>1, <2>4 DEF UsersSoFar
  <2>8. CredsSoFar(r, d)
    BY <1>3, <2>1, <2>3, <2>4 DEF CredsSoFar, BeforeHash, AfterHash, Verified
  <2>9. SessionsSoFar(r, d)
    BY <1>3, <2>1, <2>3, <2>4 DEF SessionsSoFar, Revokers
  <2> QED
    BY <1>3, <1>4, <2>1, <2>2, <2>4, <2>6, <2>7, <2>8, <2>9
<1>6. CASE AuthenticateUser(p)
  <2> DEFINE c == SeesCred(p, u)
             step == IF c.scheme = "retired" THEN "rehash" ELSE AfterVerify(q.kind)
             r == [q EXCEPT !.seen = c, !.pc = step]
  <2>1. /\ q.kind \in {"login", "auth", "change"} /\ q.pc = "verify" /\ u \in Users
        /\ u = q.user
    BY <1>6, Course DEF Lock, AuthenticateUser, Reads
  <2>2. tx' = [tx EXCEPT ![p] = r] /\ c.pw = q.offered
    BY <1>6 DEF AuthenticateUser
  <2>3. /\ r.kind = q.kind /\ r.ids = q.ids /\ r.next = q.next /\ r.sid = q.sid
        /\ r.user = q.user /\ r.offered = q.offered /\ r.pc = step /\ r.seen = c
    BY <1>3 DEF TxRows
  <2>4. d.creds[u] = None
    BY <1>3, <2>1 DEF CredsSoFar, BeforeHash
  <2>5. c = creds[u]
    BY <2>4 DEF SeesCred, d
  <2>6. c \in CredRows
    BY <1>3, <2>1, <2>5
  <2>7. c.scheme # "retired" => c = Current(q.offered)
    BY <2>2, <2>6 DEF CredRows, Current
  <2>8. \/ step = "rehash"
        \/ c.scheme # "retired" /\ q.kind = "login" /\ step = "reread"
        \/ c.scheme # "retired" /\ q.kind = "change" /\ step = "identifiers"
        \/ c.scheme # "retired" /\ q.kind = "auth" /\ step = "commit"
    BY <2>1 DEF AfterVerify
  <2> HIDE DEF c, r, step, q, u
  <2>9. Found(r)
    BY <1>3, <2>1, <2>3 DEF Found
  <2>10. UsersSoFar(r, d)
    BY <2>1, <2>3 DEF UsersSoFar
  <2>11. CredsSoFar(r, d)
    BY <1>3, <2>1, <2>2, <2>3, <2>4, <2>5, <2>7, <2>8
       DEF CredsSoFar, BeforeHash, AfterHash, Verified, Committed
  <2>12. SessionsSoFar(r, d)
    BY <1>3, <2>1, <2>3, <2>8 DEF SessionsSoFar, Revokers
  <2> QED
    BY <1>3, <1>4, <2>2, <2>3, <2>9, <2>10, <2>11, <2>12
<1>7. CASE RereadUser(p)
  <2> DEFINE r == [q EXCEPT !.pc = "insert"]
  <2>1. /\ q.kind \in {"login", "issue", "registerLogin"} /\ q.pc = "reread"
        /\ u \in Users /\ u = q.user
    BY <1>7, Course DEF Lock, RereadUser, Reads
  <2>2. tx' = [tx EXCEPT ![p] = r] /\ SeesUser(p, u) = "active"
    BY <1>7 DEF RereadUser, Goto
  <2>3. /\ r.kind = q.kind /\ r.ids = q.ids /\ r.next = q.next /\ r.sid = q.sid
        /\ r.user = q.user /\ r.offered = q.offered /\ r.pc = "insert"
    BY <1>3, MoveRow
  <2> HIDE DEF r, q, u
  <2>4. Found(r)
    BY <1>3, <2>1, <2>3 DEF Found
  <2>5. UsersSoFar(r, d)
    BY <1>3, <2>1, <2>2, <2>3 DEF UsersSoFar, SeesUser, d
  <2>6. CredsSoFar(r, d)
    BY <1>3, <2>1, <2>3 DEF CredsSoFar, BeforeHash, AfterHash, Verified
  <2>7. SessionsSoFar(r, d)
    BY <1>3, <2>1, <2>3 DEF SessionsSoFar, Revokers
  <2> QED
    BY <1>3, <1>4, <2>2, <2>3, <2>4, <2>5, <2>6, <2>7
<1>8. CASE LoginIdentifiers(p)
  <2> DEFINE r == [q EXCEPT !.pc = "setHash"]
  <2>1. /\ q.kind \in {"change", "reset"} /\ q.pc = "identifiers"
        /\ tx' = [tx EXCEPT ![p] = r]
    BY <1>8, Course DEF Lock, LoginIdentifiers, Reads, Goto
  <2>3. /\ r.kind = q.kind /\ r.ids = q.ids /\ r.next = q.next /\ r.sid = q.sid
        /\ r.user = q.user /\ r.offered = q.offered /\ r.pc = "setHash"
    BY <1>3, MoveRow
  <2> HIDE DEF r, q, u
  <2>4. Found(r) /\ UsersSoFar(r, d)
    BY <1>3, <2>1, <2>3 DEF Found, UsersSoFar
  <2>6. CredsSoFar(r, d)
    BY <1>3, <2>1, <2>3 DEF CredsSoFar, BeforeHash, AfterHash, Verified
  <2>7. SessionsSoFar(r, d)
    BY <1>3, <2>1, <2>3 DEF SessionsSoFar, Revokers
  <2> QED
    BY <1>3, <1>4, <2>1, <2>3, <2>4, <2>6, <2>7
<1>9. CASE CheckUpdated(p)
  <2> DEFINE step == IF q.kind = "disable" THEN "revoke" ELSE "commit"
             r == [q EXCEPT !.pc = step]
  <2>1. /\ q.kind \in {"enable", "disable"} /\ q.pc = "setState"
        /\ tx' = [tx EXCEPT ![p] = r]
    BY <1>9, Course DEF Lock, CheckUpdated, Reads, Goto
  <2>3. /\ r.kind = q.kind /\ r.ids = q.ids /\ r.next = q.next /\ r.sid = q.sid
        /\ r.user = q.user /\ r.offered = q.offered /\ r.pc = step
    BY <1>3, MoveRow
  <2> HIDE DEF r, q, u
  <2>4. Found(r) /\ UsersSoFar(r, d)
    BY <1>3, <2>1, <2>3 DEF Found, UsersSoFar
  <2>6. CredsSoFar(r, d)
    BY <1>3, <2>1, <2>3 DEF CredsSoFar, BeforeHash, AfterHash, Verified
  <2>7. SessionsSoFar(r, d)
    BY <1>3, <2>1, <2>3 DEF SessionsSoFar, Revokers
  <2> QED
    BY <1>3, <1>4, <2>1, <2>3, <2>4, <2>6, <2>7
<1>10. CASE RevokeSessionsForUsers(p)
  <2> DEFINE found == {s \in Sessions : /\ SeesSession(p, s).state = "live"
                                        /\ SeesSession(p, s).user \in q.ids}
             r == [q EXCEPT !.pc = "sweep", !.rows = found]
  <2>1. /\ q.kind \in Revokers /\ q.pc = "revoke" /\ tx' = [tx EXCEPT ![p] = r]
    BY <1>3, <1>10, Course DEF Lock, RevokeSessionsForUsers, Reads, Revokers
  <2>2. \A s \in Sessions : d.sessions[s] = None
    BY <1>3, <2>1 DEF SessionsSoFar
  <2>3. found = LiveOf(q.ids)
    BY <2>2 DEF LiveOf, SeesSession, d
  <2>4. /\ r.kind = q.kind /\ r.ids = q.ids /\ r.next = q.next /\ r.sid = q.sid
        /\ r.user = q.user /\ r.offered = q.offered /\ r.pc = "sweep"
        /\ r.rows = found
    BY <1>3 DEF TxRows
  <2> HIDE DEF r, q, u, found
  <2>5. Found(r) /\ UsersSoFar(r, d)
    BY <1>3, <2>1, <2>4 DEF Found, UsersSoFar, Revokers
  <2>6. AfterHash(r) => d.creds[r.user] = Current(r.next)
    <3>1. AfterHash(r) => q.kind \in {"change", "reset"} /\ AfterHash(q)
      BY <2>1, <2>4 DEF AfterHash, Revokers
    <3> QED
      BY <1>3, <2>4, <3>1 DEF CredsSoFar
  <2>7. CredsSoFar(r, d)
    BY <1>3, <2>1, <2>4, <2>6 DEF CredsSoFar, BeforeHash, Verified, Revokers
  <2>8. SessionsSoFar(r, d)
    BY <1>3, <2>1, <2>2, <2>3, <2>4 DEF SessionsSoFar, Revokers
  <2> QED
    BY <1>3, <1>4, <2>1, <2>4, <2>5, <2>7, <2>8
<1>11. CASE EndSweep(p)
  <2> DEFINE r == [q EXCEPT !.pc = "commit"]
  <2>1. /\ q.kind \in Revokers /\ q.pc = "sweep" /\ q.rows = {}
        /\ tx' = [tx EXCEPT ![p] = r]
    BY <1>3, <1>11, Course DEF Lock, EndSweep, Reads, Goto, Revokers
  <2>3. /\ r.kind = q.kind /\ r.ids = q.ids /\ r.next = q.next /\ r.sid = q.sid
        /\ r.user = q.user /\ r.offered = q.offered /\ r.pc = "commit"
    BY <1>3, MoveRow
  <2> HIDE DEF r, q, u
  <2>4. Found(r) /\ UsersSoFar(r, d)
    BY <1>3, <2>1, <2>3 DEF Found, UsersSoFar, Revokers
  <2>5. AfterHash(r) => AfterHash(q)
    BY <2>1, <2>3 DEF AfterHash, Revokers
  <2>6. CredsSoFar(r, d)
    BY <1>3, <2>1, <2>3, <2>5 DEF CredsSoFar, BeforeHash, Verified, Revokers
  <2>7. SessionsSoFar(r, d)
    BY <1>3, <2>1, <2>3 DEF SessionsSoFar, Revokers
  <2> QED
    BY <1>3, <1>4, <2>1, <2>3, <2>4, <2>6, <2>7
<1> QED
  BY <1>5, <1>6, <1>7, <1>8, <1>9, <1>10, <1>11

LEMMA SerialWrites ==
  ASSUME Isolation = "Serializable", Lock, Serial, NEW p \in Procs,
         tx[p].kind # "delete", ~Rollback(p),
         \/ UpdatePasswordCredentialIfMatch(p) \/ CreateSession(p) \/ MarkUserLogin(p)
         \/ CreateUser(p) \/ UpsertPasswordCredential(p)
         \/ UpdateUserState(p) \/ SweepSession(p)
  PROVE  Serial'
<1> DEFINE q == tx[p]
           e == draft[p]
           u == tx[p].user
<1>1. \E step : Writes(p, step)
  BY DEF UpdatePasswordCredentialIfMatch, CreateSession, MarkUserLogin, CreateUser,
     UpsertPasswordCredential, UpdateUserState, SweepSession
<1>2. p \notin stale
  BY <1>1 DEF Writes
<1>3. /\ Found(q) /\ UsersSoFar(q, e) /\ CredsSoFar(q, e) /\ SessionsSoFar(q, e)
      /\ q \in TxRows /\ creds \in [Users -> CredRows] /\ e \in Drafts
      /\ draft \in [Procs -> Drafts] /\ OnCourse(q) /\ q.kind # "delete"
  BY <1>2, InHand
<1>4. ASSUME NEW r, tx' = [tx EXCEPT ![p] = r], r.kind # "delete",
             NEW d, draft' = [draft EXCEPT ![p] = d], Found(r),
             UsersSoFar(r, d), CredsSoFar(r, d), SessionsSoFar(r, d)
      PROVE  Serial'
  BY <1>1, <1>4, SerialStep DEF DeletedSoFar
<1>5. CASE UpdatePasswordCredentialIfMatch(p)
  <2> DEFINE step == AfterVerify(q.kind)
             r == [q EXCEPT !.pc = step]
             x == [q.seen EXCEPT !.scheme = "current"]
             c == SeesCred(p, u)
             d == IF c = q.seen THEN [e EXCEPT !.creds[u] = x] ELSE e
  <2>1. /\ q.kind \in {"login", "auth", "change"} /\ q.pc = "rehash"
        /\ u \in Users /\ u = q.user
    BY <1>5, Course DEF Lock, UpdatePasswordCredentialIfMatch, Writes
  <2>2. tx' = [tx EXCEPT ![p] = r] /\ draft' = [draft EXCEPT ![p] = d]
    BY <1>3, <1>5 DEF UpdatePasswordCredentialIfMatch, Goto
  <2>3. /\ r.kind = q.kind /\ r.ids = q.ids /\ r.next = q.next /\ r.sid = q.sid
        /\ r.user = q.user /\ r.offered = q.offered /\ r.pc = step
    BY <1>3, MoveRow
  <2>4. e.creds[u] = None
    BY <1>3, <2>1 DEF CredsSoFar, BeforeHash
  <2>5. c = creds[u]
    BY <2>4 DEF SeesCred
  <2>6. q.seen \in CredRows /\ q.seen.pw = q.offered
    BY <1>3, <2>1 DEF TxRows, CredsSoFar
  <2>7. x = Current(q.offered)
    BY <2>6 DEF CredRows, Current
  <2>8. /\ d.users = e.users /\ d.sessions = e.sessions
        /\ \A v \in Users \ {u} : d.creds[v] = e.creds[v]
        /\ c = q.seen => d.creds[u] = x
        /\ c # q.seen => d.creds[u] = None
    BY <1>3, <2>1, <2>4 DEF Drafts
  <2>9. /\ q.kind = "login" => step = "reread"
        /\ q.kind = "change" => step = "identifiers"
        /\ q.kind = "auth" => step = "commit"
    BY <2>1 DEF AfterVerify
  <2> HIDE DEF r, d, x, c, step, q, u
  <2>10. x # None
    BY <2>6, <2>7, NoneFacts DEF CredRows, Current
  <2>11. q.kind # "auth" => c = q.seen
    BY <1>3, <2>1, <2>5 DEF CredsSoFar
  <2>12. c = q.seen => Verified(r)
    BY <2>3, <2>1, <2>5, <2>6 DEF Verified
  <2>13. Found(r) /\ UsersSoFar(r, d)
    BY <1>3, <2>1, <2>3 DEF Found, UsersSoFar
  <2>14. CredsSoFar(r, d)
    BY <1>3, <2>1, <2>3, <2>7, <2>8, <2>9, <2>10, <2>11, <2>12
       DEF CredsSoFar, BeforeHash, AfterHash, Committed
  <2>15. SessionsSoFar(r, d)
    BY <1>3, <2>1, <2>3, <2>8, <2>9 DEF SessionsSoFar, Revokers
  <2> QED
    BY <1>3, <1>4, <2>2, <2>3, <2>13, <2>14, <2>15
<1>6. CASE CreateSession(p)
  <2> DEFINE s == q.sid
             r == [q EXCEPT !.pc = "mark"]
             x == [state |-> "live", user |-> u,
                   via |-> IF q.kind = "registerLogin" THEN q.next ELSE q.offered]
             d == [e EXCEPT !.sessions[s] = x]
  <2>1. /\ q.kind \in {"login", "issue", "registerLogin"} /\ q.pc = "insert"
        /\ s \in Sessions /\ u = q.user
    BY <1>6, Course DEF Lock, CreateSession, Writes
  <2>2. tx' = [tx EXCEPT ![p] = r] /\ draft' = [draft EXCEPT ![p] = d]
    BY <1>3, <1>6 DEF CreateSession, Goto
  <2>3. /\ r.kind = q.kind /\ r.ids = q.ids /\ r.next = q.next /\ r.sid = q.sid
        /\ r.user = q.user /\ r.offered = q.offered /\ r.pc = "mark"
    BY <1>3, MoveRow
  <2>4. d.users = e.users /\ d.creds = e.creds /\ d.sessions[s] = x
    BY <1>3, <2>1 DEF Drafts
  <2> HIDE DEF r, d, q, u, s
  <2>5. Found(r) /\ UsersSoFar(r, d)
    BY <1>3, <2>1, <2>3, <2>4 DEF Found, UsersSoFar
  <2>6. CredsSoFar(r, d)
    BY <1>3, <2>1, <2>3, <2>4 DEF CredsSoFar, BeforeHash, AfterHash, Verified
  <2>7. SessionsSoFar(r, d)
    BY <1>3, <2>1, <2>3, <2>4 DEF SessionsSoFar, Revokers, s
  <2> QED
    BY <1>3, <1>4, <2>2, <2>3, <2>5, <2>6, <2>7
<1>7. CASE MarkUserLogin(p)
  <2> DEFINE r == [q EXCEPT !.pc = "commit"]
             x == SeesUser(p, u)
             d == [e EXCEPT !.users[u] = x]
  <2>1. /\ q.kind \in {"login", "issue", "registerLogin", "markLogin"} /\ q.pc = "mark"
        /\ u \in Users /\ u = q.user
    BY <1>7, Course DEF Lock, MarkUserLogin, Writes
  <2>2. tx' = [tx EXCEPT ![p] = r] /\ draft' = [draft EXCEPT ![p] = d]
    BY <1>3, <1>7 DEF MarkUserLogin, Goto
  <2>3. /\ r.kind = q.kind /\ r.ids = q.ids /\ r.next = q.next /\ r.sid = q.sid
        /\ r.user = q.user /\ r.offered = q.offered /\ r.pc = "commit"
    BY <1>3, MoveRow
  <2>4. d.creds = e.creds /\ d.sessions = e.sessions /\ d.users[u] = x
    BY <1>3, <2>1 DEF Drafts
  <2>5. q.kind = "registerLogin" => e.users[u] = "active" /\ x = e.users[u]
    <3>1. q.kind = "registerLogin" => e.users[u] = "active"
      BY <1>3, <2>1 DEF UsersSoFar
    <3>2. "active" # None
      BY NoneFacts DEF UserStates
    <3> QED
      BY <3>1, <3>2 DEF SeesUser
  <2> HIDE DEF r, d, q, u, x
  <2>6. Found(r) /\ UsersSoFar(r, d)
    BY <1>3, <2>1, <2>3, <2>4, <2>5 DEF Found, UsersSoFar
  <2>7. CredsSoFar(r, d)
    BY <1>3, <2>1, <2>3, <2>4 DEF CredsSoFar, BeforeHash, AfterHash, Verified
  <2>8. SessionsSoFar(r, d)
    BY <1>3, <2>1, <2>3, <2>4 DEF SessionsSoFar, Revokers
  <2> QED
    BY <1>3, <1>4, <2>1, <2>2, <2>3, <2>6, <2>7, <2>8
<1>8. CASE CreateUser(p)
  <2> DEFINE step == IF q.kind = "create" THEN "commit" ELSE "setHash"
             r == [q EXCEPT !.pc = step]
  <2>1. /\ q.kind \in {"create", "register", "registerLogin"} /\ q.pc = "create"
        /\ u \in Users /\ u = q.user /\ tx' = [tx EXCEPT ![p] = r]
    BY <1>8, Course DEF Lock, CreateUser, Writes, Goto, Creators
  <2>2. PICK x \in {"active", "disabled"} : draft' = [draft EXCEPT ![p].users[u] = x]
    BY <1>8 DEF CreateUser
  <2> DEFINE d == [e EXCEPT !.users[u] = x]
  <2>3. /\ r.kind = q.kind /\ r.ids = q.ids /\ r.next = q.next /\ r.sid = q.sid
        /\ r.user = q.user /\ r.offered = q.offered /\ r.pc = step
    BY <1>3, MoveRow
  <2>4. d.creds = e.creds /\ d.sessions = e.sessions /\ d.users[u] = x /\ x # None
    BY <1>3, <2>1, NoneFacts DEF Drafts, UserStates
  <2>5. draft' = [draft EXCEPT ![p] = d]
    BY <1>3, <2>2
  <2> HIDE DEF r, d, q, u
  <2>6. Found(r) /\ UsersSoFar(r, d)
    BY <2>1, <2>3, <2>4 DEF Found, UsersSoFar
  <2>7. CredsSoFar(r, d)
    BY <1>3, <2>1, <2>3, <2>4 DEF CredsSoFar, BeforeHash, AfterHash, Verified
  <2>8. SessionsSoFar(r, d)
    BY <1>3, <2>1, <2>3, <2>4 DEF SessionsSoFar, Revokers
  <2> QED
    BY <1>3, <1>4, <2>1, <2>3, <2>5, <2>6, <2>7, <2>8
<1>9. CASE UpsertPasswordCredential(p)
  <2> DEFINE step == AfterSetHash(q.kind)
             r == [q EXCEPT !.pc = step]
             x == [pw |-> q.next, scheme |-> "current"]
             d == [e EXCEPT !.creds[u] = x]
  <2>1. /\ q.kind \in {"register", "registerLogin", "change", "reset"}
        /\ q.pc = "setHash" /\ u \in Users /\ u = q.user
    BY <1>9, Course DEF Lock, UpsertPasswordCredential, Writes
  <2>2. tx' = [tx EXCEPT ![p] = r] /\ draft' = [draft EXCEPT ![p] = d]
    BY <1>3, <1>9 DEF UpsertPasswordCredential, Goto
  <2>3. /\ q.kind = "register" => step = "commit"
        /\ q.kind = "registerLogin" => step = "reread"
        /\ q.kind \in {"change", "reset"} => step = "revoke"
    BY <2>1 DEF AfterSetHash
  <2> HIDE DEF step
  <2>4. /\ r.kind = q.kind /\ r.ids = q.ids /\ r.next = q.next /\ r.sid = q.sid
        /\ r.user = q.user /\ r.offered = q.offered /\ r.pc = step
    BY <1>3, MoveRow
  <2>5. /\ d.users = e.users /\ d.sessions = e.sessions
        /\ d.creds[u] = Current(q.next)
    BY <1>3, <2>1 DEF Drafts, Current
  <2> HIDE DEF r, d, q, u
  <2>6. Found(r) /\ UsersSoFar(r, d)
    BY <1>3, <2>1, <2>3, <2>4, <2>5 DEF Found, UsersSoFar
  <2>7. CredsSoFar(r, d)
    BY <1>3, <2>1, <2>3, <2>4, <2>5 DEF CredsSoFar, BeforeHash, AfterHash, Verified
  <2>8. SessionsSoFar(r, d)
    BY <1>3, <2>1, <2>3, <2>4, <2>5 DEF SessionsSoFar, Revokers
  <2> QED
    BY <1>3, <1>4, <2>1, <2>2, <2>4, <2>6, <2>7, <2>8
<1>10. CASE UpdateUserState(p)
  <2> DEFINE x == IF q.kind = "enable" THEN "active" ELSE "disabled"
  <2>1. q.kind \in {"enable", "disable"} /\ q.pc = "setState"
    BY <1>10, Course DEF Lock, UpdateUserState, Writes
  <2>2. PICK v \in q.todo :
          /\ tx' = [tx EXCEPT ![p].todo = @ \ {v}]
          /\ draft' = IF Exists(users[v]) THEN [draft EXCEPT ![p].users[v] = x]
                      ELSE draft
    BY <1>10 DEF UpdateUserState
  <2> DEFINE r == [q EXCEPT !.todo = @ \ {v}]
             d == IF Exists(users[v]) THEN [e EXCEPT !.users[v] = x] ELSE e
  <2>3. /\ r.kind = q.kind /\ r.ids = q.ids /\ r.next = q.next /\ r.sid = q.sid
        /\ r.user = q.user /\ r.offered = q.offered /\ r.pc = q.pc
    BY <1>3 DEF TxRows
  <2>4. d.creds = e.creds /\ d.sessions = e.sessions
    BY <1>3 DEF Drafts
  <2>5. tx' = [tx EXCEPT ![p] = r] /\ draft' = [draft EXCEPT ![p] = d]
    BY <1>3, <2>2
  <2> HIDE DEF r, d, q, u
  <2>6. Found(r) /\ UsersSoFar(r, d)
    BY <2>1, <2>3 DEF Found, UsersSoFar
  <2>7. CredsSoFar(r, d)
    BY <1>3, <2>1, <2>3, <2>4 DEF CredsSoFar, BeforeHash, AfterHash
  <2>8. SessionsSoFar(r, d)
    BY <1>3, <2>1, <2>3, <2>4 DEF SessionsSoFar, Revokers
  <2> QED
    BY <1>3, <1>4, <2>1, <2>3, <2>5, <2>6, <2>7, <2>8
<1>11. CASE SweepSession(p)
  <2>1. q.kind \in Revokers /\ q.pc = "sweep"
    BY <1>3, <1>11, Course DEF Lock, SweepSession, Writes, Revokers
  <2>2. PICK s \in q.rows :
          /\ tx' = [tx EXCEPT ![p].rows = @ \ {s}]
          /\ draft' = LET row == SeesSession(p, s) IN
                      IF Swept(q.kind, row) = row THEN draft
                      ELSE [draft EXCEPT ![p].sessions[s] = Swept(q.kind, row)]
    BY <1>11 DEF SweepSession
  <2> DEFINE row == SeesSession(p, s)
             x == Swept(q.kind, row)
             r == [q EXCEPT !.rows = @ \ {s}]
             d == IF x = row THEN e ELSE [e EXCEPT !.sessions[s] = x]
  <2>3. /\ r.kind = q.kind /\ r.ids = q.ids /\ r.next = q.next /\ r.sid = q.sid
        /\ r.user = q.user /\ r.offered = q.offered /\ r.pc = q.pc
        /\ r.rows = q.rows \ {s}
    BY <1>3 DEF TxRows
  <2>4. s \in LiveOf(q.ids) /\ q.kind # "delete"
    BY <1>3, <2>1, <2>2 DEF SessionsSoFar
  <2>5. s \in Sessions /\ sessions[s] \in SessionRows /\ sessions[s].state = "live"
    BY <2>4, Shapes DEF LiveOf, Lock
  <2>6. e.sessions[s] = None \/ e.sessions[s] = [sessions[s] EXCEPT !.state = "revoked"]
    BY <1>3, <2>1, <2>5 DEF SessionsSoFar
  <2>7. IF e.sessions[s] = None
        THEN x = [sessions[s] EXCEPT !.state = "revoked"] /\ x # row
        ELSE x = row
    <3>1. CASE e.sessions[s] = None
      <4>1. row = sessions[s]
        BY <3>1 DEF SeesSession
      <4>2. x = [sessions[s] EXCEPT !.state = "revoked"]
        BY <2>4, <2>5, <4>1 DEF Swept
      <4>3. x.state = "revoked"
        BY <2>5, <4>2 DEF SessionRows
      <4> QED
        BY <2>5, <3>1, <4>1, <4>2, <4>3
    <3>2. CASE e.sessions[s] # None
      <4>1. row = [sessions[s] EXCEPT !.state = "revoked"]
        BY <2>6, <3>2 DEF SeesSession
      <4>2. row.state = "revoked"
        BY <2>5, <4>1 DEF SessionRows
      <4> QED
        BY <2>4, <3>2, <4>2 DEF Swept
    <3> QED
      BY <3>1, <3>2
  <2> HIDE DEF x, row
  <2>8. /\ d.users = e.users /\ d.creds = e.creds
        /\ \A t \in Sessions \ {s} : d.sessions[t] = e.sessions[t]
        /\ d.sessions[s] = [sessions[s] EXCEPT !.state = "revoked"]
    BY <1>3, <2>5, <2>6, <2>7 DEF Drafts
  <2>9. tx' = [tx EXCEPT ![p] = r] /\ draft' = [draft EXCEPT ![p] = d]
    <3>1. tx' = [tx EXCEPT ![p] = r]
      BY <2>2
    <3>2. draft' = IF x = row THEN draft ELSE [draft EXCEPT ![p].sessions[s] = x]
      BY <2>2 DEF x, row
    <3> QED
      BY <1>3, <3>1, <3>2
  <2>10. [sessions[s] EXCEPT !.state = "revoked"] # None
    BY <2>5, NoneFacts DEF SessionRows
  <2> HIDE DEF r, d, q, u, e
  <2>11. Found(r) /\ UsersSoFar(r, d)
    BY <1>3, <2>1, <2>3 DEF Found, UsersSoFar, Revokers
  <2>12. AfterHash(r) <=> AfterHash(q)
    BY <2>3 DEF AfterHash
  <2>13. CredsSoFar(r, d)
    BY <1>3, <2>1, <2>3, <2>8, <2>12 DEF CredsSoFar, BeforeHash, Verified, Revokers
  <2>14. SessionsSoFar(r, d)
    <3>1. /\ q.kind \in Revokers /\ r.pc = "sweep" /\ r.ids = q.ids
          /\ r.kind \in Revokers
      BY <2>1, <2>3
    <3>2. ASSUME NEW t \in Sessions, d.sessions[t] # None
          PROVE  t \in LiveOf(q.ids)
                 /\ d.sessions[t] = [sessions[t] EXCEPT !.state = "revoked"]
      BY <1>3, <2>1, <2>4, <2>8, <3>2 DEF SessionsSoFar
    <3>3. r.rows \subseteq LiveOf(q.ids)
      BY <1>3, <2>1, <2>3 DEF SessionsSoFar
    <3>4. ASSUME NEW t \in LiveOf(q.ids)
          PROVE  d.sessions[t] # None \/ t \in r.rows
      <4>1. t \in Sessions
        BY <3>4 DEF LiveOf
      <4>2. e.sessions[t] # None \/ t \in q.rows
        BY <1>3, <2>1, <3>4 DEF SessionsSoFar
      <4> QED
        BY <2>3, <2>8, <2>10, <4>1, <4>2
    <3> HIDE DEF LiveOf
    <3> QED
      BY <3>1, <3>2, <3>3, <3>4 DEF SessionsSoFar, Revokers
  <2> QED
    BY <1>3, <1>4, <2>1, <2>3, <2>9, <2>11, <2>13, <2>14
<1> QED
  BY <1>5, <1>6, <1>7, <1>8, <1>9, <1>10, <1>11

\* The statements of a deletion.
LEMMA SerialDeletion ==
  ASSUME Isolation = "Serializable", Lock, Serial, NEW p \in Procs,
         tx[p].kind = "delete", NEW r, NEW d,
         \/ \E step : Reads(p, step) /\ d = draft[p]
         \/ \E step : Writes(p, step),
         tx' = [tx EXCEPT ![p] = r], draft' = [draft EXCEPT ![p] = d],
         r.kind = "delete", \A u \in Users : d.creds[u] \in {None, NoCred},
         DeletedSoFar(r, d)
  PROVE  Serial'
<1>1. Found(r) /\ UsersSoFar(r, d)
  BY DEF Found, UsersSoFar
<1>2. CredsSoFar(r, d)
  BY DEF CredsSoFar, BeforeHash, AfterHash
<1>3. SessionsSoFar(r, d)
  BY DEF SessionsSoFar, Revokers
<1> QED
  BY <1>1, <1>2, <1>3, SerialStep

\* What a deletion still sees of an account are its committed sessions, unless it has
\* deleted them.
LEMMA SeenSessions ==
  ASSUME Lock, NEW p \in Procs, tx[p].kind = "delete"
  PROVE  /\ \A u \in Users : \A s \in Sessions :
              /\ s \in SessionsOf(p, u) =>
                   sessions[s].user = u /\ draft[p].sessions[s] = None
              /\ sessions[s].user = u =>
                   draft[p].sessions[s] = DeletedSession \/ s \in SessionsOf(p, u)
<1> SUFFICES ASSUME NEW u \in Users, NEW s \in Sessions
             PROVE  /\ s \in SessionsOf(p, u) =>
                         sessions[s].user = u /\ draft[p].sessions[s] = None
                    /\ sessions[s].user = u =>
                         draft[p].sessions[s] = DeletedSession \/ s \in SessionsOf(p, u)
  OBVIOUS
<1>1. draft[p].sessions[s] = None \/ draft[p].sessions[s] = DeletedSession
  BY DeletionRow
<1>2. DeletedSession.user = None /\ DeletedSession # None
  BY NoneFacts DEF DeletedSession, SessionRows
<1> QED
  BY <1>1, <1>2, NoneFacts DEF SessionsOf, SeesSession

LEMMA SerialDeletes ==
  ASSUME Isolation = "Serializable", Lock, Serial, NEW p \in Procs,
         tx[p].kind = "delete", ~Rollback(p),
         \/ GetUserToDelete(p) \/ DeleteSessionsOfNext(p) \/ SweepSession(p)
         \/ EndSweep(p) \/ DeletePassword(p) \/ DeleteUserRow(p) \/ EndCascade(p)
  PROVE  Serial'
<1> DEFINE q == tx[p]
           e == draft[p]
           u == tx[p].user
<1>1. /\ p \notin stale
      /\ \/ \E step : Reads(p, step) /\ UNCHANGED draft
         \/ \E step : Writes(p, step)
  BY DEF GetUserToDelete, DeleteSessionsOfNext, SweepSession, EndSweep, DeletePassword,
     DeleteUserRow, EndCascade, Reads, Writes
<1>2. /\ q \in TxRows /\ e \in Drafts /\ draft \in [Procs -> Drafts]
      /\ sessions \in [Sessions -> SessionRows] /\ creds \in [Users -> CredRows]
      /\ CredForm /\ RowForm
  BY <1>1, InHand
<1>3. /\ \A v \in Users : e.creds[v] \in {None, NoCred}
      /\ \A s \in Sessions : e.sessions[s] # None =>
           e.sessions[s] = DeletedSession /\ sessions[s].user \in q.ids
      /\ q.pc \in {"sweep", "cascade"} => \A s \in q.rows : sessions[s].user \in q.ids
      /\ \A s \in Sessions : sessions[s].user \in SweptOf(q) =>
           e.sessions[s] = DeletedSession \/ (q.pc = "sweep" /\ s \in q.rows)
      /\ \A v \in WipedOf(q) : Committed(creds[v], e.creds[v]) = NoCred
  <2>1. CredsSoFar(q, e) /\ DeletedSoFar(q, e)
    BY <1>1, InHand
  <2>2. \A s \in Sessions : e.sessions[s] # None => e.sessions[s] = DeletedSession
    BY DeletionRow
  <2>3. \A v \in Users : e.creds[v] \in {None, NoCred}
    BY <2>1 DEF CredsSoFar
  <2> QED
    BY <2>1, <2>2, <2>3 DEF DeletedSoFar
<1>4. /\ q.todo \subseteq q.ids /\ q.ids \subseteq Users
      /\ q.pc \in {"sweep", "wipeCred", "wipeUser", "cascade"} => u \in q.ids \ q.todo
  BY DeletionRow
<1>5. ASSUME NEW r, tx' = [tx EXCEPT ![p] = r], r.kind = "delete",
             NEW d, draft' = [draft EXCEPT ![p] = d],
             \A v \in Users : d.creds[v] \in {None, NoCred}, DeletedSoFar(r, d)
      PROVE  Serial'
  <2>1. (UNCHANGED draft) => d = e
    BY <1>2, <1>5
  <2> QED
    BY <1>1, <1>5, <2>1, SerialDeletion
<1>6. NoCred # None /\ DeletedSession # None
  BY NoneFacts DEF NoCred, CredRows, DeletedSession, SessionRows
\* The row that a deletion of the password leaves.
<1>7. ASSUME u \in Users, draft' = WithoutCred(p)
      PROVE  \E d : /\ draft' = [draft EXCEPT ![p] = d]
                    /\ d.sessions = e.sessions
                    /\ \A v \in Users : d.creds[v] \in {None, NoCred}
                    /\ Committed(creds[u], d.creds[u]) = NoCred
                    /\ \A v \in Users \ {u} : d.creds[v] = e.creds[v]
  <2>1. CASE SeesCred(p, u).pw = None
    <3>1. Committed(creds[u], e.creds[u]) = NoCred
      BY <1>2, <1>3, <1>7, <2>1 DEF SeesCred, Committed, CredForm
    <3>2. draft' = [draft EXCEPT ![p] = e]
      BY <1>2, <1>7, <2>1 DEF WithoutCred
    <3> QED
      BY <1>3, <3>1, <3>2
  <2>2. CASE SeesCred(p, u).pw # None
    <3> DEFINE d == [e EXCEPT !.creds[u] = NoCred]
    <3>1. draft' = [draft EXCEPT ![p] = d]
      BY <1>2, <1>7, <2>2 DEF WithoutCred
    <3>2. /\ d.sessions = e.sessions /\ d.creds[u] = NoCred
          /\ \A v \in Users \ {u} : d.creds[v] = e.creds[v]
      BY <1>2, <1>7 DEF Drafts
    <3> HIDE DEF d
    <3>3. Committed(creds[u], d.creds[u]) = NoCred
      BY <1>6, <3>2 DEF Committed
    <3> QED
      BY <1>3, <3>1, <3>2, <3>3
  <2> QED
    BY <2>1, <2>2
<1> HIDE DEF e
<1>8. CASE GetUserToDelete(p)
  <2>1. q.pc = "find"
    BY <1>8 DEF GetUserToDelete, Reads
  <2>2. /\ draft' = [draft EXCEPT ![p] = e]
        /\ \E v \in q.todo :
             \/ tx' = [tx EXCEPT ![p].pc = "pick", ![p].todo = q.ids]
             \/ tx' = [tx EXCEPT ![p].todo = @ \ {v}]
    BY <1>2, <1>8 DEF GetUserToDelete, e
  <2>3. PICK v \in q.todo :
             \/ tx' = [tx EXCEPT ![p].pc = "pick", ![p].todo = q.ids]
             \/ tx' = [tx EXCEPT ![p].todo = @ \ {v}]
    BY <2>2
  <2>4. CASE tx' = [tx EXCEPT ![p].pc = "pick", ![p].todo = q.ids]
    <3> DEFINE r == [q EXCEPT !.pc = "pick", !.todo = q.ids]
    <3>1. /\ tx' = [tx EXCEPT ![p] = r] /\ r.pc = "pick" /\ r.kind = "delete"
          /\ r.ids = q.ids /\ r.todo = q.ids
      BY <1>2, <2>4 DEF TxRows
    <3> HIDE DEF r, q
    <3>2. SweptOf(r) = {} /\ WipedOf(r) = {}
      BY <3>1 DEF SweptOf, WipedOf
    <3>3. DeletedSoFar(r, e)
      BY <1>3, <3>1, <3>2 DEF DeletedSoFar
    <3> QED
      BY <1>3, <1>5, <2>2, <3>1, <3>3
  <2>5. CASE tx' = [tx EXCEPT ![p].todo = @ \ {v}]
    <3> DEFINE r == [q EXCEPT !.todo = @ \ {v}]
    <3>1. /\ tx' = [tx EXCEPT ![p] = r] /\ r.pc = "find" /\ r.kind = "delete"
          /\ r.ids = q.ids
      BY <1>2, <2>1, <2>5 DEF TxRows
    <3> HIDE DEF r, q
    <3>2. SweptOf(r) = {} /\ WipedOf(r) = {}
      BY <3>1 DEF SweptOf, WipedOf
    <3>3. DeletedSoFar(r, e)
      BY <1>3, <3>1, <3>2 DEF DeletedSoFar
    <3> QED
      BY <1>3, <1>5, <2>2, <3>1, <3>3
  <2> QED
    BY <2>3, <2>4, <2>5
<1>9. CASE DeleteSessionsOfNext(p)
  <2>1. q.pc = "pick" /\ draft' = [draft EXCEPT ![p] = e]
    BY <1>2, <1>9 DEF DeleteSessionsOfNext, Reads, e
  <2>2. SweptOf(q) = q.ids \ q.todo /\ WipedOf(q) = q.ids \ q.todo
    BY <2>1 DEF SweptOf, WipedOf
  <2>3. CASE Goto(p, "commit")
    <3> DEFINE r == [q EXCEPT !.pc = "commit"]
    <3>1. /\ tx' = [tx EXCEPT ![p] = r] /\ r.pc = "commit" /\ r.kind = "delete"
          /\ r.ids = q.ids /\ r.todo = q.todo
      BY <1>2, <2>3 DEF Goto, TxRows
    <3> HIDE DEF r, q
    <3>2. SweptOf(r) = SweptOf(q) /\ WipedOf(r) = WipedOf(q)
      BY <2>2, <3>1 DEF SweptOf, WipedOf
    <3>3. DeletedSoFar(r, e)
      BY <1>3, <2>1, <3>1, <3>2 DEF DeletedSoFar
    <3> QED
      BY <1>3, <1>5, <2>1, <3>1, <3>3
  <2>4. CASE ~Goto(p, "commit")
    <3>1. PICK v \in q.todo :
            tx' = [tx EXCEPT ![p].pc = "sweep", ![p].user = v,
                             ![p].todo = @ \ {v}, ![p].rows = SessionsOf(p, v)]
      BY <1>9, <2>4 DEF DeleteSessionsOfNext
    <3> DEFINE r == [q EXCEPT !.pc = "sweep", !.user = v, !.todo = @ \ {v},
                             !.rows = SessionsOf(p, v)]
    <3>2. /\ tx' = [tx EXCEPT ![p] = r] /\ r.pc = "sweep" /\ r.kind = "delete"
          /\ r.ids = q.ids /\ r.todo = q.todo \ {v} /\ r.user = v
          /\ r.rows = SessionsOf(p, v)
      BY <1>2, <3>1 DEF TxRows
    <3>3. v \in Users /\ v \in q.ids
      BY <1>4
    <3>4. \A s \in Sessions :
             /\ s \in SessionsOf(p, v) => sessions[s].user = v
             /\ sessions[s].user = v =>
                  e.sessions[s] = DeletedSession \/ s \in SessionsOf(p, v)
      BY <3>3, SeenSessions DEF e
    <3>5. SessionsOf(p, v) \subseteq Sessions
      BY DEF SessionsOf
    <3> HIDE DEF r, q
    <3>6. SweptOf(r) = SweptOf(q) \cup {v} /\ WipedOf(r) = WipedOf(q)
      BY <1>4, <2>2, <3>2, <3>3 DEF SweptOf, WipedOf
    <3>7. DeletedSoFar(r, e)
      BY <1>3, <2>1, <3>2, <3>3, <3>4, <3>5, <3>6 DEF DeletedSoFar
    <3> QED
      BY <1>3, <1>5, <2>1, <3>2, <3>7
  <2> QED
    BY <2>3, <2>4
<1>10. CASE SweepSession(p)
  <2>1. q.pc \in {"sweep", "cascade"}
    BY <1>10 DEF SweepSession, Writes
  <2>2. PICK s \in q.rows :
          /\ tx' = [tx EXCEPT ![p].rows = @ \ {s}]
          /\ draft' = LET row == SeesSession(p, s) IN
                      IF Swept(q.kind, row) = row THEN draft
                      ELSE [draft EXCEPT ![p].sessions[s] = Swept(q.kind, row)]
    BY <1>10 DEF SweepSession
  <2> DEFINE row == SeesSession(p, s)
             x == Swept(q.kind, row)
             r == [q EXCEPT !.rows = @ \ {s}]
             d == IF x = row THEN e ELSE [e EXCEPT !.sessions[s] = x]
  <2>3. /\ r.kind = "delete" /\ r.ids = q.ids /\ r.user = q.user /\ r.todo = q.todo
        /\ r.pc = q.pc /\ r.rows = q.rows \ {s} /\ tx' = [tx EXCEPT ![p] = r]
    BY <1>2, <2>2 DEF TxRows
  <2>4. s \in Sessions /\ sessions[s].user \in q.ids
    BY <1>2, <1>3, <2>1, <2>2 DEF TxRows
  <2>5. x = DeletedSession
    <3>1. CASE e.sessions[s] = None
      <4>1. row = sessions[s]
        BY <3>1 DEF SeesSession, e
      <4>2. sessions[s].state \in {"live", "revoked"}
        BY <1>2, <1>4, <2>4, NoneFacts DEF RowForm, Started
      <4> QED
        BY <4>1, <4>2 DEF Swept
    <3>2. CASE e.sessions[s] # None
      <4>1. row = DeletedSession
        BY <1>3, <2>4, <3>2 DEF SeesSession, e
      <4>2. DeletedSession.state = "deleted"
        BY DEF DeletedSession
      <4> QED
        BY <4>1, <4>2 DEF Swept
    <3> QED
      BY <3>1, <3>2
  <2>6. x = row => e.sessions[s] = DeletedSession
    <3>1. CASE e.sessions[s] = None
      <4>1. row = sessions[s] /\ DeletedSession.user = None
        BY <3>1 DEF SeesSession, e, DeletedSession
      <4> QED
        BY <1>4, <2>4, <2>5, <4>1, NoneFacts
    <3>2. CASE e.sessions[s] # None
      BY <1>3, <2>4, <3>2
    <3> QED
      BY <3>1, <3>2
  <2>7. draft' = [draft EXCEPT ![p] = d]
    <3>1. draft' = IF x = row THEN draft ELSE [draft EXCEPT ![p].sessions[s] = x]
      BY <2>2
    <3> HIDE DEF x, row
    <3> QED
      BY <1>2, <3>1 DEF e
  <2> HIDE DEF x, row
  <2>8. /\ d.creds = e.creds /\ d.sessions[s] = DeletedSession
        /\ \A t \in Sessions \ {s} : d.sessions[t] = e.sessions[t]
    BY <1>2, <2>4, <2>5, <2>6 DEF Drafts
  <2> HIDE DEF r, d, q
  <2>9. SweptOf(r) = SweptOf(q) /\ WipedOf(r) = WipedOf(q)
    BY <2>3 DEF SweptOf, WipedOf
  <2>10. DeletedSoFar(r, d)
    <3>1. \A t \in Sessions : d.sessions[t] # None => sessions[t].user \in r.ids
      BY <1>3, <2>3, <2>4, <2>8
    <3>2. \A t \in r.rows : sessions[t].user \in r.ids
      BY <1>3, <2>1, <2>3
    <3>3. \A t \in Sessions : sessions[t].user \in SweptOf(r) =>
             d.sessions[t] = DeletedSession \/ (r.pc = "sweep" /\ t \in r.rows)
      BY <1>3, <2>3, <2>8, <2>9
    <3>4. \A v \in WipedOf(r) : Committed(creds[v], d.creds[v]) = NoCred
      BY <1>3, <2>8, <2>9
    <3> QED
      BY <3>1, <3>2, <3>3, <3>4 DEF DeletedSoFar
  <2> QED
    BY <1>3, <1>5, <2>3, <2>7, <2>8, <2>10
<1>11. CASE EndSweep(p)
  <2> DEFINE r == [q EXCEPT !.pc = "wipeCred"]
  <2>1. /\ q.pc = "sweep" /\ q.rows = {} /\ draft' = [draft EXCEPT ![p] = e]
        /\ tx' = [tx EXCEPT ![p] = r]
    BY <1>2, <1>11 DEF EndSweep, Reads, Goto, e
  <2>2. /\ r.kind = "delete" /\ r.ids = q.ids /\ r.user = q.user /\ r.todo = q.todo
        /\ r.pc = "wipeCred"
    BY <1>2 DEF TxRows
  <2> HIDE DEF r, q
  <2>3. SweptOf(r) = SweptOf(q) /\ WipedOf(r) = WipedOf(q)
    BY <2>1, <2>2 DEF SweptOf, WipedOf
  <2>4. DeletedSoFar(r, e)
    BY <1>3, <2>1, <2>2, <2>3 DEF DeletedSoFar
  <2> QED
    BY <1>3, <1>5, <2>1, <2>2, <2>4
<1>12. CASE DeletePassword(p)
  <2> DEFINE r == [q EXCEPT !.pc = "wipeUser"]
  <2>1. /\ q.pc = "wipeCred" /\ draft' = WithoutCred(p) /\ tx' = [tx EXCEPT ![p] = r]
    BY <1>12 DEF DeletePassword, Writes, Goto
  <2>2. /\ r.kind = "delete" /\ r.ids = q.ids /\ r.user = q.user /\ r.todo = q.todo
        /\ r.pc = "wipeUser"
    BY <1>2 DEF TxRows
  <2>3. u \in Users /\ u = q.user
    BY <1>4, <2>1
  <2>4. PICK d : /\ draft' = [draft EXCEPT ![p] = d]
                 /\ d.sessions = e.sessions
                 /\ \A v \in Users : d.creds[v] \in {None, NoCred}
                 /\ Committed(creds[u], d.creds[u]) = NoCred
                 /\ \A v \in Users \ {u} : d.creds[v] = e.creds[v]
    BY <1>7, <2>1, <2>3
  <2> HIDE DEF r, q, u
  <2>5. SweptOf(r) = SweptOf(q) /\ WipedOf(r) \ {u} = WipedOf(q)
        /\ WipedOf(r) \subseteq Users
    BY <1>4, <2>1, <2>2, <2>3 DEF SweptOf, WipedOf
  <2>6. \A v \in WipedOf(r) : Committed(creds[v], d.creds[v]) = NoCred
    <3>1. ASSUME NEW v \in WipedOf(r)
          PROVE  Committed(creds[v], d.creds[v]) = NoCred
      <4>1. CASE v = u
        BY <2>4, <4>1
      <4>2. CASE v # u
        BY <1>3, <2>4, <2>5, <3>1, <4>2
      <4> QED
        BY <4>1, <4>2
    <3> QED
      BY <3>1
  <2>7. DeletedSoFar(r, d)
    BY <1>3, <2>1, <2>2, <2>4, <2>5, <2>6 DEF DeletedSoFar
  <2> QED
    BY <1>5, <2>1, <2>2, <2>4, <2>7
<1>13. CASE DeleteUserRow(p)
  <2> DEFINE rows == IF ForeignKeys THEN SessionsOf(p, u) ELSE {}
             r == [q EXCEPT !.pc = "cascade", !.rows = rows]
             d == [e EXCEPT !.users[u] = "deleted"]
  <2>1. /\ q.pc = "wipeUser" /\ draft' = [draft EXCEPT ![p] = d]
        /\ tx' = [tx EXCEPT ![p] = r]
    BY <1>2, <1>13 DEF DeleteUserRow, Writes, e
  <2>2. /\ r.kind = "delete" /\ r.ids = q.ids /\ r.user = q.user /\ r.todo = q.todo
        /\ r.pc = "cascade" /\ r.rows = rows
    BY <1>2 DEF TxRows
  <2>3. d.sessions = e.sessions /\ d.creds = e.creds
    BY <1>2 DEF Drafts
  <2>4. u \in Users /\ u \in q.ids
    BY <1>4, <2>1
  <2>5. \A s \in rows : sessions[s].user = u
    <3>1. \A s \in rows : s \in Sessions /\ s \in SessionsOf(p, u)
      BY DEF SessionsOf
    <3> HIDE DEF rows
    <3> QED
      BY <2>4, <3>1, SeenSessions
  <2> HIDE DEF r, q, u, d, rows
  <2>6. SweptOf(r) = SweptOf(q) /\ WipedOf(r) = WipedOf(q)
    BY <2>1, <2>2 DEF SweptOf, WipedOf
  <2>7. DeletedSoFar(r, d)
    BY <1>3, <2>1, <2>2, <2>3, <2>4, <2>5, <2>6 DEF DeletedSoFar
  <2> QED
    BY <1>3, <1>5, <2>1, <2>2, <2>3, <2>7
<1>14. CASE EndCascade(p)
  <2> DEFINE r == [q EXCEPT !.pc = "pick"]
  <2>1. /\ q.pc = "cascade" /\ tx' = [tx EXCEPT ![p] = r]
        /\ draft' = IF ForeignKeys THEN WithoutCred(p) ELSE draft
    BY <1>14 DEF EndCascade, Writes, Goto
  <2>2. /\ r.kind = "delete" /\ r.ids = q.ids /\ r.user = q.user /\ r.todo = q.todo
        /\ r.pc = "pick"
    BY <1>2 DEF TxRows
  <2>3. u \in Users /\ u \in WipedOf(q)
    BY <1>4, <2>1 DEF WipedOf, SweptOf
  <2>4. PICK d : /\ draft' = [draft EXCEPT ![p] = d]
                 /\ d.sessions = e.sessions
                 /\ \A v \in Users : d.creds[v] \in {None, NoCred}
                 /\ Committed(creds[u], d.creds[u]) = NoCred
                 /\ \A v \in Users \ {u} : d.creds[v] = e.creds[v]
    <3>1. CASE ForeignKeys
      BY <1>7, <2>1, <2>3, <3>1
    <3>2. CASE ~ForeignKeys
      <4>1. draft' = [draft EXCEPT ![p] = e]
        BY <1>2, <2>1, <3>2 DEF e
      <4> QED
        BY <1>3, <2>3, <4>1
    <3> QED
      BY <3>1, <3>2
  <2> HIDE DEF r, q, u
  <2>5. SweptOf(r) = SweptOf(q) /\ WipedOf(r) = WipedOf(q)
        /\ WipedOf(q) \subseteq Users
    BY <1>4, <2>1, <2>2 DEF SweptOf, WipedOf
  <2>6. \A v \in WipedOf(r) : Committed(creds[v], d.creds[v]) = NoCred
    <3>1. ASSUME NEW v \in WipedOf(r)
          PROVE  Committed(creds[v], d.creds[v]) = NoCred
      <4>1. CASE v = u
        BY <2>4, <4>1
      <4>2. CASE v # u
        BY <1>3, <2>4, <2>5, <3>1, <4>2
      <4> QED
        BY <4>1, <4>2
    <3> QED
      BY <3>1
  <2>7. DeletedSoFar(r, d)
    BY <1>3, <2>1, <2>2, <2>4, <2>5, <2>6 DEF DeletedSoFar
  <2> QED
    BY <1>5, <2>1, <2>2, <2>4, <2>7
<1> QED
  BY <1>8, <1>9, <1>10, <1>11, <1>12, <1>13, <1>14

LEMMA SerialNext ==
  ASSUME Isolation = "Serializable", Lock, Serial, [Next]_vars
  PROVE  Serial'
<1>1. CASE UNCHANGED vars
  <2>1. \A p \in Procs \ stale : Progress(tx'[p], draft'[p])
    BY <1>1 DEF Serial, vars
  <2>2. \A p \in Procs \ stale' : Progress(tx[p], draft[p])'
    BY <1>1, <2>1, SameProgress DEF vars
  <2> QED
    BY <1>1, <2>2 DEF vars, Serial, CredForm, Wrote
<1>2. ASSUME NEW p \in Procs, Begin(p) \/ Advance(p) \/ Fail(p)
      PROVE  Serial'
  <2>1. CASE Begin(p)
    BY <2>1, SerialBegin
  <2>2. CASE Aborts(p)
    BY <2>2, SerialEnd DEF Aborts, tables, Lock
  <2>3. CASE Commit(p)
    BY <2>3, SerialCommit
  <2>4. CASE Step(p) /\ Rollback(p)
    <3>1. p \notin stale /\ UNCHANGED <<users, creds, sessions, stale>>
      BY <2>4 DEF Step, FindUser, AuthenticateUser, UpdatePasswordCredentialIfMatch,
         RereadUser, CreateSession, MarkUserLogin, CreateUser, LoginIdentifiers,
         UpsertPasswordCredential, UpdateUserState, CheckUpdated,
         RevokeSessionsForUsers, SweepSession, EndSweep, GetUserToDelete,
         DeleteSessionsOfNext, DeletePassword, DeleteUserRow, EndCascade, Reads, Writes
    <3> QED
      BY <2>4, <3>1, SerialEnd DEF Lock
  <2>5. CASE Step(p) /\ ~Rollback(p) /\ tx[p].kind # "delete"
    <3>1. ~(GetUserToDelete(p) \/ DeleteSessionsOfNext(p) \/ DeletePassword(p)
            \/ DeleteUserRow(p) \/ EndCascade(p))
      BY <2>5, Course DEF Lock, GetUserToDelete, DeleteSessionsOfNext, DeletePassword,
         DeleteUserRow, EndCascade, Reads, Writes
    <3> QED
      BY <2>5, <3>1, SerialReads, SerialWrites DEF Step
  <2>6. CASE Step(p) /\ ~Rollback(p) /\ tx[p].kind = "delete"
    <3>1. ~(FindUser(p) \/ AuthenticateUser(p) \/ UpdatePasswordCredentialIfMatch(p)
            \/ RereadUser(p) \/ CreateSession(p) \/ MarkUserLogin(p) \/ CreateUser(p)
            \/ LoginIdentifiers(p) \/ UpsertPasswordCredential(p)
            \/ UpdateUserState(p) \/ CheckUpdated(p) \/ RevokeSessionsForUsers(p))
      BY <2>6, Course DEF Lock, FindUser, AuthenticateUser, Creators,
         UpdatePasswordCredentialIfMatch, RereadUser, CreateSession, MarkUserLogin,
         CreateUser, LoginIdentifiers, UpsertPasswordCredential, UpdateUserState,
         CheckUpdated, RevokeSessionsForUsers, Reads, Writes
    <3> QED
      BY <2>6, <3>1, SerialDeletes DEF Step
  <2> QED
    BY <1>2, <2>1, <2>2, <2>3, <2>4, <2>5, <2>6 DEF Advance, Fail, Busy, DeadlockVictim
<1> QED
  BY <1>1, <1>2 DEF Next

\* The tables of Accounts are those of AtomicAccounts.
LEMMA AtomicRows ==
  /\ Atomic!NoCred = NoCred /\ Atomic!UnusedSession = UnusedSession
  /\ Atomic!DeletedSession = DeletedSession
  /\ \A w : Atomic!Current(w) = Current(w)
  /\ \A x : Atomic!Exists(x) <=> Exists(x)
  BY DEF Atomic!NoCred, NoCred, Atomic!UnusedSession, UnusedSession,
     Atomic!DeletedSession, DeletedSession, Atomic!Current, Current, Atomic!Exists,
     Exists

\* A commit of no row, and of one row.
LEMMA CommitRows ==
  ASSUME Lock, NEW p \in Procs, Commit(p)
  PROVE  /\ (\A v \in Users : draft[p].users[v] = None \/ draft[p].users[v] = users[v])
              => users' = users
         /\ (\A v \in Users : draft[p].creds[v] = None) => creds' = creds
         /\ (\A t \in Sessions : draft[p].sessions[t] = None) => sessions' = sessions
         /\ \A u \in Users : (\A v \in Users \ {u} : draft[p].users[v] = None) =>
              users' = [users EXCEPT ![u] = Committed(users[u], draft[p].users[u])]
         /\ \A u \in Users : (\A v \in Users \ {u} : draft[p].creds[v] = None) =>
              creds' = [creds EXCEPT ![u] = Committed(creds[u], draft[p].creds[u])]
         /\ \A s \in Sessions : (\A t \in Sessions \ {s} : draft[p].sessions[t] = None) =>
              sessions' = [sessions EXCEPT ![s] =
                             Committed(sessions[s], draft[p].sessions[s])]
<1>1. /\ users \in [Users -> UserStates] /\ creds \in [Users -> CredRows]
      /\ sessions \in [Sessions -> SessionRows]
  BY Shapes DEF Lock
<1>2. /\ users' = [v \in Users |-> Committed(users[v], draft[p].users[v])]
      /\ creds' = [v \in Users |-> Committed(creds[v], draft[p].creds[v])]
      /\ sessions' = [t \in Sessions |-> Committed(sessions[t], draft[p].sessions[t])]
  BY DEF Commit
<1> QED
  BY <1>1, <1>2 DEF Committed

\* Under SQLite the commit of a request is one step of the abstract service: the
\* rows the request read are still those that it replaces.
LEMMA AtomicCommit ==
  ASSUME Isolation = "Serializable", Lock, Serial, NEW p \in Procs, Commit(p)
  PROVE  Atomic!Next \/ UNCHANGED <<users, creds, sessions>>
<1> DEFINE q == tx[p]
           e == draft[p]
           u == q.user
           s == q.sid
<1>1. /\ users' = [v \in Users |-> Committed(users[v], e.users[v])]
      /\ creds' = [v \in Users |-> Committed(creds[v], e.creds[v])]
      /\ sessions' = [t \in Sessions |-> Committed(sessions[t], e.sessions[t])]
      /\ q.pc = "commit" /\ p \notin stale
  BY DEF Commit
<1>2. /\ users \in [Users -> UserStates] /\ creds \in [Users -> CredRows]
      /\ sessions \in [Sessions -> SessionRows]
      /\ q \in TxRows /\ OnCourse(q)
      /\ Found(q) /\ UsersSoFar(q, e) /\ CredsSoFar(q, e) /\ SessionsSoFar(q, e)
      /\ DeletedSoFar(q, e) /\ RowForm
      /\ Given(q) /\ UserDraft(q, e) /\ CredDraft(q, e) /\ SessionDraft(q, e)
      /\ Batch(q, e) /\ Claims(q)
  BY <1>1, InHand DEF Lock, Local
<1>3. q.kind \in Creators \cup {"login", "issue", "auth", "change", "reset", "markLogin"}
        => u \in Users /\ q.ids = {u}
  BY <1>2 DEF OnCourse, Given
<1>4. q.kind \in {"login", "issue", "registerLogin"} =>
        s \in Sessions /\ sessions[s] = UnusedSession
  BY <1>2, NoneFacts DEF OnCourse, Claims
<1> HIDE DEF q
\* What the commit leaves alone.
<1>5. q.kind \notin {"create", "register", "registerLogin", "enable", "disable", "delete"}
        => users' = users
  BY <1>1, <1>2, CommitRows DEF UserDraft, Creators
<1>6. q.kind \in {"issue", "create", "enable", "disable", "revoke", "markLogin"}
        => creds' = creds
  BY <1>1, <1>2, CommitRows DEF CredsSoFar
<1>7. q.kind \in {"auth", "create", "register", "enable", "markLogin"} =>
        sessions' = sessions
  BY <1>1, <1>2, CommitRows DEF SessionDraft
\* What it writes.
<1>8. q.kind \in Creators \cup {"login", "auth", "change", "reset"} =>
        creds' = [creds EXCEPT ![u] = Committed(creds[u], e.creds[u])]
  BY <1>1, <1>2, <1>3, CommitRows DEF CredDraft
<1>9. q.kind \in Creators =>
        /\ users[u] = "unborn"
        /\ users' = [users EXCEPT ![u] = Committed(users[u], e.users[u])]
        /\ e.users[u] \in {None, "active", "disabled"}
  <2>1. q.kind \in Creators => \A v \in Users \ {u} : e.users[v] = None
    BY <1>2, <1>3 DEF UserDraft
  <2>2. q.kind \in Creators => e.users[u] \in {None, "active", "disabled"}
    <3>1. ~Exists("unborn")
      BY DEF Exists
    <3> QED
      BY <1>2, <1>3, <3>1 DEF UserDraft, Claims
  <2> QED
    BY <1>1, <1>2, <1>3, <2>1, <2>2, CommitRows DEF Claims
<1>10. q.kind \in {"login", "issue", "registerLogin"} =>
         sessions' = [sessions EXCEPT ![s] =
            [state |-> "live", user |-> u,
             via |-> IF q.kind = "registerLogin" THEN q.next ELSE q.offered]]
  <2>1. ASSUME q.kind \in {"login", "issue", "registerLogin"}
        PROVE  \A t \in Sessions \ {s} : e.sessions[t] = None
    BY <1>2, <2>1 DEF SessionDraft
  <2> DEFINE x == [state |-> "live", user |-> u,
                   via |-> IF q.kind = "registerLogin" THEN q.next ELSE q.offered]
  <2>2. ASSUME q.kind \in {"login", "issue", "registerLogin"}
        PROVE  e.sessions[s] = x /\ x # None
    <3>1. x \in SessionRows
      BY <1>2, <1>3, <2>2 DEF SessionRows, TxRows, Creators
    <3>2. e.sessions[s] = x
      BY <1>1, <1>2, <2>2 DEF SessionsSoFar
    <3> QED
      BY <3>1, <3>2, NoneFacts
  <2> HIDE DEF x
  <2>3. ASSUME q.kind \in {"login", "issue", "registerLogin"}
        PROVE  sessions' = [sessions EXCEPT ![s] = x]
    <3>1. sessions' = [sessions EXCEPT ![s] = Committed(sessions[s], e.sessions[s])]
      BY <1>4, <2>1, <2>3, CommitRows
    <3> QED
      BY <2>2, <2>3, <3>1 DEF Committed
  <2> QED
    BY <2>3 DEF x
<1>11. q.kind \in Revokers => sessions' = Atomic!Revoked(q.ids)
  <2> SUFFICES ASSUME q.kind \in Revokers
               PROVE  sessions' = Atomic!Revoked(q.ids)
    OBVIOUS
  <2>1. ASSUME NEW t \in Sessions
        PROVE  Committed(sessions[t], e.sessions[t]) =
                 IF sessions[t].state = "live" /\ sessions[t].user \in q.ids
                 THEN [sessions[t] EXCEPT !.state = "revoked"] ELSE sessions[t]
    BY <1>1, <1>2 DEF SessionsSoFar, LiveOf, Committed
  <2> QED
    BY <1>1, <2>1 DEF Atomic!Revoked
<1>12. /\ q.kind \in {"login", "auth", "change"} => q.offered \in Passwords
       /\ q.kind \in {"change", "reset", "register", "registerLogin"} => q.next \in Passwords
  BY <1>2 DEF CredsSoFar, OnCourse
<1>13. \A w \in Passwords : Current(w) # None
  BY NoneFacts DEF Current, CredRows
<1>14. /\ q.kind = "login" => creds' = [creds EXCEPT ![u] = Current(q.offered)]
       /\ q.kind = "auth" =>
            \/ creds' = creds
            \/ creds' = [creds EXCEPT ![u] = Current(q.offered)] /\ creds[u].pw = q.offered
       /\ q.kind \in {"change", "reset", "register", "registerLogin"} =>
            creds' = [creds EXCEPT ![u] = Current(q.next)]
  <2>1. CASE q.kind = "login"
    BY <1>1, <1>2, <1>8, <2>1 DEF CredsSoFar
  <2>2. CASE q.kind = "auth"
    <3>1. CASE e.creds[u] = None
      BY <1>2, <1>8, <2>2, <3>1 DEF Committed
    <3>2. CASE e.creds[u] # None
      BY <1>1, <1>2, <1>8, <2>2, <3>2 DEF CredsSoFar, Verified, Committed
    <3> QED
      BY <3>1, <3>2
  <2>3. CASE q.kind \in {"change", "reset", "register", "registerLogin"}
    <3>1. e.creds[u] = Current(q.next)
      BY <1>1, <1>2, <2>3 DEF CredsSoFar, AfterHash
    <3> QED
      BY <1>8, <1>12, <1>13, <2>3, <3>1 DEF Committed, Creators
  <2> QED
    BY <2>1, <2>2, <2>3
<1>15. q.kind \in {"login", "change"} => users[u] = "active" /\ creds[u].pw = q.offered
  BY <1>1, <1>2 DEF Found, CredsSoFar, Verified
<1>16. /\ q.kind = "issue" => users[u] = "active" /\ q.offered = None
       /\ q.kind = "reset" => Exists(users[u])
  BY <1>1, <1>2 DEF Found, SessionsSoFar
<1>17. CASE q.kind = "login"
  <2>1. Atomic!Login(u, q.offered, s)
    BY <1>4, <1>5, <1>10, <1>14, <1>15, <1>17, AtomicRows
       DEF Atomic!Login, Atomic!Verify, Atomic!Issue
  <2> QED
    BY <1>3, <1>4, <1>12, <1>17, <2>1 DEF Atomic!Next
<1>18. CASE q.kind = "issue"
  <2>1. Atomic!IssueSession(u, s)
    BY <1>4, <1>5, <1>6, <1>10, <1>16, <1>18, AtomicRows
       DEF Atomic!IssueSession, Atomic!Issue
  <2> QED
    BY <1>3, <1>4, <1>18, <2>1 DEF Atomic!Next
<1>19. CASE q.kind = "auth"
  <2>1. creds' = creds \/ Atomic!Authenticate(u, q.offered)
    BY <1>5, <1>7, <1>14, <1>19, AtomicRows DEF Atomic!Authenticate, Atomic!Verify
  <2> QED
    BY <1>3, <1>5, <1>7, <1>12, <1>19, <2>1 DEF Atomic!Next
<1>20. CASE q.kind = "create"
  <2>1. CASE e.users[u] = None
    BY <1>2, <1>3, <1>6, <1>7, <1>9, <1>20, <2>1 DEF Committed, Creators
  <2>2. CASE e.users[u] # None
    <3>1. Atomic!CreateAccount(u, e.users[u]) /\ e.users[u] \in {"active", "disabled"}
      BY <1>6, <1>7, <1>9, <1>20, <2>2 DEF Atomic!CreateAccount, Committed, Creators
    <3> QED
      BY <1>3, <1>20, <3>1 DEF Atomic!Next, Creators
  <2> QED
    BY <2>1, <2>2
<1>21. CASE q.kind = "register"
  <2>1. e.users[u] # None
    BY <1>1, <1>2, <1>21 DEF UsersSoFar
  <2>2. Atomic!Register(u, e.users[u], q.next) /\ e.users[u] \in {"active", "disabled"}
    BY <1>7, <1>9, <1>14, <1>21, <2>1, AtomicRows DEF Atomic!Register, Committed, Creators
  <2> QED
    BY <1>3, <1>12, <1>21, <2>2 DEF Atomic!Next, Creators
<1>22. CASE q.kind = "registerLogin"
  <2>1. e.users[u] = "active" /\ "active" # None
    BY <1>1, <1>2, <1>22, NoneFacts DEF UsersSoFar, UserStates
  <2>2. Atomic!RegisterAndLogin(u, q.next, s)
    BY <1>4, <1>9, <1>10, <1>14, <1>22, <2>1, AtomicRows
       DEF Atomic!RegisterAndLogin, Atomic!Issue, Committed, Creators
  <2> QED
    BY <1>3, <1>4, <1>12, <1>22, <2>2 DEF Atomic!Next, Creators
<1>23. CASE q.kind = "change"
  <2>1. Atomic!ChangePassword(u, q.offered, q.next)
    BY <1>3, <1>5, <1>11, <1>14, <1>15, <1>23, AtomicRows
       DEF Atomic!ChangePassword, Revokers
  <2> QED
    BY <1>3, <1>12, <1>23, <2>1 DEF Atomic!Next
<1>24. CASE q.kind = "reset"
  <2>1. Atomic!ResetPassword(u, q.next)
    BY <1>3, <1>5, <1>11, <1>14, <1>16, <1>24, AtomicRows
       DEF Atomic!ResetPassword, Revokers
  <2> QED
    BY <1>3, <1>12, <1>24, <2>1 DEF Atomic!Next
<1>25. CASE q.kind \in {"enable", "disable"}
  <2> DEFINE state == IF q.kind = "enable" THEN "active" ELSE "disabled"
  <2>1. \A v \in Users : IF v \in q.ids THEN Exists(users[v]) /\ e.users[v] = state
                                     /\ e.users[v] # None
                        ELSE e.users[v] = None
    BY <1>1, <1>2, <1>25 DEF UserDraft, Batch, Creators
  <2>2. q.ids \subseteq Users
    BY <1>2 DEF TxRows
  <2>3. \A v \in q.ids : Exists(users[v])
    BY <2>1, <2>2
  <2>4. users' = [v \in Users |-> IF v \in q.ids THEN state ELSE users[v]]
    <3> HIDE DEF state
    <3> QED
      BY <1>1, <2>1 DEF Committed
  <2>5. sessions' = IF state = "disabled" THEN Atomic!Revoked(q.ids) ELSE sessions
    BY <1>7, <1>11, <1>25 DEF Revokers
  <2>6. state \in {"active", "disabled"} /\ creds' = creds
    BY <1>6, <1>25
  <2> HIDE DEF state
  <2>7. Atomic!SetState(q.ids, state)
    BY <2>3, <2>4, <2>5, <2>6, AtomicRows DEF Atomic!SetState
  <2> QED
    BY <2>2, <2>6, <2>7 DEF Atomic!Next
<1>26. CASE q.kind = "revoke"
  <2>1. Atomic!RevokeForUsers(q.ids)
    BY <1>5, <1>6, <1>11, <1>26 DEF Atomic!RevokeForUsers, Revokers
  <2> QED
    BY <1>2, <1>26, <2>1 DEF Atomic!Next, TxRows
<1>27. CASE q.kind = "markLogin"
  BY <1>5, <1>6, <1>7, <1>27
<1>28. CASE q.kind = "delete"
  <2>1. q.todo = {} /\ Gone(q) = q.ids /\ SweptOf(q) = q.ids /\ WipedOf(q) = q.ids
    BY <1>1, <1>2, <1>28 DEF Given, Gone, SweptOf, WipedOf
  <2>2. q.ids \subseteq Users
    BY <1>2 DEF TxRows
  <2>3. \A v \in Users : IF v \in q.ids THEN Exists(users[v]) /\ e.users[v] = "deleted"
                                     /\ e.users[v] # None
                        ELSE e.users[v] = None
    <3>1. \A v \in q.ids : e.users[v] = "deleted" /\ e.users[v] # None
      BY <1>2, <2>1, NoneFacts DEF Batch, UserStates
    <3> QED
      BY <1>2, <1>28, <2>2, <3>1 DEF UserDraft, Creators
  <2>4. users' = [v \in Users |-> IF v \in q.ids THEN "deleted" ELSE users[v]]
    BY <1>1, <2>3 DEF Committed
  <2>5. creds' = [v \in Users |-> IF v \in q.ids THEN NoCred ELSE creds[v]]
    <3>1. \A v \in q.ids : Committed(creds[v], e.creds[v]) = NoCred
      BY <1>2, <1>28, <2>1 DEF DeletedSoFar
    <3>2. \A v \in Users : v \notin q.ids => Committed(creds[v], e.creds[v]) = creds[v]
      BY <1>2 DEF CredDraft, Committed
    <3> QED
      BY <1>1, <3>1, <3>2
  <2>6. sessions' = Atomic!Deleted(q.ids)
    <3>1. ASSUME NEW t \in Sessions
          PROVE  Committed(sessions[t], e.sessions[t]) =
                   IF sessions[t].user \in q.ids THEN DeletedSession ELSE sessions[t]
      <4>1. sessions[t].user \in q.ids => e.sessions[t] = DeletedSession
        BY <1>1, <1>2, <1>28, <2>1 DEF DeletedSoFar
      <4>2. sessions[t].user \notin q.ids => e.sessions[t] = None
        BY <1>2, <1>28 DEF DeletedSoFar
      <4>3. DeletedSession # None
        BY NoneFacts DEF DeletedSession, SessionRows
      <4> QED
        BY <4>1, <4>2, <4>3 DEF Committed
    <3> QED
      BY <1>1, <3>1, AtomicRows DEF Atomic!Deleted
  <2>7. Atomic!DeleteUsers(q.ids)
    BY <2>2, <2>3, <2>4, <2>5, <2>6, AtomicRows DEF Atomic!DeleteUsers
  <2> QED
    BY <2>2, <2>7 DEF Atomic!Next
<1>29. q.kind # "idle" /\ q.kind \in Kinds
  <2>1. q.kind \in Kinds /\ q.pc \in StepsOf[q.kind]
    BY <1>2 DEF TxRows, OnCourse
  <2> QED
    BY <1>1, <2>1 DEF StepsOf
<1> QED
  BY <1>17, <1>18, <1>19, <1>20, <1>21, <1>22, <1>23, <1>24, <1>25, <1>26, <1>27,
     <1>28, <1>29 DEF Kinds

LEMMA SerialInvariant ==
  ASSUME Isolation = "Serializable"
  PROVE  Spec => [](Lock /\ Serial)
<1>1. Init => Lock /\ Serial
  BY InitLock, SerialInit
<1>2. Lock /\ Serial /\ [Next]_vars => (Lock /\ Serial)'
  BY NextKeeps, SerialNext
<1> QED
  BY <1>1, <1>2, PTL DEF Spec

LEMMA AtomicStep ==
  ASSUME Isolation = "Serializable", Lock, Serial, [Next]_vars
  PROVE  [Atomic!Next]_Atomic!vars
<1>1. CASE tables' = tables
  BY <1>1 DEF tables, Atomic!vars
<1>2. CASE tables' # tables
  BY <1>2, TablesChange, AtomicCommit DEF tables, Atomic!vars
<1> QED
  BY <1>1, <1>2

\* Under SQLite the statements of a request add up to one step of AtomicAccounts, for
\* any number of goroutines (WithinTx, store.go): the refinement, step by step.
THEOREM SerializableIsAtomic ==
  ASSUME Isolation = "Serializable"
  PROVE  Spec => EveryRequestIsAtomic
<1>1. Init => Atomic!Init
  BY AtomicRows DEF Init, Atomic!Init, Atomic!InitialUsers, Atomic!InitialCreds,
     InitialUsers, InitialCreds
<1>2. Lock /\ Serial /\ [Next]_vars => [Atomic!Next]_Atomic!vars
  BY AtomicStep
<1> QED
  BY <1>1, <1>2, SerialInvariant, PTL DEF Spec, EveryRequestIsAtomic, Atomic!Spec

Promises == INSTANCE AtomicAccountsProofs

LEMMA PromisesStep ==
  ASSUME Promises!IInv, [Atomic!Next]_Atomic!vars
  PROVE  Promises!IInv'
<1>1. [Promises!Next]_Promises!vars
  <2> USE DEF Promises!Current, Promises!Exists, Promises!NoCred, Promises!UnusedSession,
      Promises!DeletedSession, Promises!Issue, Promises!Verify, Promises!Revoked,
      Promises!Deleted, Atomic!Current, Atomic!Exists, Atomic!NoCred,
      Atomic!UnusedSession, Atomic!DeletedSession, Atomic!Issue, Atomic!Verify,
      Atomic!Revoked, Atomic!Deleted
  <2>1. \A u, w, s : Atomic!Login(u, w, s) => Promises!Login(u, w, s)
    BY DEF Atomic!Login, Promises!Login
  <2>2. \A u, s : Atomic!IssueSession(u, s) => Promises!IssueSession(u, s)
    BY DEF Atomic!IssueSession, Promises!IssueSession
  <2>3. \A u, w : Atomic!Authenticate(u, w) => Promises!Authenticate(u, w)
    BY DEF Atomic!Authenticate, Promises!Authenticate
  <2>4. \A u, x : Atomic!CreateAccount(u, x) => Promises!CreateAccount(u, x)
    BY DEF Atomic!CreateAccount, Promises!CreateAccount
  <2>5. \A u, x, w : Atomic!Register(u, x, w) => Promises!Register(u, x, w)
    BY DEF Atomic!Register, Promises!Register
  <2>6. \A u, w, s : Atomic!RegisterAndLogin(u, w, s) => Promises!RegisterAndLogin(u, w, s)
    BY DEF Atomic!RegisterAndLogin, Promises!RegisterAndLogin
  <2>7. \A u, w, x : Atomic!ChangePassword(u, w, x) => Promises!ChangePassword(u, w, x)
    BY DEF Atomic!ChangePassword, Promises!ChangePassword
  <2>8. \A u, x : Atomic!ResetPassword(u, x) => Promises!ResetPassword(u, x)
    BY DEF Atomic!ResetPassword, Promises!ResetPassword
  <2>9. \A ids, x : Atomic!SetState(ids, x) => Promises!SetState(ids, x)
    BY DEF Atomic!SetState, Promises!SetState
  <2>10. \A ids : Atomic!RevokeForUsers(ids) => Promises!RevokeForUsers(ids)
    BY DEF Atomic!RevokeForUsers, Promises!RevokeForUsers
  <2>11. \A ids : Atomic!DeleteUsers(ids) => Promises!DeleteUsers(ids)
    BY DEF Atomic!DeleteUsers, Promises!DeleteUsers
  <2> QED
    BY <2>1, <2>2, <2>3, <2>4, <2>5, <2>6, <2>7, <2>8, <2>9, <2>10, <2>11
       DEF Atomic!Next, Atomic!vars, Promises!Next, Promises!vars
<1>2. Promises!UserStates = UserStates /\ Promises!CredRows = CredRows
      /\ Promises!SessionRows = SessionRows
  BY DEF Promises!UserStates, UserStates, Promises!CredRows, CredRows,
     Promises!SessionRows, SessionRows
<1>3. Promises!IInv /\ [Promises!Next]_Promises!vars => Promises!IInv'
  BY NoneIsNoValue, <1>2, Promises!StepIInv
<1> QED
  BY <1>1, <1>3

LEMMA PromisesKept ==
  ASSUME Isolation = "Serializable"
  PROVE  Spec => []Promises!IInv
<1>1. Init => Promises!IInv
  <2>1. Init => Promises!Init
    BY DEF Init, Promises!Init, Promises!InitialUsers, Promises!InitialCreds,
       InitialUsers, InitialCreds, Promises!NoCred, NoCred, Promises!UnusedSession,
       UnusedSession
  <2>2. Promises!UserStates = UserStates /\ Promises!CredRows = CredRows
        /\ Promises!SessionRows = SessionRows
    BY DEF Promises!UserStates, UserStates, Promises!CredRows, CredRows,
       Promises!SessionRows, SessionRows
  <2>3. Promises!Init => Promises!IInv
    BY NoneIsNoValue, <2>2, Promises!InitIInv
  <2> QED
    BY <2>1, <2>3
<1>2. Lock /\ Serial /\ [Next]_vars => [Atomic!Next]_Atomic!vars
  BY AtomicStep
<1>3. Promises!IInv /\ [Atomic!Next]_Atomic!vars => Promises!IInv'
  BY PromisesStep
<1> QED
  BY <1>1, <1>2, <1>3, SerialInvariant, PTL DEF Spec

\* Under SQLite disabling an account leaves it no live session, whatever logins are
\* under way (SetState, account.go).
THEOREM SerializableDisablingReachesSessions ==
  ASSUME Isolation = "Serializable"
  PROVE  Spec => []DisabledUserHasNoLiveSession
<1>1. Promises!IInv => DisabledUserHasNoLiveSession
  BY DEF Promises!IInv, Promises!DisabledUserHasNoLiveSession,
     DisabledUserHasNoLiveSession
<1> QED
  BY <1>1, PromisesKept, PTL

\* Under SQLite no session outlives the password it was obtained with (ChangePassword
\* and ResetPassword, password.go).
THEOREM SerializablePasswordsReachSessions ==
  ASSUME Isolation = "Serializable"
  PROVE  Spec => []SessionsMatchPassword
<1>1. Promises!IInv => SessionsMatchPassword
  BY DEF Promises!IInv, Promises!SessionsMatchPassword, SessionsMatchPassword
<1> QED
  BY <1>1, PromisesKept, PTL

\* Under SQLite deleting an account leaves no session and no password behind even when
\* the declared keys are not enforced (DeleteUsers, account.go).
THEOREM SerializableLeavesNoOrphans ==
  ASSUME Isolation = "Serializable"
  PROVE  Spec => []NoOrphans
<1>1. Promises!IInv => NoOrphans
  BY DEF Promises!IInv, Promises!NoOrphans, NoOrphans, Promises!Exists, Exists
<1> QED
  BY <1>1, PromisesKept, PTL

\* Deleting an account leaves no session and no password behind on any database the
\* code supports: SQLite has one writer, and a server enforces the declared keys.
THEOREM AccountsLeaveNoOrphans == Spec => []NoOrphans
<1>1. CASE ForeignKeys
  BY <1>1, DeletionLeavesNoOrphans
<1>2. CASE Isolation = "Serializable"
  BY <1>2, SerializableLeavesNoOrphans
<1> QED
  BY <1>1, <1>2, IsolationIsKnown, ServerEnforcesKeys
=============================================================================
