------------------------------ MODULE LoginFlow ------------------------------
(***************************************************************************)
(* The unauthenticated routes of the endpoint over the challenge store:    *)
(* a picture is asked for, a login or a registration solves it, the login  *)
(* guard of the host lets the attempt through, AccountService runs it in   *)
(* one transaction, the outcome is recorded and announced, and the session *)
(* is resolved before the cookie is handed out.  What happens inside the   *)
(* transaction is the subject of module Accounts.                          *)
(***************************************************************************)

EXTENDS ImageChallenge

CONSTANTS Users,       \* accounts, one login identifier each
          Sessions,    \* the IDs of the sessions that can be created
          Protected,   \* the requests that require a challenge
          Limit        \* recorded failures after which the guard denies

Operations == {"login", "register", "host"}
ASSUME ProtectedAreOperations == Protected \subseteq Operations
ASSUME LimitIsPositive == Limit \in Nat \ {0}
ASSUME SetsAreFinite == IsFiniteSet(Procs) /\ IsFiniteSet(Challenges)

VARIABLES flow,     \* the request each goroutine serves
          users,    \* committed state of the accounts
          sessions, \* committed sessions: [user, state]
          failures, \* what the guard of the host has recorded, by identifier
          failed,   \* history: attempts that failed, by identifier
          checks,   \* history: requests that got past a challenge
          events,   \* sessions announced to Options.Events
          cookies   \* sessions whose token a client was given

flowVars == <<flow, users, sessions, failures, failed, checks, events, cookies>>
loginVars == <<imageVars, flowVars>>

Idle == [op |-> "none", pc |-> "idle", user |-> None, session |-> None]
NoSession == [user |-> None, state |-> "unborn"]
UserStates == {"unborn", "active", "disabled", "gone"}
SessionStates == {"unborn", "live", "revoked"}

LoginInit ==
    /\ ImageInit
    /\ flow = [p \in Procs |-> Idle]
    /\ users \in [Users -> {"unborn", "active"}]
    /\ sessions = [s \in Sessions |-> NoSession]
    /\ failures = [u \in Users |-> 0]
    /\ failed = [u \in Users |-> 0]
    /\ checks = 0
    /\ events = {} /\ cookies = {}

At(p, pc) == flow[p].pc = pc
Goto(p, pc) == flow' = [flow EXCEPT ![p].pc = pc]
Reply(p) == flow' = [flow EXCEPT ![p] = Idle]

-----------------------------------------------------------------------------
(* The challenge.                                                          *)

\* The step of each request that comes after its challenge.
Start(op) == CASE op = "login" -> "guard"
               [] op = "register" -> "tx"
               [] op = "host" -> "act"

Unclaimed == {u \in Users : /\ users[u] = "unborn"
                           /\ \A q \in Procs : flow[q].op = "register" =>
                                                 flow[q].user # u}

Arrive(p) ==
    /\ At(p, "idle") /\ call[p].at = "rest"
    /\ \E op \in Operations :
          \E u \in CASE op = "login" -> Users
                     [] op = "register" -> Unclaimed
                     [] op = "host" -> {None} :
             flow' = [flow EXCEPT ![p] =
                        [op |-> op, user |-> u, session |-> None,
                         pc |-> IF op \in Protected THEN "challenge" ELSE Start(op)]]
    /\ UNCHANGED <<imageVars, users, sessions, failures, failed, checks, events,
                   cookies>>

\* createChallenge, and Module.CreateChallenge of a host.
AskPicture(p) == /\ At(p, "idle")
                 /\ Create(p)
                 /\ UNCHANGED flowVars
PutPicture(p) == Put(p) /\ UNCHANGED flowVars
ShowPicture(p) == /\ call[p].at \in {"issued", "full"}
                  /\ Return(p)
                  /\ UNCHANGED flowVars

\* verifyChallenge and Module.VerifyChallenge: without a response, or with one
\* of another provider, the request ends here.
RefuseBody(p) ==
    /\ At(p, "challenge") /\ call[p].at = "rest"
    /\ Reply(p)
    /\ UNCHANGED <<imageVars, users, sessions, failures, failed, checks, events,
                   cookies>>
AskVerify(p) ==
    /\ At(p, "challenge")
    /\ \E c \in issued, right \in BOOLEAN : Verify(p, c, right)
    /\ UNCHANGED flowVars
Judge(p) == VerifyAndDelete(p) /\ UNCHANGED flowVars

\* Mutant: what the verifier says is not looked at.
TrustAnswer(p) ==
    /\ At(p, "challenge") /\ call[p].at \in {"accepted", "refused"}
    /\ Return(p)
    /\ Goto(p, Start(flow[p].op))
    /\ UNCHANGED <<users, sessions, failures, failed, checks, events, cookies>>

AfterVerify(p) ==
    /\ At(p, "challenge") /\ call[p].at \in {"accepted", "refused"}
    /\ Return(p)
    /\ IF call[p].at = "accepted" THEN Goto(p, Start(flow[p].op)) ELSE Reply(p)
    /\ UNCHANGED <<users, sessions, failures, failed, checks, events, cookies>>

CountCheck(p) == checks' = IF flow[p].op \in Protected THEN checks + 1 ELSE checks

\* The action of the host that VerifyChallenge protects.
HostActs(p) ==
    /\ At(p, "act")
    /\ CountCheck(p)
    /\ Reply(p)
    /\ UNCHANGED <<imageVars, users, sessions, failures, failed, events, cookies>>

-----------------------------------------------------------------------------
(* AccountService.Login and RegisterAndLogin.                              *)

\* LoginGuard.Allow; a denied attempt is neither tried nor recorded.
Allow(p) ==
    /\ At(p, "guard")
    /\ IF failures[flow[p].user] < Limit THEN Goto(p, "tx") ELSE Reply(p)
    /\ UNCHANGED <<imageVars, users, sessions, failures, failed, checks, events,
                   cookies>>

\* The transaction commits a session: of an active user whose password was
\* right, or of the user it creates.
Commits(p, s) ==
    LET u == flow[p].user IN
    /\ sessions[s] = NoSession
    /\ IF flow[p].op = "login" THEN users[u] = "active" ELSE users[u] = "unborn"
    /\ users' = [users EXCEPT ![u] = "active"]
    /\ sessions' = [sessions EXCEPT ![s] = [user |-> u, state |-> "live"]]

\* A registration has no guard: when it fails it is over.
AfterFailure(p) == IF flow[p].op = "login" THEN Goto(p, "recordFailure") ELSE Reply(p)
CountFailure(p) ==
    failed' = IF flow[p].op = "login" THEN [failed EXCEPT ![flow[p].user] = @ + 1]
              ELSE failed

Succeed(p) ==
    /\ At(p, "tx")
    /\ CountCheck(p)
    /\ \E s \in Sessions :
          /\ Commits(p, s)
          /\ flow' = [flow EXCEPT ![p].pc = "recordSuccess", ![p].session = s]
    /\ UNCHANGED <<imageVars, failures, failed, events, cookies>>

\* Mutant: the session is announced before the transaction has ended.
AnnounceAndFail(p) ==
    /\ At(p, "tx")
    /\ CountCheck(p)
    /\ CountFailure(p)
    /\ AfterFailure(p)
    /\ \E s \in Sessions : /\ sessions[s] = NoSession
                           /\ events' = events \cup {s}
    /\ UNCHANGED <<imageVars, users, sessions, failures, cookies>>

\* A wrong password, a user that is not there or disabled, a name that is taken,
\* a transaction that fails.
FailToLogin(p) ==
    /\ At(p, "tx")
    /\ CountCheck(p)
    /\ CountFailure(p)
    /\ AfterFailure(p)
    /\ UNCHANGED <<imageVars, users, sessions, failures, events, cookies>>

\* The connection is lost while the database commits: the caller sees an error.
LoseCommit(p) ==
    /\ At(p, "tx")
    /\ CountCheck(p)
    /\ CountFailure(p)
    /\ AfterFailure(p)
    /\ \E s \in Sessions : Commits(p, s)
    /\ UNCHANGED <<imageVars, failures, events, cookies>>

\* Mutant: a failure is recorded for accounts that exist only.
RecordKnownUsers(p) ==
    LET u == flow[p].user IN
    /\ At(p, "recordFailure")
    /\ failures' = IF users[u] = "active" THEN [failures EXCEPT ![u] = @ + 1]
                   ELSE failures
    /\ Reply(p)
    /\ UNCHANGED <<imageVars, users, sessions, failed, checks, events, cookies>>

\* LoginGuard.Record(false), then the event and the error.
RecordFailure(p) ==
    /\ At(p, "recordFailure")
    /\ failures' = [failures EXCEPT ![flow[p].user] = @ + 1]
    /\ Reply(p)
    /\ UNCHANGED <<imageVars, users, sessions, failed, checks, events, cookies>>

\* LoginGuard.Record(true) of a login, then the events of both.
RecordSuccess(p) ==
    /\ At(p, "recordSuccess")
    /\ events' = events \cup {flow[p].session}
    /\ Goto(p, "resolve")
    /\ UNCHANGED <<imageVars, users, sessions, failures, failed, checks, cookies>>

-----------------------------------------------------------------------------
(* resolveIssuedSession and the answer.                                    *)

ResolveSession(p) ==
    /\ At(p, "resolve")
    /\ IF sessions[flow[p].session].state = "live" THEN Goto(p, "resolveUser")
       ELSE Reply(p)
    /\ UNCHANGED <<imageVars, users, sessions, failures, failed, checks, events,
                   cookies>>

ResolveUser(p) ==
    /\ At(p, "resolveUser")
    /\ Reply(p)
    /\ cookies' = IF users[flow[p].user] = "active" THEN cookies \cup {flow[p].session}
                  ELSE cookies
    /\ UNCHANGED <<imageVars, users, sessions, failures, failed, checks, events>>

\* A query of Resolve fails: the answer is an error, the session stays.
FailToResolve(p) ==
    /\ At(p, "resolve") \/ At(p, "resolveUser")
    /\ Reply(p)
    /\ UNCHANGED <<imageVars, users, sessions, failures, failed, checks, events,
                   cookies>>

-----------------------------------------------------------------------------
(* What others do meanwhile.                                               *)

\* Mutant: the state of the account is written to its sessions.
EndLikeUser(u) == sessions' = [s \in Sessions |->
                      IF sessions[s].user = u
                      THEN [user |-> u, state |-> users'[u]] ELSE sessions[s]]

EndSessions(u) == sessions' = [s \in Sessions |->
                      IF sessions[s].user = u
                      THEN [user |-> u, state |-> "revoked"] ELSE sessions[s]]

Disable(u) == /\ users[u] = "active"
              /\ users' = [users EXCEPT ![u] = "disabled"]
              /\ EndSessions(u)
              /\ UNCHANGED <<imageVars, flow, failures, failed, checks, events,
                             cookies>>
Delete(u) == /\ users[u] \in {"active", "disabled"}
             /\ users' = [users EXCEPT ![u] = "gone"]
             /\ EndSessions(u)
             /\ UNCHANGED <<imageVars, flow, failures, failed, checks, events,
                            cookies>>

\* The process stops and starts again: the store and the requests are lost, the
\* database and the guard of the host are not.
Restart ==
    /\ StartAgain
    /\ flow' = [p \in Procs |-> Idle]
    /\ UNCHANGED <<users, sessions, failures, failed, checks, events, cookies>>

Serve(p) ==
    \/ PutPicture(p) \/ ShowPicture(p) \/ Judge(p) \/ AfterVerify(p) \/ HostActs(p)
    \/ Allow(p) \/ Succeed(p) \/ FailToLogin(p) \/ LoseCommit(p)
    \/ RecordFailure(p) \/ RecordSuccess(p)
    \/ ResolveSession(p) \/ ResolveUser(p) \/ FailToResolve(p)

LoginNext ==
    \/ \E p \in Procs : \/ Arrive(p) \/ AskPicture(p) \/ RefuseBody(p) \/ AskVerify(p)
                        \/ Serve(p)
    \/ \E u \in Users : Disable(u) \/ Delete(u)
    \/ Tick /\ UNCHANGED flowVars
    \/ Restart

LoginSpec == LoginInit /\ [][LoginNext]_loginVars

-----------------------------------------------------------------------------
(* Properties.                                                             *)

\* The variables of the flow range over what their comments say.
LoginTypeOK ==
    /\ flow \in [Procs -> [op : Operations \cup {"none"},
                           pc : {"idle", "challenge", "guard", "tx", "act",
                                 "recordFailure", "recordSuccess", "resolve",
                                 "resolveUser"},
                           user : Users \cup {None}, session : Sessions \cup {None}]]
    /\ users \in [Users -> UserStates]
    /\ sessions \in [Sessions -> [user : Users \cup {None}, state : SessionStates]]
    /\ failures \in [Users -> Nat] /\ failed \in [Users -> Nat]
    /\ checks \in Nat
    /\ events \subseteq Sessions /\ cookies \subseteq Sessions

\* Where a request requires a challenge, a password is checked, an account made
\* and an action of the host run at most once for each challenge that was
\* answered, whoever else carried the same answer at the same time.
EveryCheckIsPaid == checks <= Cardinality({c \in Challenges : judged[c] > 0})

\* The guard denies at Limit recorded failures, but it is asked before a check
\* and told after it: one identifier fails at most Limit times and once more for
\* every other goroutine, and for each goroutine again when a restart forgets
\* what it was about to record.
GuessesAreBounded ==
    \A u \in Users :
       failed[u] <= Limit - 1 + Cardinality(Procs) * (restarts + 1)

\* "Options.Events receives committed facts" (docs/architecture.md:28): an
\* announced session is one that the database has, and so is one that a client
\* was given; nobody is given a session that was not announced.
EventsAreFacts ==
    /\ \A s \in events : sessions[s] # NoSession
    /\ cookies \subseteq events

\* An attempt that failed is recorded, or its goroutine is about to: nothing but
\* the end of the process loses one, whatever became of the account.
FailuresAreRecorded ==
    restarts = 0 =>
        \A u \in Users :
            failed[u] = failures[u] +
                Cardinality({p \in Procs : At(p, "recordFailure") /\ flow[p].user = u})
=============================================================================
