--------------------------- MODULE LoginFlowProofs ---------------------------
(***************************************************************************)
(* What the login flow keeps, for any store, accounts, sessions and        *)
(* goroutines.  Its actions contain those of ImageChallenge, so what       *)
(* ImageChallengeProofs shows of the store is at hand here.                *)
(***************************************************************************)

EXTENDS LoginFlow, ImageChallengeProofs

-----------------------------------------------------------------------------
(* By its form each step of a route is a step of the store or leaves it.   *)

LEMMA StepsUseTheStore == ASSUME LoginNext PROVE [ImageNext]_imageVars
<1> USE DEF ImageNext
<1>1. ASSUME NEW p \in Procs, AskPicture(p) PROVE ImageNext
  BY <1>1 DEF AskPicture
<1>2. ASSUME NEW p \in Procs, AskVerify(p) PROVE ImageNext
  BY <1>2 DEF AskVerify
<1>3. ASSUME NEW p \in Procs, PutPicture(p) \/ Judge(p) PROVE ImageNext
  BY <1>3 DEF PutPicture, Judge
<1>4. ASSUME NEW p \in Procs, ShowPicture(p) \/ AfterVerify(p) PROVE ImageNext
  BY <1>4 DEF ShowPicture, AfterVerify
<1>5. ASSUME NEW p \in Procs,
             \/ Arrive(p) \/ RefuseBody(p) \/ HostActs(p) \/ Allow(p) \/ Succeed(p)
             \/ FailToLogin(p) \/ LoseCommit(p) \/ RecordFailure(p) \/ RecordSuccess(p)
             \/ ResolveSession(p) \/ ResolveUser(p) \/ FailToResolve(p)
      PROVE  UNCHANGED imageVars
  BY <1>5 DEF Arrive, RefuseBody, HostActs, Allow, Succeed, FailToLogin, LoseCommit,
              RecordFailure, RecordSuccess, ResolveSession, ResolveUser, FailToResolve
<1>6. ASSUME NEW u \in Users, Disable(u) \/ Delete(u) PROVE UNCHANGED imageVars
  BY <1>6 DEF Disable, Delete
<1>7. CASE Tick /\ UNCHANGED flowVars
  BY <1>7
<1>8. CASE Restart
  BY <1>8 DEF Restart
<1> HIDE DEF ImageNext
<1> QED
  BY <1>1, <1>2, <1>3, <1>4, <1>5, <1>6, <1>7, <1>8 DEF LoginNext, Serve

\* This says nothing of the routes that their definitions do not: the handlers
\* reach the store by Create and Verify only (endpoint.go:122, :161 and
\* module.go:299, :324).  It carries the theorems of ImageChallengeProofs to them.
LEMMA RoutesUseTheStore == LoginSpec => ImageSpec
<1>1. LoginInit => ImageInit
  BY DEF LoginInit
<1>2. [LoginNext]_loginVars => [ImageNext]_imageVars
  BY StepsUseTheStore DEF loginVars, imageVars
<1> QED
  BY <1>1, <1>2, PTL DEF LoginSpec, ImageSpec

-----------------------------------------------------------------------------
(* Types, and what a goroutine knows at each step of its request.          *)

\* What a request has at each of its steps.
Stages ==
    \A p \in Procs :
        /\ flow[p].pc = "challenge" =>
              flow[p].op \in Operations /\ (flow[p].op # "host" => flow[p].user \in Users)
        /\ flow[p].pc \in {"guard", "recordFailure"} => flow[p].op = "login"
        /\ flow[p].pc = "tx" => flow[p].op \in {"login", "register"}
        /\ flow[p].pc \notin {"idle", "challenge", "act"} => flow[p].user \in Users
        /\ flow[p].pc \in {"recordSuccess", "resolve", "resolveUser"} =>
              flow[p].session \in Sessions
Typed == LoginTypeOK /\ Stages

LEMMA TypedInit == ASSUME LoginInit PROVE Typed
  BY DEF LoginInit, Typed, LoginTypeOK, Stages, Idle, NoSession, UserStates,
         SessionStates

LEMMA GotoTyped ==
    ASSUME LoginTypeOK, NEW p \in Procs, NEW pc \in {"guard", "tx", "act"},
           flow' = [flow EXCEPT ![p].pc = pc],
           UNCHANGED <<users, sessions, failures, failed, checks, events, cookies>>
    PROVE  LoginTypeOK'
  BY DEF LoginTypeOK

LEMMA TypedNext == ASSUME Typed, [LoginNext]_loginVars PROVE Typed'
<1> USE DEF Typed, LoginTypeOK, Stages, Idle, At, Goto, Reply, Operations
<1>1. ASSUME NEW p \in Procs, Arrive(p) PROVE Typed'
  BY <1>1 DEF Arrive, Unclaimed, Start
<1>2. ASSUME NEW p \in Procs,
             AskPicture(p) \/ PutPicture(p) \/ ShowPicture(p) \/ AskVerify(p) \/ Judge(p)
      PROVE  Typed'
  BY <1>2 DEF AskPicture, PutPicture, ShowPicture, AskVerify, Judge, flowVars
<1>3. ASSUME NEW p \in Procs, RefuseBody(p) PROVE Typed'
  BY <1>3 DEF RefuseBody
<1>4. ASSUME NEW p \in Procs, AfterVerify(p) PROVE Typed'
  <2>1. UNCHANGED <<users, sessions, failures, failed, checks, events, cookies>>
    BY <1>4 DEF AfterVerify
  <2>2. CASE Reply(p)
    BY <2>1, <2>2
  <2>3. CASE Goto(p, Start(flow[p].op))
    <3>1. flow[p].op \in Operations /\ (flow[p].op # "host" => flow[p].user \in Users)
      BY <1>4 DEF AfterVerify
    <3>2. CASE flow[p].op = "login"
      <4>1. flow' = [flow EXCEPT ![p].pc = "guard"]
        BY <2>3, <3>2 DEF Start
      <4> QED
        BY <2>1, <3>1, <3>2, <4>1
    <3>3. CASE flow[p].op = "register"
      <4>1. flow' = [flow EXCEPT ![p].pc = "tx"]
        BY <2>3, <3>3 DEF Start
      <4> QED
        BY <2>1, <3>1, <3>3, <4>1
    <3>4. CASE flow[p].op = "host"
      <4>1. flow' = [flow EXCEPT ![p].pc = "act"]
        BY <2>3, <3>4 DEF Start
      <4>2. LoginTypeOK'
        <5> HIDE DEF LoginTypeOK
        <5> QED
          BY <2>1, <4>1, GotoTyped
      <4>3. ASSUME NEW q \in Procs, q # p
            PROVE  flow'[q] = flow[q]
        BY <4>1, <4>3
      <4>4. /\ flow'[p].pc = "act" /\ flow'[p].op = "host"
            /\ flow'[p].user = flow[p].user
        BY <3>4, <4>1
      <4>5. Stages'
        BY <4>3, <4>4
      <4> QED
        BY <4>2, <4>5
    <3> QED
      BY <3>1, <3>2, <3>3, <3>4
  <2> QED
    BY <1>4, <2>2, <2>3 DEF AfterVerify
<1>5. ASSUME NEW p \in Procs, HostActs(p) PROVE Typed'
  BY <1>5 DEF HostActs, CountCheck
<1>6. ASSUME NEW p \in Procs, Allow(p) PROVE Typed'
  BY <1>6 DEF Allow
<1>7. ASSUME NEW p \in Procs, Succeed(p) PROVE Typed'
  <2>1. PICK s \in Sessions :
           /\ Commits(p, s)
           /\ flow' = [flow EXCEPT ![p].pc = "recordSuccess", ![p].session = s]
    BY <1>7 DEF Succeed
  <2>2. flow[p].pc = "tx"
    BY <1>7 DEF Succeed
  <2>3. UNCHANGED <<failures, failed, events, cookies>> /\ checks' \in Nat
    BY <1>7 DEF Succeed, CountCheck
  <2>4. users' \in [Users -> UserStates]
    BY <2>1 DEF Commits, UserStates
  <2>5. sessions' \in [Sessions -> [user : Users \cup {None}, state : SessionStates]]
    BY <2>1, <2>2 DEF Commits, SessionStates
  <2>6. /\ \A q \in Procs : q # p => flow'[q] = flow[q]
        /\ flow'[p].op = flow[p].op /\ flow'[p].user = flow[p].user
        /\ flow'[p].pc = "recordSuccess" /\ flow'[p].session = s
    BY <2>1
  <2> DEFINE Flows == [op : Operations \cup {"none"},
                       pc : {"idle", "challenge", "guard", "tx", "act",
                             "recordFailure", "recordSuccess", "resolve",
                             "resolveUser"},
                       user : Users \cup {None}, session : Sessions \cup {None}]
             done == [flow EXCEPT ![p].pc = "recordSuccess"]
  <2>7. flow' \in [Procs -> Flows]
    <3>1. done \in [Procs -> Flows]
      OBVIOUS
    <3>2. flow' = [done EXCEPT ![p].session = s]
      BY <2>1, Zenon
    <3> HIDE DEF done
    <3> QED
      BY <3>1, <3>2
  <2>8. LoginTypeOK'
    BY <2>3, <2>4, <2>5, <2>7
  <2>9. Stages'
    <3> HIDE DEF LoginTypeOK
    <3> QED
      BY <2>2, <2>6
  <2> HIDE DEF LoginTypeOK, Stages
  <2> QED
    BY <2>8, <2>9
<1>8. ASSUME NEW p \in Procs, FailToLogin(p) PROVE Typed'
  BY <1>8 DEF FailToLogin, CountCheck, CountFailure, AfterFailure
<1>9. ASSUME NEW p \in Procs, LoseCommit(p) PROVE Typed'
  BY <1>9 DEF LoseCommit, CountCheck, CountFailure, AfterFailure, Commits, UserStates,
              SessionStates
<1>10. ASSUME NEW p \in Procs, RecordFailure(p) PROVE Typed'
  BY <1>10 DEF RecordFailure
<1>11. ASSUME NEW p \in Procs, RecordSuccess(p) PROVE Typed'
  BY <1>11 DEF RecordSuccess
<1>12. ASSUME NEW p \in Procs, ResolveSession(p) PROVE Typed'
  BY <1>12 DEF ResolveSession
<1>13. ASSUME NEW p \in Procs, ResolveUser(p) PROVE Typed'
  BY <1>13 DEF ResolveUser
<1>14. ASSUME NEW p \in Procs, FailToResolve(p) PROVE Typed'
  BY <1>14 DEF FailToResolve
<1>15. ASSUME NEW u \in Users, Disable(u) \/ Delete(u) PROVE Typed'
  BY <1>15 DEF Disable, Delete, EndSessions, UserStates, SessionStates
<1>16. CASE UNCHANGED flowVars
  BY <1>16 DEF flowVars
<1>17. CASE Restart
  BY <1>17 DEF Restart
<1>18. CASE UNCHANGED loginVars
  BY <1>16, <1>18 DEF loginVars
<1> HIDE DEF Typed
<1> QED
  BY <1>1, <1>2, <1>3, <1>4, <1>5, <1>6, <1>7, <1>8, <1>9, <1>10, <1>11, <1>12, <1>13,
     <1>14, <1>15, <1>16, <1>17, <1>18 DEF LoginNext, Serve

LEMMA TypedAlways == LoginSpec => []Typed
  BY TypedInit, TypedNext, PTL DEF LoginSpec

\* The flow and the accounts keep their types across any number of restarts.
THEOREM LoginTypeCorrect == LoginSpec => []LoginTypeOK
<1>1. Typed => LoginTypeOK
  BY DEF Typed
<1> QED
  BY <1>1, TypedAlways, PTL

-----------------------------------------------------------------------------
(* Events and cookies.                                                     *)

\* A goroutine that is to announce a session holds one that is committed, and
\* one that resolves it has announced it.
Announced ==
    /\ EventsAreFacts
    /\ \A p \in Procs :
          /\ At(p, "recordSuccess") => sessions[flow[p].session] # NoSession
          /\ At(p, "resolve") \/ At(p, "resolveUser") => flow[p].session \in events

\* No step makes a session unborn again.
LEMMA SessionsStay ==
    ASSUME Typed, LoginNext
    PROVE  \A s \in Sessions : sessions[s] # NoSession => sessions'[s] # NoSession
<1>1. ASSUME NEW p \in Procs, NEW s \in Sessions, Commits(p, s)
      PROVE  \A t \in Sessions : sessions[t] # NoSession => sessions'[t] # NoSession
  BY <1>1 DEF Commits, NoSession, Typed, LoginTypeOK
<1>2. ASSUME NEW u \in Users, Disable(u) \/ Delete(u)
      PROVE  \A t \in Sessions : sessions[t] # NoSession => sessions'[t] # NoSession
  BY <1>2 DEF Disable, Delete, EndSessions, NoSession
<1>3. \/ UNCHANGED sessions
      \/ \E p \in Procs, s \in Sessions : Commits(p, s)
      \/ \E u \in Users : Disable(u) \/ Delete(u)
  BY DEF LoginNext, Serve, Arrive, AskPicture, PutPicture, ShowPicture, RefuseBody,
         AskVerify, Judge, AfterVerify, HostActs, Allow, Succeed, FailToLogin, LoseCommit,
         RecordFailure, RecordSuccess, ResolveSession, ResolveUser, FailToResolve, Restart,
         flowVars
<1> QED
  BY <1>1, <1>2, <1>3

LEMMA AnnouncedNext ==
    ASSUME Typed, Announced, [LoginNext]_loginVars
    PROVE  Announced'
<1>0. CASE UNCHANGED loginVars
  BY <1>0 DEF Announced, EventsAreFacts, At, loginVars, flowVars
<1> SUFFICES ASSUME LoginNext PROVE Announced'
  BY <1>0
<1> DEFINE Holds(p) ==
      /\ At(p, "recordSuccess") => sessions[flow[p].session] # NoSession
      /\ At(p, "resolve") \/ At(p, "resolveUser") => flow[p].session \in events
<1>1. /\ events \subseteq Sessions
      /\ \A s \in Sessions : sessions[s] # NoSession => sessions'[s] # NoSession
      /\ \A p \in Procs :
            /\ At(p, "recordSuccess") => flow[p].session \in Sessions
            /\ Holds(p)
      /\ EventsAreFacts
  BY SessionsStay DEF Typed, LoginTypeOK, Stages, At, Announced
<1>2. SUFFICES /\ EventsAreFacts'
               /\ \A q \in Procs : Holds(q)'
  BY DEF Announced
<1>3. ASSUME UNCHANGED <<events, cookies>>,
             \A q \in Procs : \/ flow'[q] = flow[q]
                               \/ flow'[q].pc \notin {"recordSuccess", "resolve",
                                                      "resolveUser"}
      PROVE  EventsAreFacts' /\ \A q \in Procs : Holds(q)'
  BY <1>1, <1>3 DEF EventsAreFacts, At
<1> USE DEF Typed, LoginTypeOK, At, Goto, Reply, Idle
<1>4. ASSUME NEW p \in Procs, Succeed(p)
      PROVE  EventsAreFacts' /\ \A q \in Procs : Holds(q)'
  <2>1. PICK s \in Sessions :
           /\ Commits(p, s)
           /\ flow' = [flow EXCEPT ![p].pc = "recordSuccess", ![p].session = s]
    BY <1>4 DEF Succeed
  <2>2. sessions'[s] # NoSession
    BY <2>1 DEF Commits, NoSession
  <2>3. /\ \A q \in Procs : q # p => flow'[q] = flow[q]
        /\ flow'[p].pc = "recordSuccess" /\ flow'[p].session = s
    BY <2>1
  <2>4. UNCHANGED <<events, cookies>>
    BY <1>4 DEF Succeed
  <2> HIDE DEF Typed, LoginTypeOK
  <2> QED
    BY <1>1, <2>2, <2>3, <2>4 DEF EventsAreFacts
<1>5. ASSUME NEW p \in Procs, RecordSuccess(p)
      PROVE  EventsAreFacts' /\ \A q \in Procs : Holds(q)'
  <2>1. /\ events' = events \cup {flow[p].session}
        /\ flow[p].pc = "recordSuccess"
        /\ \A q \in Procs : q # p => flow'[q] = flow[q]
        /\ flow'[p].pc = "resolve" /\ flow'[p].session = flow[p].session
        /\ UNCHANGED cookies
    BY <1>5 DEF RecordSuccess
  <2> HIDE DEF Typed, LoginTypeOK
  <2> QED
    BY <1>1, <2>1 DEF EventsAreFacts
<1>6. ASSUME NEW p \in Procs, ResolveSession(p)
      PROVE  EventsAreFacts' /\ \A q \in Procs : Holds(q)'
  <2>1. /\ UNCHANGED <<events, cookies>>
        /\ flow[p].pc = "resolve"
        /\ \A q \in Procs : q # p => flow'[q] = flow[q]
        /\ flow'[p].pc \in {"resolveUser", "idle"}
        /\ flow'[p].pc = "resolveUser" => flow'[p].session = flow[p].session
    BY <1>6 DEF ResolveSession
  <2> HIDE DEF Typed, LoginTypeOK
  <2> QED
    BY <1>1, <2>1 DEF EventsAreFacts
<1>7. ASSUME NEW p \in Procs, ResolveUser(p)
      PROVE  EventsAreFacts' /\ \A q \in Procs : Holds(q)'
  <2>1. /\ UNCHANGED events
        /\ flow[p].pc = "resolveUser"
        /\ cookies' \subseteq cookies \cup {flow[p].session}
        /\ \A q \in Procs : q # p => flow'[q] = flow[q]
        /\ flow'[p].pc = "idle"
    BY <1>7 DEF ResolveUser
  <2> HIDE DEF Typed, LoginTypeOK
  <2> QED
    BY <1>1, <2>1 DEF EventsAreFacts
<1>8. ASSUME NEW p \in Procs,
             \/ Arrive(p) \/ AskPicture(p) \/ PutPicture(p) \/ ShowPicture(p)
             \/ RefuseBody(p) \/ AskVerify(p) \/ Judge(p) \/ AfterVerify(p) \/ HostActs(p)
             \/ Allow(p) \/ FailToLogin(p) \/ LoseCommit(p) \/ RecordFailure(p)
             \/ FailToResolve(p)
      PROVE  /\ UNCHANGED <<events, cookies>>
             /\ \A q \in Procs :
                   \/ flow'[q] = flow[q]
                   \/ flow'[q].pc \notin {"recordSuccess", "resolve", "resolveUser"}
  BY <1>8 DEF Arrive, Start, AskPicture, PutPicture, ShowPicture, RefuseBody, AskVerify,
              Judge, AfterVerify, HostActs, Allow, FailToLogin, LoseCommit, AfterFailure,
              RecordFailure, FailToResolve, flowVars, Operations, Stages
<1>9. CASE \/ \E u \in Users : Disable(u) \/ Delete(u)
           \/ UNCHANGED flowVars
           \/ Restart
  <2>1. /\ UNCHANGED <<events, cookies>>
        /\ \A q \in Procs : flow'[q] = flow[q] \/ flow'[q].pc = "idle"
    BY <1>9 DEF Disable, Delete, flowVars, Restart
  <2> QED
    BY <1>3, <2>1
<1> HIDE DEF Typed, LoginTypeOK, Holds
<1> QED
  BY <1>2, <1>3, <1>4, <1>5, <1>6, <1>7, <1>8, <1>9 DEF LoginNext, Serve

\* "Options.Events receives committed facts" (docs/architecture.md:28): for any
\* number of goroutines, whatever transactions fail or lose their answer.
THEOREM EventsAnnounceFacts == LoginSpec => []EventsAreFacts
<1>1. LoginInit => Announced
  BY DEF LoginInit, Announced, EventsAreFacts, At, Idle
<1>2. Announced => EventsAreFacts
  BY DEF Announced
<1> QED
  BY <1>1, <1>2, TypedAlways, AnnouncedNext, PTL DEF LoginSpec

-----------------------------------------------------------------------------
(* Counting goroutines and challenges.                                     *)

LEMMA StoreInvariant == LoginSpec => []IInv
  BY RoutesUseTheStore, ImageInvariant

LEMMA CountSubset ==
    ASSUME NEW S, NEW T, IsFiniteSet(S), T \subseteq S
    PROVE  /\ IsFiniteSet(T)
           /\ Cardinality(T) \in Nat /\ Cardinality(S) \in Nat
           /\ Cardinality(T) <= Cardinality(S)
  BY FS_Subset, FS_CardinalityType

LEMMA CountMore ==
    ASSUME NEW S, NEW T, NEW x, IsFiniteSet(S), x \notin S, T = S \cup {x}
    PROVE  Cardinality(S) \in Nat /\ Cardinality(T) = Cardinality(S) + 1
  BY FS_AddElement, FS_CardinalityType

LEMMA CountLess ==
    ASSUME NEW S, NEW T, NEW x, IsFiniteSet(S), x \in S, T \subseteq S \ {x}
    PROVE  /\ Cardinality(S) \in Nat /\ Cardinality(T) \in Nat
           /\ Cardinality(T) <= Cardinality(S) - 1
           /\ T = S \ {x} => Cardinality(T) = Cardinality(S) - 1
<1>1. IsFiniteSet(S \ {x}) /\ Cardinality(S \ {x}) = Cardinality(S) - 1
  BY FS_RemoveElement
<1>2. Cardinality(T) \in Nat /\ Cardinality(T) <= Cardinality(S \ {x})
  BY <1>1, CountSubset
<1> QED
  BY <1>1, <1>2, FS_CardinalityType

-----------------------------------------------------------------------------
(* Challenges and what they pay for.                                       *)

\* Goroutines that hold an accepted answer they have not used up.
Paid == {p \in Procs :
           \/ flow[p].pc = "challenge" /\ call[p].at = "accepted"
           \/ flow[p].op \in Protected /\ flow[p].pc \in {"guard", "tx", "act"}}
Judged == {c \in Challenges : judged[c] > 0}
PaidFor == checks + Cardinality(Paid) <= Cardinality(Judged)

\* A step uses up what its goroutine paid, or the goroutine pays with an answer of
\* its own, or nothing is paid.
LEMMA PaySteps ==
    ASSUME Typed, IInv, LoginNext
    PROVE  \/ checks' = checks /\ Paid' \subseteq Paid /\ judged' = judged
           \/ \E p \in Procs : Judge(p)
           \/ \E p \in Paid : /\ checks' = checks + 1 /\ judged' = judged
                             /\ Paid' \subseteq Paid \ {p}
<1> DEFINE Same == checks' = checks /\ Paid' \subseteq Paid /\ judged' = judged
           Spends(p) == /\ p \in Paid /\ checks' = checks + 1 /\ judged' = judged
                        /\ Paid' \subseteq Paid \ {p}
<1> USE DEF Paid, At, Goto, Reply, Idle, Typed, LoginTypeOK, IInv, ImageTypeOK, Calls,
            imageVars
<1>1. ASSUME NEW p \in Procs, Arrive(p) PROVE Same
  BY <1>1 DEF Arrive
<1>2. ASSUME NEW p \in Procs, AskPicture(p) PROVE Same
  BY <1>2 DEF AskPicture, Create, Free, flowVars
<1>3. ASSUME NEW p \in Procs, PutPicture(p) PROVE Same
  <2>1. \A q \in Procs : call'[q] = call[q] \/ call'[q].at \in {"issued", "full"}
    BY <1>3 DEF PutPicture, Put
  <2> QED
    BY <1>3, <2>1 DEF PutPicture, Put, flowVars
<1>4. ASSUME NEW p \in Procs, ShowPicture(p) PROVE Same
  BY <1>4 DEF ShowPicture, Return, Free, flowVars
<1>5. ASSUME NEW p \in Procs, RefuseBody(p) PROVE Same
  BY <1>5 DEF RefuseBody
<1>6. ASSUME NEW p \in Procs, AskVerify(p) PROVE Same
  BY <1>6 DEF AskVerify, Verify, flowVars
<1>7. ASSUME NEW p \in Procs, AfterVerify(p) PROVE Same
  <2>1. /\ flow[p].pc = "challenge"
        /\ \A q \in Procs : q # p => flow'[q] = flow[q] /\ call'[q] = call[q]
        /\ UNCHANGED <<checks, judged>>
        /\ call'[p].at = "rest"
    BY <1>7 DEF AfterVerify, Return, Free
  <2>2. p \in Paid' => p \in Paid
    <3>1. CASE call[p].at = "accepted"
      BY <2>1, <3>1
    <3>2. CASE call[p].at # "accepted"
      <4>1. flow'[p].pc = "idle"
        BY <1>7, <3>2 DEF AfterVerify
      <4> QED
        BY <4>1
    <3> QED
      BY <3>1, <3>2
  <2> QED
    BY <2>1, <2>2
<1>8. ASSUME NEW p \in Procs,
             HostActs(p) \/ Succeed(p) \/ FailToLogin(p) \/ LoseCommit(p)
      PROVE  Same \/ Spends(p)
  <2>1. /\ flow[p].pc \in {"tx", "act"}
        /\ \A q \in Procs : q # p => flow'[q] = flow[q]
        /\ flow'[p].pc \in {"idle", "recordFailure", "recordSuccess"}
        /\ UNCHANGED imageVars
        /\ CountCheck(p)
    BY <1>8 DEF HostActs, Succeed, FailToLogin, LoseCommit, AfterFailure
  <2>2. Paid' \subseteq Paid \ {p}
    BY <2>1
  <2>3. CASE flow[p].op \in Protected
    <3>1. p \in Paid
      BY <2>1, <2>3
    <3> QED
      BY <2>1, <2>2, <2>3, <3>1 DEF CountCheck
  <2>4. CASE flow[p].op \notin Protected
    BY <2>1, <2>2, <2>4 DEF CountCheck
  <2> QED
    BY <2>3, <2>4
<1>9. ASSUME NEW p \in Procs, Allow(p) PROVE Same
  <2>1. /\ flow[p].pc = "guard"
        /\ \A q \in Procs : q # p => flow'[q] = flow[q]
        /\ flow'[p].pc \in {"tx", "idle"}
        /\ flow'[p].pc = "tx" => flow'[p].op = flow[p].op
        /\ UNCHANGED <<call, checks, judged>>
    BY <1>9 DEF Allow
  <2> QED
    BY <2>1
<1>10. ASSUME NEW p \in Procs,
              \/ RecordFailure(p) \/ RecordSuccess(p) \/ ResolveSession(p)
              \/ ResolveUser(p) \/ FailToResolve(p)
       PROVE  Same
  BY <1>10 DEF RecordFailure, RecordSuccess, ResolveSession, ResolveUser, FailToResolve
<1>11. ASSUME NEW u \in Users, Disable(u) \/ Delete(u) PROVE Same
  BY <1>11 DEF Disable, Delete
<1>12. CASE Tick /\ UNCHANGED flowVars
  BY <1>12 DEF Tick, flowVars
<1>13. CASE Restart
  BY <1>13 DEF Restart, StartAgain, Free
<1> HIDE DEF Same, Spends, Paid, At, Goto, Reply, Idle, Typed, LoginTypeOK, IInv,
            ImageTypeOK, Calls, imageVars
<1>14. ASSUME NEW p \in Procs,
              Arrive(p) \/ AskPicture(p) \/ RefuseBody(p) \/ AskVerify(p) \/ Serve(p)
       PROVE  Same \/ Judge(p) \/ Spends(p)
  BY <1>1, <1>2, <1>3, <1>4, <1>5, <1>6, <1>7, <1>8, <1>9, <1>10, <1>14 DEF Serve
<1>15. CASE Same
  BY <1>15 DEF Same
<1>16. ASSUME NEW p \in Procs, Spends(p)
       PROVE  \E q \in Paid : /\ checks' = checks + 1 /\ judged' = judged
                             /\ Paid' \subseteq Paid \ {q}
  BY <1>16 DEF Spends
<1> QED
  BY <1>11, <1>12, <1>13, <1>14, <1>15, <1>16 DEF LoginNext

LEMMA PaidForNext ==
    ASSUME Typed, IInv, PaidFor, [LoginNext]_loginVars
    PROVE  PaidFor'
<1>0. /\ IsFiniteSet(Paid) /\ IsFiniteSet(Judged)
      /\ Cardinality(Paid) \in Nat /\ Cardinality(Judged) \in Nat /\ checks \in Nat
      /\ checks + Cardinality(Paid) <= Cardinality(Judged)
  BY SetsAreFinite, CountSubset DEF Paid, Judged, PaidFor, Typed, LoginTypeOK
<1>1. ASSUME checks' = checks, Paid' \subseteq Paid, judged' = judged PROVE PaidFor'
  <2>1. Judged' = Judged
    BY <1>1 DEF Judged
  <2>2. Cardinality(Paid') \in Nat /\ Cardinality(Paid') <= Cardinality(Paid)
    BY <1>0, <1>1, CountSubset
  <2> QED
    BY <1>0, <1>1, <2>1, <2>2 DEF PaidFor
<1>2. ASSUME NEW p \in Paid, checks' = checks + 1, judged' = judged,
             Paid' \subseteq Paid \ {p}
      PROVE  PaidFor'
  <2>1. Judged' = Judged
    BY <1>2 DEF Judged
  <2>2. Cardinality(Paid') \in Nat /\ Cardinality(Paid') <= Cardinality(Paid) - 1
    BY <1>0, <1>2, CountLess
  <2> QED
    BY <1>0, <1>2, <2>1, <2>2 DEF PaidFor
<1>3. ASSUME NEW p \in Procs, Judge(p) PROVE PaidFor'
  <2> DEFINE c == call[p].id
  <2>1. UNCHANGED <<flow, checks>> /\ VerifyAndDelete(p)
    BY <1>3 DEF Judge, flowVars
  <2>2. CASE c # None /\ c \in Open
    <3>1. c \in Challenges /\ judged[c] = 0 /\ judged' = [judged EXCEPT ![c] = @ + 1]
      BY <2>1, <2>2 DEF VerifyAndDelete, Open, IInv, OnceSound
    <3>2. c \notin Judged /\ Judged' = Judged \cup {c}
      BY <3>1 DEF Judged, IInv, ImageTypeOK
    <3>3. Cardinality(Judged') = Cardinality(Judged) + 1
      BY <1>0, <3>2, CountMore
    <3>4. Paid' \subseteq Paid \cup {p}
      BY <2>1 DEF VerifyAndDelete, Paid, IInv, ImageTypeOK
    <3>5. /\ IsFiniteSet(Paid \cup {p})
          /\ Cardinality(Paid \cup {p}) = Cardinality(Paid) \/
               Cardinality(Paid \cup {p}) = Cardinality(Paid) + 1
      BY <1>0, FS_AddElement
    <3>6. Cardinality(Paid') \in Nat /\ Cardinality(Paid') <= Cardinality(Paid \cup {p})
      BY <3>4, <3>5, CountSubset
    <3> QED
      BY <1>0, <2>1, <3>3, <3>5, <3>6 DEF PaidFor
  <2>3. CASE ~(c # None /\ c \in Open)
    <3>1. Paid' \subseteq Paid /\ judged' = judged
      BY <2>1, <2>3 DEF VerifyAndDelete, Paid, IInv, ImageTypeOK
    <3> QED
      BY <1>1, <2>1, <3>1
  <2> QED
    BY <2>2, <2>3
<1>4. CASE UNCHANGED loginVars
  BY <1>0, <1>1, <1>4 DEF loginVars, flowVars, imageVars, Paid
<1> QED
  BY <1>1, <1>2, <1>3, <1>4, PaySteps

\* verifyChallenge (endpoint/challenge.go:24-53) and Module.VerifyChallenge: with any
\* number of goroutines no two requests pass on one challenge.
THEOREM ChecksArePaid == LoginSpec => []EveryCheckIsPaid
<1>1. LoginInit => PaidFor
  <2> SUFFICES ASSUME LoginInit PROVE PaidFor
    OBVIOUS
  <2>1. Paid = {} /\ checks = 0
    BY DEF LoginInit, Paid, Idle
  <2>2. Cardinality(Judged) \in Nat
    BY SetsAreFinite, CountSubset DEF Judged
  <2> QED
    BY <2>1, <2>2, FS_EmptySet DEF PaidFor
<1>2. Typed /\ PaidFor => EveryCheckIsPaid
  <2> SUFFICES ASSUME Typed, PaidFor PROVE checks <= Cardinality(Judged)
    BY DEF EveryCheckIsPaid, Judged
  <2>1. /\ Cardinality(Paid) \in Nat /\ Cardinality(Judged) \in Nat
        /\ checks \in Nat
    BY SetsAreFinite, CountSubset DEF Paid, Judged, Typed, LoginTypeOK
  <2> QED
    BY <2>1 DEF PaidFor
<1> QED
  BY <1>1, <1>2, TypedAlways, StoreInvariant, PaidForNext, PTL DEF LoginSpec

-----------------------------------------------------------------------------
(* Attempts, failures and what the guard knows of them.                    *)

\* Goroutines past the guard for u, and those of them that are to record a failure.
Attempting(u) == {p \in Procs : /\ flow[p].op = "login" /\ flow[p].user = u
                                /\ flow[p].pc \in {"tx", "recordFailure"}}
Recording(u) == {p \in Procs : At(p, "recordFailure") /\ flow[p].user = u}

\* How a step changes them: by neither, but for an attempt the guard lets through;
Quiet == /\ UNCHANGED <<failures, failed, restarts>>
         /\ \A u \in Users :
               /\ Recording(u)' = Recording(u)
               /\ Attempting(u)' \subseteq Attempting(u) \/ failures[u] < Limit
\* by a failure of one that the guard let through;
Fails(p, v) == /\ failed' = [failed EXCEPT ![v] = @ + 1]
               /\ UNCHANGED <<failures, restarts>>
               /\ p \notin Recording(v) /\ Recording(v)' = Recording(v) \cup {p}
               /\ \A u \in Users : /\ u # v => Recording(u)' = Recording(u)
                                   /\ Attempting(u)' \subseteq Attempting(u)
\* or by its record.
Records(p, v) == /\ failures' = [failures EXCEPT ![v] = @ + 1]
                 /\ UNCHANGED <<failed, restarts>>
                 /\ p \in Recording(v) /\ Recording(v)' = Recording(v) \ {p}
                 /\ p \in Attempting(v) /\ Attempting(v)' \subseteq Attempting(v) \ {p}
                 /\ \A u \in Users :
                       u # v => /\ Recording(u)' = Recording(u)
                                /\ Attempting(u)' \subseteq Attempting(u)

LEMMA AttemptSteps ==
    ASSUME Typed, LoginNext
    PROVE  \/ Quiet
           \/ \E p \in Procs, v \in Users : Fails(p, v) \/ Records(p, v)
           \/ Restart
<1> USE DEF At, Goto, Reply, Idle, Typed, LoginTypeOK, Stages, imageVars
<1>1. ASSUME NEW p \in Procs,
             \/ AskPicture(p) \/ PutPicture(p) \/ ShowPicture(p) \/ AskVerify(p) \/ Judge(p)
      PROVE  Quiet
  <2>1. UNCHANGED <<flow, failures, failed, restarts>>
    BY <1>1 DEF AskPicture, Create, PutPicture, Put, ShowPicture, Return, AskVerify,
                Verify, Judge, VerifyAndDelete, flowVars
  <2> QED
    BY <2>1 DEF Quiet, Recording, Attempting
<1>2. ASSUME NEW p \in Procs, UNCHANGED <<failures, failed, restarts>>,
             \A q \in Procs : q # p => flow'[q] = flow[q],
             flow[p].pc # "recordFailure",
             flow'[p].pc \notin {"tx", "recordFailure"} \/ flow'[p].op # "login",
             flow'[p].pc # "recordFailure"
      PROVE  Quiet
  BY <1>2 DEF Quiet, Recording, Attempting
<1>3. ASSUME NEW p \in Procs,
             \/ Arrive(p) \/ RefuseBody(p) \/ AfterVerify(p) \/ HostActs(p) \/ Succeed(p)
             \/ RecordSuccess(p) \/ ResolveSession(p) \/ ResolveUser(p) \/ FailToResolve(p)
      PROVE  Quiet
  <2>1. /\ UNCHANGED <<failures, failed, restarts>>
        /\ \A q \in Procs : q # p => flow'[q] = flow[q]
        /\ flow[p].pc # "recordFailure"
    BY <1>3 DEF Arrive, RefuseBody, AfterVerify, Return, HostActs, Succeed, RecordSuccess,
                ResolveSession, ResolveUser, FailToResolve
  <2>2. /\ flow'[p].pc \notin {"tx", "recordFailure"} \/ flow'[p].op # "login"
        /\ flow'[p].pc # "recordFailure"
    <3>1. ASSUME Arrive(p) \/ AfterVerify(p)
          PROVE  \/ flow'[p].op = "login" /\ flow'[p].pc \in {"guard", "challenge", "idle"}
                 \/ flow'[p].op # "login" /\ flow'[p].pc # "recordFailure"
      BY <3>1 DEF Arrive, AfterVerify, Start, Operations
    <3>2. ASSUME \/ RefuseBody(p) \/ HostActs(p) \/ Succeed(p) \/ RecordSuccess(p)
                 \/ ResolveSession(p) \/ ResolveUser(p) \/ FailToResolve(p)
          PROVE  flow'[p].pc \notin {"tx", "recordFailure"}
      BY <3>2 DEF RefuseBody, HostActs, Succeed, RecordSuccess, ResolveSession,
                  ResolveUser, FailToResolve
    <3> QED
      BY <1>3, <3>1, <3>2
  <2> QED
    BY <1>2, <2>1, <2>2
<1>4. ASSUME NEW p \in Procs, Allow(p) PROVE Quiet
  <2>1. /\ UNCHANGED <<failures, failed, restarts>>
        /\ \A q \in Procs : q # p => flow'[q] = flow[q]
        /\ flow[p].pc = "guard"
        /\ \/ flow'[p].pc = "idle"
           \/ /\ flow'[p].pc = "tx" /\ flow'[p].user = flow[p].user
              /\ failures[flow[p].user] < Limit
    BY <1>4 DEF Allow
  <2> QED
    BY <2>1 DEF Quiet, Recording, Attempting
<1>5. ASSUME NEW p \in Procs, FailToLogin(p) \/ LoseCommit(p)
      PROVE  Quiet \/ \E v \in Users : Fails(p, v)
  <2>0. PICK v \in Users : v = flow[p].user
    BY <1>5 DEF FailToLogin, LoseCommit
  <2>1. /\ UNCHANGED <<failures, restarts>>
        /\ flow[p].pc = "tx"
        /\ AfterFailure(p) /\ CountFailure(p)
    BY <1>5 DEF FailToLogin, LoseCommit
  <2>2. CASE flow[p].op = "login"
    <3>1. /\ failed' = [failed EXCEPT ![v] = @ + 1]
          /\ \A q \in Procs : q # p => flow'[q] = flow[q]
          /\ flow'[p].pc = "recordFailure" /\ flow'[p].user = v /\ flow'[p].op = "login"
      BY <2>0, <2>1, <2>2 DEF AfterFailure, CountFailure
    <3>3. Fails(p, v)
      <4>1. p \notin Recording(v) /\ Recording(v)' = Recording(v) \cup {p}
        BY <2>1, <2>0, <3>1 DEF Recording
      <4>2. \A u \in Users : u # v => Recording(u)' = Recording(u)
        BY <2>1, <2>0, <3>1 DEF Recording
      <4>3. \A u \in Users : Attempting(u)' \subseteq Attempting(u)
        BY <2>1, <2>0, <2>2, <3>1 DEF Attempting
      <4> QED
        BY <2>1, <3>1, <4>1, <4>2, <4>3 DEF Fails
    <3> QED
      BY <2>1, <3>3
  <2>3. CASE flow[p].op # "login"
    <3>1. /\ UNCHANGED failed
          /\ \A q \in Procs : q # p => flow'[q] = flow[q]
          /\ flow'[p].pc = "idle"
      BY <2>1, <2>3 DEF AfterFailure, CountFailure
    <3> QED
      BY <1>2, <2>1, <3>1
  <2> QED
    BY <2>2, <2>3
<1>6. ASSUME NEW p \in Procs, RecordFailure(p)
      PROVE  \E v \in Users : Records(p, v)
  <2>1. PICK v \in Users : v = flow[p].user
    BY <1>6 DEF RecordFailure
  <2>2. /\ UNCHANGED <<failed, restarts>>
        /\ failures' = [failures EXCEPT ![v] = @ + 1]
        /\ flow[p].pc = "recordFailure" /\ flow[p].op = "login"
        /\ \A q \in Procs : q # p => flow'[q] = flow[q]
        /\ flow'[p].pc = "idle"
    BY <1>6, <2>1 DEF RecordFailure
  <2>3. Records(p, v)
    BY <2>1, <2>2 DEF Records, Recording, Attempting
  <2> QED
    BY <2>3
<1>7. ASSUME NEW u \in Users, Disable(u) \/ Delete(u) PROVE Quiet
  BY <1>7 DEF Disable, Delete, Quiet, Recording, Attempting
<1>8. CASE Tick /\ UNCHANGED flowVars
  BY <1>8 DEF Tick, flowVars, Quiet, Recording, Attempting
<1> HIDE DEF At, Goto, Reply, Idle, Typed, LoginTypeOK, Stages, imageVars
<1>9. ASSUME NEW p \in Procs,
             Arrive(p) \/ AskPicture(p) \/ RefuseBody(p) \/ AskVerify(p) \/ Serve(p)
      PROVE  Quiet \/ \E v \in Users : Fails(p, v) \/ Records(p, v)
  BY <1>1, <1>3, <1>4, <1>5, <1>6, <1>9 DEF Serve
<1> QED
  BY <1>7, <1>8, <1>9 DEF LoginNext

LEMMA Finite ==
    ASSUME NEW u \in Users
    PROVE  /\ IsFiniteSet(Recording(u)) /\ IsFiniteSet(Attempting(u))
           /\ Cardinality(Recording(u)) \in Nat /\ Cardinality(Attempting(u)) \in Nat
           /\ Cardinality(Procs) \in Nat
           /\ Cardinality(Attempting(u)) <= Cardinality(Procs)
           /\ Cardinality(Recording(u)) <= Cardinality(Procs)
<1>1. Recording(u) \subseteq Procs /\ Attempting(u) \subseteq Procs
  BY DEF Recording, Attempting
<1> QED
  BY <1>1, SetsAreFinite, CountSubset

\* A restart empties both sets and is counted.
LEMMA RestartForgets ==
    ASSUME Restart, IInv, NEW u \in Users
    PROVE  /\ UNCHANGED <<failures, failed>>
           /\ restarts \in Nat /\ restarts' = restarts + 1
           /\ Cardinality(Recording(u)') = 0 /\ Cardinality(Attempting(u)') = 0
<1>1. Recording(u)' = {} /\ Attempting(u)' = {}
  BY DEF Restart, Recording, Attempting, At, Idle
<1> QED
  BY <1>1, FS_EmptySet, TimeIsBounded DEF Restart, StartAgain, IInv, ImageTypeOK

Counted == restarts = 0 =>
              \A u \in Users : failed[u] = failures[u] + Cardinality(Recording(u))

LEMMA CountedNext ==
    ASSUME Typed, IInv, Counted, [LoginNext]_loginVars
    PROVE  Counted'
<1>0. failures \in [Users -> Nat] /\ failed \in [Users -> Nat]
  BY DEF Typed, LoginTypeOK
<1>1. CASE Quiet
  BY <1>1 DEF Quiet, Counted
<1>2. ASSUME NEW p \in Procs, NEW v \in Users, Fails(p, v) PROVE Counted'
  <2>1. Cardinality(Recording(v)') = Cardinality(Recording(v)) + 1
    BY <1>2, Finite, CountMore DEF Fails
  <2>2. /\ failed' = [failed EXCEPT ![v] = @ + 1] /\ UNCHANGED <<failures, restarts>>
        /\ \A u \in Users : u # v => Recording(u)' = Recording(u)
    BY <1>2 DEF Fails
  <2> QED
    BY <1>0, <2>1, <2>2, Finite DEF Counted
<1>3. ASSUME NEW p \in Procs, NEW v \in Users, Records(p, v) PROVE Counted'
  <2>1. Cardinality(Recording(v)') = Cardinality(Recording(v)) - 1
    BY <1>3, Finite, CountLess DEF Records
  <2>2. /\ failures' = [failures EXCEPT ![v] = @ + 1] /\ UNCHANGED <<failed, restarts>>
        /\ \A u \in Users : u # v => Recording(u)' = Recording(u)
    BY <1>3 DEF Records
  <2> QED
    BY <1>0, <2>1, <2>2, Finite DEF Counted
<1>4. CASE Restart
  <2>1. restarts' # 0
    BY <1>4, TimeIsBounded DEF Restart, StartAgain, IInv, ImageTypeOK
  <2> QED
    BY <2>1 DEF Counted
<1>5. CASE UNCHANGED loginVars
  BY <1>5 DEF loginVars, flowVars, imageVars, Counted, Recording, At
<1> QED
  BY <1>1, <1>2, <1>3, <1>4, <1>5, AttemptSteps

\* AccountService.Login (account.go) records each failure, however the account
\* changes: without a restart the guard has heard of all but those being recorded.
THEOREM FailuresReachTheGuard == LoginSpec => []FailuresAreRecorded
<1>1. LoginInit => Counted
  <2> SUFFICES ASSUME LoginInit, NEW u \in Users
               PROVE  failed[u] = failures[u] + Cardinality(Recording(u))
    BY DEF Counted
  <2>1. Recording(u) = {}
    BY DEF LoginInit, Recording, At, Idle
  <2> QED
    BY <2>1, FS_EmptySet DEF LoginInit
<1>2. Counted => FailuresAreRecorded
  BY DEF Counted, FailuresAreRecorded, Recording
<1> QED
  BY <1>1, <1>2, TypedAlways, StoreInvariant, CountedNext, PTL DEF LoginSpec

\* The guard let through who is attempting, at most one for each goroutine beyond
\* its limit; what failed is recorded, about to be, or was lost in a restart, which
\* loses at most one failure of each goroutine.
Guessed ==
    \A u \in Users :
        /\ failures[u] + Cardinality(Attempting(u)) <= Limit - 1 + Cardinality(Procs)
        /\ failed[u] <= failures[u] + Cardinality(Recording(u))
                         + Cardinality(Procs) * restarts

LEMMA GuessedNext ==
    ASSUME Typed, IInv, Guessed, [LoginNext]_loginVars
    PROVE  Guessed'
<1>0. /\ failures \in [Users -> Nat] /\ failed \in [Users -> Nat]
      /\ restarts \in Nat /\ Cardinality(Procs) \in Nat /\ Limit \in Nat \ {0}
      /\ Cardinality(Procs) * restarts \in Nat
  <2>1. restarts \in Nat /\ Cardinality(Procs) \in Nat
    BY SetsAreFinite, FS_CardinalityType, TimeIsBounded DEF IInv, ImageTypeOK
  <2> QED
    BY <2>1, LimitIsPositive DEF Typed, LoginTypeOK
<1>1. CASE Quiet
  <2> SUFFICES ASSUME NEW u \in Users
               PROVE  /\ failures'[u] + Cardinality(Attempting(u)') <=
                            Limit - 1 + Cardinality(Procs)
                      /\ failed'[u] <= failures'[u] + Cardinality(Recording(u)')
                                        + Cardinality(Procs) * restarts'
    BY DEF Guessed
  <2>1. Recording(u)' = Recording(u) /\ UNCHANGED <<failures, failed, restarts>>
    BY <1>1 DEF Quiet
  <2>2. failures[u] + Cardinality(Attempting(u)') <= Limit - 1 + Cardinality(Procs)
    <3>1. CASE Attempting(u)' \subseteq Attempting(u)
      <4>1. /\ Cardinality(Attempting(u)') \in Nat
            /\ Cardinality(Attempting(u)') <= Cardinality(Attempting(u))
        BY <3>1, Finite, CountSubset
      <4> QED
        BY <1>0, <4>1, Finite DEF Guessed
    <3>2. CASE failures[u] < Limit
      <4>1. Attempting(u)' \subseteq Procs
        BY DEF Attempting
      <4>2. /\ Cardinality(Attempting(u)') \in Nat
            /\ Cardinality(Attempting(u)') <= Cardinality(Procs)
        BY <4>1, SetsAreFinite, CountSubset
      <4> QED
        BY <1>0, <3>2, <4>2
    <3> QED
      BY <1>1, <3>1, <3>2 DEF Quiet
  <2> QED
    BY <2>1, <2>2 DEF Guessed
<1>2. ASSUME NEW p \in Procs, NEW v \in Users, Fails(p, v) PROVE Guessed'
  <2>1. Cardinality(Recording(v)') = Cardinality(Recording(v)) + 1
    BY <1>2, Finite, CountMore DEF Fails
  <2>2. \A u \in Users : /\ Cardinality(Attempting(u)') \in Nat
                         /\ Cardinality(Attempting(u)') <= Cardinality(Attempting(u))
    BY <1>2, Finite, CountSubset DEF Fails
  <2>3. /\ failed' = [failed EXCEPT ![v] = @ + 1]
        /\ UNCHANGED <<failures, restarts>>
        /\ \A u \in Users : u # v => Recording(u)' = Recording(u)
    BY <1>2 DEF Fails
  <2>4. \A u \in Users : failures'[u] + Cardinality(Attempting(u)') <=
                            Limit - 1 + Cardinality(Procs)
    BY <1>0, <2>2, <2>3, Finite DEF Guessed
  <2>5. \A u \in Users : failed'[u] <= failures'[u] + Cardinality(Recording(u)')
                                        + Cardinality(Procs) * restarts'
    BY <1>0, <2>1, <2>3, Finite DEF Guessed
  <2> QED
    BY <2>4, <2>5 DEF Guessed
<1>3. ASSUME NEW p \in Procs, NEW v \in Users, Records(p, v) PROVE Guessed'
  <2>1. Cardinality(Recording(v)') = Cardinality(Recording(v)) - 1
    BY <1>3, Finite, CountLess DEF Records
  <2>2. /\ Cardinality(Attempting(v)') \in Nat
        /\ Cardinality(Attempting(v)') <= Cardinality(Attempting(v)) - 1
    BY <1>3, Finite, CountLess DEF Records
  <2>3. \A u \in Users :
           u # v => /\ Cardinality(Attempting(u)') \in Nat
                    /\ Cardinality(Attempting(u)') <= Cardinality(Attempting(u))
    BY <1>3, Finite, CountSubset DEF Records
  <2>4. /\ failures' = [failures EXCEPT ![v] = @ + 1]
        /\ UNCHANGED <<failed, restarts>>
        /\ \A u \in Users : u # v => Recording(u)' = Recording(u)
    BY <1>3 DEF Records
  <2>5. \A u \in Users : failures'[u] + Cardinality(Attempting(u)') <=
                            Limit - 1 + Cardinality(Procs)
    BY <1>0, <2>2, <2>3, <2>4, Finite DEF Guessed
  <2>6. \A u \in Users : failed'[u] <= failures'[u] + Cardinality(Recording(u)')
                                        + Cardinality(Procs) * restarts'
    BY <1>0, <2>1, <2>4, Finite DEF Guessed
  <2> QED
    BY <2>5, <2>6 DEF Guessed
<1>4. CASE Restart
  <2> SUFFICES ASSUME NEW u \in Users
               PROVE  /\ failures'[u] + Cardinality(Attempting(u)') <=
                            Limit - 1 + Cardinality(Procs)
                      /\ failed'[u] <= failures'[u] + Cardinality(Recording(u)')
                                        + Cardinality(Procs) * restarts'
    BY DEF Guessed
  <2>1. Cardinality(Procs) * restarts' = Cardinality(Procs) * restarts + Cardinality(Procs)
    BY <1>0, <1>4, RestartForgets
  <2>2. /\ failures[u] + Cardinality(Attempting(u)) <= Limit - 1 + Cardinality(Procs)
        /\ failed[u] <= failures[u] + Cardinality(Recording(u))
                         + Cardinality(Procs) * restarts
    BY DEF Guessed
  <2>3. /\ UNCHANGED <<failures, failed>>
        /\ Cardinality(Recording(u)') = 0 /\ Cardinality(Attempting(u)') = 0
    BY <1>4, RestartForgets
  <2> QED
    BY <1>0, <2>1, <2>2, <2>3, Finite
<1>5. CASE UNCHANGED loginVars
  BY <1>5 DEF loginVars, flowVars, imageVars, Guessed, Recording, Attempting, At
<1> QED
  BY <1>1, <1>2, <1>3, <1>4, <1>5, AttemptSteps

\* LoginGuard.Allow is asked before the password is checked and Record told after it:
\* for any limit and number of goroutines that lets through at most Limit - 1 failures
\* and one for each goroutine, and as many again for each restart.
THEOREM GuessesStayBounded == LoginSpec => []GuessesAreBounded
<1>1. LoginInit => Guessed
  <2> SUFFICES ASSUME LoginInit, NEW u \in Users
               PROVE  /\ failures[u] + Cardinality(Attempting(u)) <=
                            Limit - 1 + Cardinality(Procs)
                      /\ failed[u] <= failures[u] + Cardinality(Recording(u))
                                       + Cardinality(Procs) * restarts
    BY DEF Guessed
  <2>1. Recording(u) = {} /\ Attempting(u) = {}
    BY DEF LoginInit, Recording, Attempting, At, Idle
  <2>2. failures[u] = 0 /\ failed[u] = 0 /\ restarts = 0
    BY DEF LoginInit, ImageInit
  <2> QED
    BY <2>1, <2>2, FS_EmptySet, Finite, LimitIsPositive
<1>2. ASSUME Typed, IInv, Guessed PROVE GuessesAreBounded
  <2> SUFFICES ASSUME NEW u \in Users
               PROVE  failed[u] <= Limit - 1 + Cardinality(Procs) * (restarts + 1)
    BY DEF GuessesAreBounded
  <2>1. Cardinality(Recording(u)) <= Cardinality(Attempting(u))
    <3>1. Recording(u) \subseteq Attempting(u)
      BY <1>2 DEF Recording, Attempting, At, Typed, Stages
    <3> QED
      BY <3>1, Finite, CountSubset
  <2>2. /\ restarts \in Nat /\ Cardinality(Procs) \in Nat
        /\ failures[u] \in Nat /\ failed[u] \in Nat
    BY <1>2, SetsAreFinite, FS_CardinalityType, TimeIsBounded
       DEF IInv, ImageTypeOK, Typed, LoginTypeOK
  <2>3. /\ Cardinality(Procs) * (restarts + 1)
             = Cardinality(Procs) * restarts + Cardinality(Procs)
        /\ Cardinality(Procs) * restarts \in Nat
    BY <2>2
  <2>4. /\ failures[u] + Cardinality(Attempting(u)) <= Limit - 1 + Cardinality(Procs)
        /\ failed[u] <= failures[u] + Cardinality(Recording(u))
                         + Cardinality(Procs) * restarts
    BY <1>2 DEF Guessed
  <2> QED
    BY <2>1, <2>2, <2>3, <2>4, Finite, LimitIsPositive
<1> QED
  BY <1>1, <1>2, TypedAlways, StoreInvariant, GuessedNext, PTL DEF LoginSpec
=============================================================================
