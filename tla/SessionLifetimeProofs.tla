------------------------ MODULE SessionLifetimeProofs ------------------------
(***************************************************************************)
(* The invariants of SessionLifetime, for any number of requests, accounts *)
(* and sessions and for all durations.  None of them is inductive: what a   *)
(* request may do next depends on the row it read and on what happened to   *)
(* the table since.  IInv says how the two are related.                     *)
(***************************************************************************)
EXTENDS SessionLifetime, TLAPS

\* On SQLite, disabling or deleting an account leaves it no live session.
LiveIsOfActive ==
    isolation = "Serializable" =>
        \A s \in Sessions :
            sessions[s].state = "live" => users[sessions[s].user] = "active"

\* While nothing was committed, the account that is about to get a session is
\* still what it was when it was found active.
Creating(p) == req[p].pc = "insert" =>
    /\ req[p].user \in Users
    /\ p \notin stale => users[req[p].user] = "active"

Serving(p) == req[p].pc \notin {"idle", "insert"} =>
    req[p].id \in Sessions /\ sessions[req[p].id].state # "unused"

\* Having read the row of a session that is still live, a request has not read
\* a later last_seen_at than the table holds.
ReadBefore(p) == req[p].pc \in {"check", "user", "touch"} =>
    /\ req[p].row \in SessionRows
    /\ sessions[req[p].id].state = "live" =>
         req[p].row.seen <= sessions[req[p].id].seen

\* What is about to be admitted is less than Touch later than last_seen_at.
Touched(p) == req[p].pc = "claims" =>
    (sessions[req[p].id].state = "live" =>
         req[p].now < sessions[req[p].id].seen + Touch)

\* A request that came too late will be refused when its row is checked.
LateIsRefused(p) == req[p].late /\ req[p].pc \notin {"idle", "insert"} =>
    /\ Over(req[p].id)
    /\ req[p].pc \notin {"user", "touch", "claims"}
    /\ req[p].pc = "check" => \/ req[p].row.state # "live"
                              \/ req[p].row.expires <= clock

Sound(p) == /\ Creating(p) /\ Serving(p) /\ ReadBefore(p) /\ Touched(p)
            /\ LateIsRefused(p)

IInv == TypeOK /\ LiveIsOfActive /\ SeenLagsByTouch /\ \A p \in Procs : Sound(p)

-----------------------------------------------------------------------------

\* What any step may do to a row.
Evolves(s) ==
    /\ sessions[s].state # "unused" => sessions'[s].state # "unused"
    /\ sessions'[s].state = "live" => sessions[s].state \in {"unused", "live"}
    /\ sessions[s].state = "live" /\ sessions'[s].state = "live" =>
         /\ sessions'[s].seen >= sessions[s].seen
         /\ sessions'[s].expires = sessions[s].expires

\* A change of the accounts overtakes the creations that are under way.
Overtakes ==
    \A p \in Procs : req[p].pc = "insert" /\ p \notin stale' =>
        \/ p \notin stale /\ users' = users
        \/ req'[p].pc = "idle"

Evolution == /\ clock' >= clock /\ isolation' = isolation /\ Overtakes
             /\ \A s \in Sessions : Evolves(s)

\* A request is not disturbed by what the others do to the table.
LEMMA OthersKeepSound ==
  ASSUME IInv, TypeOK', Evolution, NEW p \in Procs, req'[p] = req[p]
  PROVE  Sound(p)'
  <1> DEFINE s == req[p].id
  <1>1. CASE req[p].pc = "idle"
    BY <1>1 DEF Sound, Creating, Serving, ReadBefore, Touched, LateIsRefused
  <1>3. CASE req[p].pc = "insert"
    <2>1. Creating(p)'
      BY <1>3 DEF IInv, Sound, Creating, Evolution, Overtakes
    <2> QED
      BY <1>3, <2>1 DEF Sound, Serving, ReadBefore, Touched, LateIsRefused
  <1>2. CASE req[p].pc \notin {"idle", "insert"}
    <2>1. s \in Sessions /\ sessions[s].state # "unused"
      BY <1>2 DEF IInv, Sound, Serving
    <2>2. Evolves(s) /\ clock' >= clock
      BY <2>1 DEF Evolution
    <2>3. /\ sessions[s] \in SessionRows /\ sessions'[s] \in SessionRows
          /\ clock \in Nat /\ clock' \in Nat /\ req[p] \in Requests
      BY <2>1 DEF IInv, TypeOK
    <2>4. Serving(p)'
      BY <2>1, <2>2 DEF Serving, Evolves
    <2>5. ReadBefore(p)'
      BY <2>1, <2>2, <2>3 DEF IInv, Sound, ReadBefore, Evolves, SessionRows
    <2>6. Touched(p)'
      BY <2>1, <2>2, <2>3, DurationsAreNatural
         DEF IInv, Sound, Touched, Evolves, SessionRows, Requests
    <2>7. LateIsRefused(p)'
      <3> SUFFICES ASSUME req[p].late PROVE LateIsRefused(p)'
        BY DEF LateIsRefused
      <3>1. LateIsRefused(p)
        BY DEF IInv, Sound
      <3>2. Over(s)'
        BY <1>2, <2>1, <2>2, <2>3, <3>1 DEF LateIsRefused, Over, Evolves, SessionRows
      <3>3. req[p].pc = "check" => \/ req[p].row.state # "live"
                                   \/ req[p].row.expires <= clock'
        <4> SUFFICES ASSUME req[p].pc = "check", req[p].row.expires <= clock
                     PROVE  req[p].row.expires <= clock'
          BY <1>2, <3>1 DEF LateIsRefused
        <4>1. req[p].row.expires \in Nat
          BY DEF IInv, Sound, ReadBefore, SessionRows
        <4> QED
          BY <2>2, <2>3, <4>1
      <3> QED
        BY <1>2, <3>1, <3>2, <3>3 DEF LateIsRefused
    <2>8. Creating(p)'
      BY <1>2 DEF Creating
    <2> QED
      BY <2>4, <2>5, <2>6, <2>7, <2>8 DEF Sound
  <1> QED
    BY <1>1, <1>2, <1>3

\* So a step of one request need only look after that request and the table.
LEMMA ServeKeepsIInv ==
  ASSUME IInv, NEW p \in Procs, NEW row \in Requests,
         req' = [req EXCEPT ![p] = row],
         TypeOK', Evolution, LiveIsOfActive', SeenLagsByTouch', Sound(p)'
  PROVE  IInv'
  <1>1. ASSUME NEW q \in Procs PROVE Sound(q)'
    <2>1. CASE q = p
      BY <2>1
    <2>2. CASE q # p
      BY <2>2, OthersKeepSound DEF IInv, TypeOK
    <2> QED
      BY <2>1, <2>2
  <1> QED
    BY <1>1 DEF IInv

LEMMA OthersKeepIInv ==
  ASSUME IInv, UNCHANGED req, TypeOK', Evolution, LiveIsOfActive', SeenLagsByTouch'
  PROVE  IInv'
  <1>1. ASSUME NEW q \in Procs PROVE Sound(q)'
    BY OthersKeepSound
  <1> QED
    BY <1>1 DEF IInv

LEMMA CommitOvertakes == Commit => Overtakes
  BY DEF Commit, At, Overtakes

LEMMA SameTable ==
  ASSUME IInv, UNCHANGED <<isolation, clock, users, sessions, stale, lastUse>>
  PROVE  Evolution /\ LiveIsOfActive' /\ SeenLagsByTouch'
  BY DEF IInv, TypeOK, Evolution, Overtakes, Evolves, LiveIsOfActive, SeenLagsByTouch,
         SessionRows

-----------------------------------------------------------------------------

LEMMA InitIInv == Init => IInv
  <1> SUFFICES ASSUME Init PROVE IInv
    OBVIOUS
  <1>1. TypeOK
    BY DEF Init, TypeOK, UserStates, SessionRows, Requests, Ready
  <1>2. LiveIsOfActive /\ SeenLagsByTouch
    BY DEF Init, LiveIsOfActive, SeenLagsByTouch
  <1>3. ASSUME NEW p \in Procs PROVE Sound(p)
    BY DEF Init, Ready, Sound, Creating, Serving, ReadBefore, Touched, LateIsRefused
  <1> QED
    BY <1>1, <1>2, <1>3 DEF IInv

\* A goroutine that is idle claims nothing.
LEMMA ReturnStep ==
  ASSUME IInv, NEW p \in Procs, Return(p),
         TypeOK', Evolution, LiveIsOfActive', SeenLagsByTouch'
  PROVE  IInv'
  <1>1. Ready \in Requests
    BY DEF Ready, Requests
  <1>2. Sound(p)'
    BY <1>1 DEF Return, Ready, IInv, TypeOK, Sound, Creating, Serving, ReadBefore,
                Touched, LateIsRefused
  <1> QED
    BY <1>1, <1>2, ServeKeepsIInv DEF Return

LEMMA BareReturnStep ==
  ASSUME IInv, NEW p \in Procs, Return(p), stale' \in {stale, stale \ {p}},
         UNCHANGED <<isolation, clock, users, sessions, lastUse>>
  PROVE  IInv' /\ Evolution
  <1>1. TypeOK'
    BY DEF IInv, TypeOK, Return, Ready, Requests
  <1>2. Evolution
    BY DEF IInv, TypeOK, Return, Ready, Evolution, Overtakes, Evolves, SessionRows
  <1>3. LiveIsOfActive' /\ SeenLagsByTouch'
    BY DEF IInv, LiveIsOfActive, SeenLagsByTouch
  <1> QED
    BY <1>1, <1>2, <1>3, ReturnStep

\* A session that has ended is over: LiveIsOfActive rules out the others.
LEMMA EndedIsOver ==
  ASSUME IInv, NEW s \in Sessions, sessions[s].state # "unused", Ended(s)
  PROVE  Over(s)
  BY DEF IInv, TypeOK, LiveIsOfActive, Ended, Over, SessionRows

LEMMA BeginStep ==
  ASSUME IInv, NEW p \in Procs, NEW s \in Sessions, sessions[s].state # "unused",
         NEW step \in {"get", "find", "revoke"}, NEW now \in Nat,
         Begin(p, step, s, now), UNCHANGED isolation
  PROVE  IInv'
  <1> DEFINE row == [Ready EXCEPT !.pc = step, !.id = s, !.now = now,
                                  !.late = Ended(s)]
  <1>1. Ended(s) \in BOOLEAN
    BY DEF Ended
  <1>2. row \in Requests
    BY <1>1 DEF Ready, Requests
  <1>3. /\ req' = [req EXCEPT ![p] = row]
        /\ UNCHANGED <<isolation, clock, users, sessions, stale, lastUse>>
    BY DEF Begin
  <1>4. TypeOK'
    BY <1>2, <1>3 DEF IInv, TypeOK
  <1>5. req'[p] = row
    BY <1>3 DEF IInv, TypeOK
  <1>6. Sound(p)'
    <2>1. Ended(s) => Over(s)'
      BY <1>3, EndedIsOver DEF Over
    <2>2. /\ req'[p].id = s /\ req'[p].late = Ended(s)
          /\ req'[p].pc \in {"get", "find", "revoke"}
      BY <1>5 DEF Ready
    <2>3. Creating(p)' /\ Serving(p)' /\ ReadBefore(p)' /\ Touched(p)'
      BY <1>3, <2>2 DEF Creating, Serving, ReadBefore, Touched
    <2>4. LateIsRefused(p)'
      BY <2>1, <2>2 DEF LateIsRefused, Over
    <2> QED
      BY <2>3, <2>4 DEF Sound
  <1> QED
    BY <1>2, <1>3, <1>4, <1>6, SameTable, ServeKeepsIInv

\* The steps of Resolve.
LEMMA GetStep ==
  ASSUME IInv, NEW p \in Procs, GetSessionByTokenHash(p), UNCHANGED isolation
  PROVE  IInv'
  <1> DEFINE row == [req[p] EXCEPT !.pc = "check", !.row = sessions[req[p].id]]
  <1>1. CASE Return(p)
    BY <1>1, BareReturnStep DEF GetSessionByTokenHash
  <1>2. CASE req' = [req EXCEPT ![p].pc = "check", ![p].row = sessions[req[p].id]]
             /\ Row(req[p].id)
    <2>1. /\ req[p] \in Requests /\ req[p].pc = "get"
          /\ sessions[req[p].id] \in SessionRows
          /\ UNCHANGED <<isolation, clock, users, sessions, stale, lastUse>>
      BY <1>2 DEF IInv, TypeOK, GetSessionByTokenHash, At, Row
    <2>2. row \in Requests /\ req' = [req EXCEPT ![p] = row]
      BY <1>2, <2>1 DEF IInv, TypeOK, Requests
    <2>3. TypeOK' /\ req'[p] = row
      BY <2>1, <2>2 DEF IInv, TypeOK
    <2>4. row.row = sessions[req[p].id] /\ row.id = req[p].id /\ row.pc = "check"
          /\ row.late = req[p].late
      BY <2>1 DEF Requests
    <2>a. /\ req'[p].row = sessions'[req'[p].id] /\ req'[p].row \in SessionRows
          /\ req'[p].pc = "check" /\ req'[p].id \in Sessions
          /\ req'[p].row.state # "unused"
      BY <1>2, <2>1, <2>3, <2>4 DEF Row
    <2> HIDE DEF row
    <2>b. Creating(p)' /\ Serving(p)' /\ Touched(p)'
      BY <2>a DEF Creating, Serving, Touched
    <2>c. ReadBefore(p)'
      BY <2>a DEF ReadBefore, SessionRows
    <2>5. Creating(p)' /\ Serving(p)' /\ ReadBefore(p)' /\ Touched(p)'
      BY <2>b, <2>c
    <2>6. LateIsRefused(p)'
      BY <2>1, <2>3, <2>4 DEF IInv, Sound, LateIsRefused, Over
    <2> QED
      BY <2>1, <2>2, <2>3, <2>5, <2>6, SameTable, ServeKeepsIInv DEF Sound
  <1> QED
    BY <1>1, <1>2 DEF GetSessionByTokenHash

LEMMA CheckStep ==
  ASSUME IInv, NEW p \in Procs, CheckSession(p), UNCHANGED isolation
  PROVE  IInv'
  <1> DEFINE row == [req[p] EXCEPT !.pc = "user", !.now = clock]
  <1>1. CASE Return(p)
    BY <1>1, BareReturnStep DEF CheckSession
  <1>2. CASE req' = [req EXCEPT ![p].pc = "user", ![p].now = clock]
             /\ Good(req[p].row, clock)
    <2>1. /\ req[p] \in Requests /\ req[p].pc = "check" /\ clock \in Nat
          /\ req[p].row \in SessionRows
          /\ UNCHANGED <<isolation, clock, users, sessions, stale, lastUse>>
      BY DEF IInv, TypeOK, CheckSession, At, Sound, ReadBefore
    <2>2. row \in Requests /\ req' = [req EXCEPT ![p] = row]
      BY <1>2, <2>1 DEF IInv, TypeOK, Requests
    <2>3. TypeOK' /\ req'[p] = row
      BY <2>1, <2>2 DEF IInv, TypeOK
    <2>4. ~req[p].late
      BY <1>2, <2>1 DEF IInv, Sound, LateIsRefused, Good, SessionRows
    <2>5. Sound(p)'
      BY <2>1, <2>3, <2>4
         DEF IInv, Sound, Creating, Serving, ReadBefore, Touched, LateIsRefused,
             Requests
    <2> QED
      BY <2>1, <2>2, <2>3, <2>5, SameTable, ServeKeepsIInv
  <1> QED
    BY <1>1, <1>2 DEF CheckSession

\* A request moves on in the code and leaves the table alone.
LEMMA GotoStep ==
  ASSUME IInv, NEW p \in Procs, NEW step \in {"touch", "claims"},
         req[p].pc = "user", step = "claims" => ~TouchIsDue(p), Goto(p, step),
         UNCHANGED <<isolation, clock, users, sessions, stale, lastUse>>
  PROVE  IInv'
  <1> DEFINE row == [req[p] EXCEPT !.pc = step]
  <1>1. req[p] \in Requests /\ row \in Requests /\ req' = [req EXCEPT ![p] = row]
    BY DEF IInv, TypeOK, Requests, Goto
  <1>2. TypeOK' /\ req'[p] = row
    BY <1>1 DEF IInv, TypeOK
  <1>3. /\ row.pc = step /\ row.id = req[p].id /\ row.row = req[p].row
        /\ row.now = req[p].now /\ row.late = req[p].late
    BY <1>1 DEF Requests
  <1>4. ~req[p].late
    BY DEF IInv, Sound, LateIsRefused
  <1>5. Creating(p)' /\ Serving(p)' /\ ReadBefore(p)' /\ LateIsRefused(p)'
    BY <1>2, <1>3, <1>4 DEF IInv, Sound, Creating, Serving, ReadBefore, LateIsRefused
  <1>6. Touched(p)'
    <2>1. req[p].row \in SessionRows /\ req[p].now \in Nat
      BY <1>1 DEF IInv, Sound, ReadBefore, Requests
    <2>2. sessions[req[p].id] \in SessionRows
      BY DEF IInv, TypeOK, Sound, Serving
    <2>3. step = "claims" /\ sessions[req[p].id].state = "live"
            => req[p].now < sessions[req[p].id].seen + Touch
      BY <2>1, <2>2, DurationsAreNatural
         DEF TouchIsDue, IInv, Sound, ReadBefore, SessionRows
    <2> QED
      BY <1>2, <1>3, <2>3 DEF Touched
  <1> QED
    BY <1>1, <1>2, <1>5, <1>6, SameTable, ServeKeepsIInv DEF Sound

LEMMA UserStep == ASSUME IInv, NEW p \in Procs, UserByID(p), UNCHANGED isolation PROVE IInv'
  <1>1. CASE Return(p)
    BY <1>1, BareReturnStep DEF UserByID
  <1>2. CASE Goto(p, "touch")
    BY <1>2, GotoStep DEF UserByID, At
  <1>3. CASE Goto(p, "claims") /\ ~TouchIsDue(p)
    BY <1>3, GotoStep DEF UserByID, At
  <1> QED
    BY <1>1, <1>2, <1>3 DEF UserByID

LEMMA TouchStep ==
  ASSUME IInv, NEW p \in Procs, TouchSession(p), UNCHANGED isolation
  PROVE  IInv' /\ Evolution
  <1> DEFINE s == req[p].id
             row == [req[p] EXCEPT !.pc = "claims"]
             open == sessions[s].state = "live" /\ sessions[s].seen <= req[p].now - Touch
  <1>1. /\ req[p] \in Requests /\ req[p].pc = "touch" /\ s \in Sessions
        /\ sessions[s] \in SessionRows /\ req[p].now \in Nat
        /\ UNCHANGED <<isolation, clock, users, lastUse>> /\ Commit
    BY DEF IInv, TypeOK, TouchSession, At, Sound, Serving, Requests
  <1>2. row \in Requests /\ req' = [req EXCEPT ![p] = row]
    BY <1>1 DEF IInv, TypeOK, Requests, TouchSession, Goto
  <1>3. sessions' = IF open THEN [sessions EXCEPT ![s].seen = req[p].now] ELSE sessions
    BY DEF TouchSession
  <1>4. TypeOK' /\ req'[p] = row
    <2>1. stale' \subseteq Procs
      BY <1>1 DEF Commit, IInv, TypeOK
    <2>2. sessions' \in [Sessions -> SessionRows]
      BY <1>1, <1>3 DEF IInv, TypeOK, SessionRows
    <2> QED
      BY <1>1, <1>2, <2>1, <2>2 DEF IInv, TypeOK
  <1>5. ASSUME NEW r \in Sessions
        PROVE  /\ sessions'[r].state = sessions[r].state
               /\ sessions'[r].user = sessions[r].user
               /\ sessions'[r].expires = sessions[r].expires
               /\ sessions[r].state = "live" => sessions'[r].seen >= sessions[r].seen
    BY <1>1, <1>3, DurationsAreNatural DEF IInv, TypeOK, SessionRows
  <1>6. Evolution
    BY <1>1, <1>5, CommitOvertakes DEF Evolution, Evolves, IInv, TypeOK
  <1>7. LiveIsOfActive'
    BY <1>1, <1>5 DEF IInv, LiveIsOfActive
  <1>8. SeenLagsByTouch'
    <2> SUFFICES ASSUME NEW r \in Sessions, sessions'[r].state = "live"
                 PROVE  lastUse[r] < sessions'[r].seen + Touch
      BY <1>1 DEF SeenLagsByTouch
    <2>1. lastUse[r] < sessions[r].seen + Touch /\ sessions'[r].seen >= sessions[r].seen
      BY <1>5 DEF IInv, SeenLagsByTouch
    <2>2. /\ lastUse[r] \in Nat /\ sessions[r].seen \in Nat /\ sessions'[r].seen \in Nat
      BY <1>4 DEF IInv, TypeOK, SessionRows
    <2> QED
      BY <2>1, <2>2, DurationsAreNatural
  <1>9. Sound(p)'
    <2>1. /\ row.pc = "claims" /\ row.id = s /\ row.now = req[p].now
          /\ row.late = req[p].late
      BY <1>1 DEF Requests
    <2>2. ~req[p].late
      BY <1>1 DEF IInv, Sound, LateIsRefused
    <2>3. sessions'[s].state = "live" => req[p].now < sessions'[s].seen + Touch
      BY <1>1, <1>3, <1>5, DurationsAreNatural DEF IInv, TypeOK, SessionRows
    <2>4. sessions'[s].state # "unused"
      BY <1>1, <1>5 DEF IInv, Sound, Serving
    <2> HIDE DEF row
    <2> QED
      BY <1>1, <1>4, <2>1, <2>2, <2>3, <2>4
         DEF Sound, Creating, Serving, ReadBefore, Touched, LateIsRefused
  <1> QED
    BY <1>2, <1>4, <1>6, <1>7, <1>8, <1>9, ServeKeepsIInv

LEMMA AdmitStep == ASSUME IInv, NEW p \in Procs, Admit(p), UNCHANGED isolation PROVE IInv'
  <1> DEFINE s == req[p].id
  <1>1. /\ req[p].pc = "claims" /\ s \in Sessions /\ req[p].now \in Nat
        /\ Return(p) /\ UNCHANGED <<isolation, clock, users, sessions, stale>>
    BY DEF IInv, TypeOK, Admit, At, Sound, Serving, Requests
  <1>2. lastUse' = IF lastUse[s] < req[p].now
                   THEN [lastUse EXCEPT ![s] = req[p].now] ELSE lastUse
    BY DEF Admit
  <1>3. TypeOK'
    BY <1>1, <1>2 DEF IInv, TypeOK, Return, Ready, Requests
  <1>4. Evolution /\ LiveIsOfActive'
    BY <1>1 DEF IInv, TypeOK, Evolution, Overtakes, Evolves, LiveIsOfActive, SessionRows
  <1>5. SeenLagsByTouch'
    <2> SUFFICES ASSUME NEW r \in Sessions, sessions[r].state = "live"
                 PROVE  lastUse'[r] < sessions[r].seen + Touch
      BY <1>1 DEF SeenLagsByTouch
    <2>1. lastUse[r] < sessions[r].seen + Touch
      BY DEF IInv, SeenLagsByTouch
    <2>2. r = s => req[p].now < sessions[r].seen + Touch
      BY <1>1 DEF IInv, Sound, Touched
    <2> QED
      BY <1>1, <1>2, <2>1, <2>2 DEF IInv, TypeOK
  <1> QED
    BY <1>1, <1>3, <1>4, <1>5, ReturnStep

\* Ending sessions.
LEMMA FindStep == ASSUME IInv, NEW p \in Procs, FindToRevoke(p), UNCHANGED isolation PROVE IInv'
  <1> DEFINE row == [req[p] EXCEPT !.pc = "revoke", !.now = clock]
  <1>1. CASE Return(p)
    BY <1>1, BareReturnStep DEF FindToRevoke
  <1>2. CASE req' = [req EXCEPT ![p].pc = "revoke", ![p].now = clock]
    <2>1. /\ req[p] \in Requests /\ req[p].pc = "find" /\ clock \in Nat
          /\ UNCHANGED <<isolation, clock, users, sessions, stale, lastUse>>
      BY DEF IInv, TypeOK, FindToRevoke, At
    <2>2. row \in Requests /\ req' = [req EXCEPT ![p] = row]
      BY <1>2, <2>1 DEF IInv, TypeOK, Requests
    <2>3. TypeOK' /\ req'[p] = row
      BY <2>1, <2>2 DEF IInv, TypeOK
    <2>4. Sound(p)'
      BY <2>1, <2>3 DEF IInv, Sound, Creating, Serving, ReadBefore, Touched, LateIsRefused,
                        Requests, Over
    <2> QED
      BY <2>1, <2>2, <2>3, <2>4, SameTable, ServeKeepsIInv
  <1> QED
    BY <1>1, <1>2 DEF FindToRevoke

\* What revokes or deletes rows, and leaves the rest alone, is sound.
LEMMA EndingStep ==
  ASSUME IInv, TypeOK', UNCHANGED <<isolation, clock, lastUse>>, Commit,
         \A s \in Sessions :
            /\ sessions'[s].user = sessions[s].user
            /\ \/ sessions'[s] = sessions[s]
               \/ sessions[s].state \in {"live", "revoked"} /\
                  sessions'[s].state \in {"revoked", "deleted"},
         \A s \in Sessions : sessions'[s].state = "live"
            => users'[sessions[s].user] = users[sessions[s].user]
  PROVE  Evolution /\ LiveIsOfActive' /\ SeenLagsByTouch'
  <1>1. Evolution
    BY CommitOvertakes DEF IInv, TypeOK, Evolution, Evolves, SessionRows
  <1>2. LiveIsOfActive'
    BY DEF IInv, LiveIsOfActive
  <1>3. SeenLagsByTouch'
    BY DEF IInv, SeenLagsByTouch
  <1> QED
    BY <1>1, <1>2, <1>3

LEMMA RevokeStep ==
  ASSUME IInv, NEW p \in Procs, RevokeSession(p), UNCHANGED isolation
  PROVE  IInv' /\ Evolution
  <1>1. /\ req[p].id \in Sessions /\ req[p].now \in Nat
        /\ Return(p) /\ UNCHANGED <<isolation, clock, users, lastUse>> /\ Commit
        /\ stale' \subseteq Procs
    BY DEF IInv, TypeOK, RevokeSession, At, Sound, Serving, Requests, Commit
  <1>2. TypeOK'
    BY <1>1 DEF IInv, TypeOK, RevokeSession, Return, Ready, Requests, SessionRows
  <1>3. Evolution /\ LiveIsOfActive' /\ SeenLagsByTouch'
    <2>1. \A s \in Sessions :
            /\ sessions'[s].user = sessions[s].user
            /\ \/ sessions'[s] = sessions[s]
               \/ sessions[s].state \in {"live", "revoked"} /\
                  sessions'[s].state \in {"revoked", "deleted"}
      BY <1>1 DEF RevokeSession, Row, IInv, TypeOK, SessionRows
    <2> QED
      BY <1>1, <1>2, <2>1, EndingStep
  <1> QED
    BY <1>1, <1>2, <1>3, ReturnStep

LEMMA MarkType ==
  ASSUME IInv, NEW u \in Users, NEW from, NEW to \in {"revoked", "deleted"},
         from \subseteq {"live", "revoked"}
  PROVE  /\ Mark(u, from, to) \in [Sessions -> SessionRows]
         /\ \A s \in Sessions :
              /\ Mark(u, from, to)[s].user = sessions[s].user
              /\ \/ Mark(u, from, to)[s] = sessions[s]
                 \/ sessions[s].state \in {"live", "revoked"} /\
                    Mark(u, from, to)[s].state \in {"revoked", "deleted"}
              /\ sessions[s].user = u /\ sessions[s].state \in from
                    => Mark(u, from, to)[s].state = to
  BY DEF Mark, IInv, TypeOK, SessionRows

LEMMA AdministerStep ==
  ASSUME IInv, NEW u \in Users, Administer(u), UNCHANGED isolation
  PROVE  IInv' /\ Evolution
  <1>1. UNCHANGED <<isolation, clock, req, lastUse>> /\ Commit
    BY DEF Administer, RevokeForUsers, Disable, Enable, DeleteUser
  <1>a. stale' \subseteq Procs
    BY <1>1 DEF Commit, IInv, TypeOK
  <1>2. CASE RevokeForUsers(u)
    <2>1. TypeOK'
      BY <1>1, <1>a, <1>2, MarkType DEF RevokeForUsers, IInv, TypeOK
    <2>2. Evolution /\ LiveIsOfActive' /\ SeenLagsByTouch'
      BY <1>1, <1>2, <2>1, MarkType, EndingStep DEF RevokeForUsers
    <2> QED
      BY <1>1, <2>1, <2>2, OthersKeepIInv
  <1>3. CASE Disable(u)
    <2>1. TypeOK'
      BY <1>1, <1>a, <1>3, MarkType DEF Disable, IInv, TypeOK, UserStates
    <2>2. \A s \in Sessions : sessions'[s].state = "live"
             => users'[sessions[s].user] = users[sessions[s].user]
      BY <1>3, MarkType DEF Disable, IInv, TypeOK, UserStates, SessionRows
    <2>3. Evolution /\ LiveIsOfActive' /\ SeenLagsByTouch'
      BY <1>1, <1>3, <2>1, <2>2, MarkType, EndingStep DEF Disable
    <2> QED
      BY <1>1, <2>1, <2>3, OthersKeepIInv
  <1>4. CASE Enable(u)
    <2>1. TypeOK'
      BY <1>1, <1>a, <1>4 DEF Enable, IInv, TypeOK, UserStates
    <2>2. Evolution /\ SeenLagsByTouch'
      BY <1>1, <1>4, CommitOvertakes
         DEF Enable, IInv, TypeOK, Evolution, Evolves, SeenLagsByTouch, SessionRows
    <2>3. LiveIsOfActive'
      BY <1>1, <1>4 DEF Enable, IInv, TypeOK, LiveIsOfActive, SessionRows
    <2> QED
      BY <1>1, <2>1, <2>2, <2>3, OthersKeepIInv
  <1>5. CASE DeleteUser(u)
    <2>1. TypeOK'
      BY <1>1, <1>a, <1>5, MarkType DEF DeleteUser, IInv, TypeOK, UserStates
    <2>2. \A s \in Sessions : sessions'[s].state = "live"
             => users'[sessions[s].user] = users[sessions[s].user]
      BY <1>5, MarkType DEF DeleteUser, IInv, TypeOK, UserStates, SessionRows
    <2>3. Evolution /\ LiveIsOfActive' /\ SeenLagsByTouch'
      BY <1>1, <1>5, <2>1, <2>2, MarkType, EndingStep DEF DeleteUser
    <2> QED
      BY <1>1, <2>1, <2>3, OthersKeepIInv
  <1> QED
    BY <1>2, <1>3, <1>4, <1>5 DEF Administer

\* The account is active when a creation begins.
LEMMA CreateStep ==
  ASSUME IInv, NEW p \in Procs, Create(p), UNCHANGED isolation
  PROVE  IInv' /\ Evolution
  <1>1. PICK u \in Users :
          /\ users[u] = "active"
          /\ req' = [req EXCEPT ![p] = [Ready EXCEPT !.pc = "insert", !.user = u,
                                                     !.now = clock]]
    BY DEF Create
  <1>2. UNCHANGED <<isolation, clock, users, sessions, stale, lastUse>>
    BY DEF Create
  <1> DEFINE row == [Ready EXCEPT !.pc = "insert", !.user = u, !.now = clock]
  <1>3. row \in Requests
    BY DEF Ready, Requests, IInv, TypeOK
  <1>4. TypeOK' /\ req'[p] = row
    BY <1>1, <1>2, <1>3 DEF IInv, TypeOK
  <1>5. req'[p].pc = "insert" /\ req'[p].user = u
    BY <1>4 DEF Ready
  <1>6. Sound(p)'
    BY <1>1, <1>2, <1>5
       DEF Sound, Creating, Serving, ReadBefore, Touched, LateIsRefused
  <1> QED
    BY <1>1, <1>2, <1>3, <1>4, <1>6, SameTable, ServeKeepsIInv

\* Where the insert goes in on SQLite, the account is active still.
LEMMA InsertStep ==
  ASSUME IInv, NEW p \in Procs, CreateSession(p), UNCHANGED isolation
  PROVE  IInv' /\ Evolution
  <1>1. PICK s \in Sessions, now \in req[p].now..clock :
          /\ sessions[s].state = "unused" /\ sessions[s].user = req[p].user
          /\ sessions' = [sessions EXCEPT ![s].state = "live",
                                          ![s].expires = now + Ttl, ![s].seen = now]
          /\ lastUse' = [lastUse EXCEPT ![s] = now]
    BY DEF CreateSession
  <1>2. /\ req[p].pc = "insert" /\ MayInsert(p) /\ Return(p)
        /\ UNCHANGED <<isolation, clock, users>>
        /\ stale' = {q \in Procs : At(q, "insert")} \ {p}
    BY DEF CreateSession, At
  <1>3. now \in Nat
    BY DEF IInv, TypeOK, Requests
  <1>4. TypeOK'
    <2>1. now + Ttl \in Nat /\ sessions[s] \in SessionRows
      BY <1>3, DurationsAreNatural DEF IInv, TypeOK
    <2>2. sessions' \in [Sessions -> SessionRows]
      BY <1>1, <1>3, <2>1 DEF IInv, TypeOK, SessionRows
    <2>3. lastUse' \in [Sessions -> Nat]
      BY <1>1, <1>3 DEF IInv, TypeOK
    <2>4. req' \in [Procs -> Requests]
      BY <1>2 DEF IInv, TypeOK, Return, Ready, Requests
    <2> QED
      BY <1>2, <2>2, <2>3, <2>4 DEF IInv, TypeOK
  <1>5. Overtakes
    BY <1>2 DEF Overtakes, At, Return, Ready, IInv, TypeOK
  <1>6. Evolution
    BY <1>1, <1>2, <1>5 DEF IInv, TypeOK, Evolution, Evolves, SessionRows
  <1>7. LiveIsOfActive'
    <2>1. isolation = "Serializable" => users[req[p].user] = "active"
      BY <1>2 DEF MayInsert, IInv, Sound, Creating
    <2> QED
      BY <1>1, <1>2, <2>1 DEF IInv, TypeOK, LiveIsOfActive, SessionRows
  <1>8. SeenLagsByTouch'
    BY <1>1, <1>3, DurationsAreNatural DEF IInv, TypeOK, SeenLagsByTouch, SessionRows
  <1> QED
    BY <1>2, <1>4, <1>6, <1>7, <1>8, ReturnStep

LEMMA DeleteExpiredStep ==
  ASSUME IInv, DeleteExpired, UNCHANGED isolation
  PROVE  IInv' /\ Evolution
  <1>1. PICK before \in 0..clock :
          sessions' = [s \in Sessions |->
             IF Row(s) /\ sessions[s].expires <= before
             THEN [sessions[s] EXCEPT !.state = "deleted"] ELSE sessions[s]]
    BY DEF DeleteExpired
  <1>2. UNCHANGED <<isolation, clock, users, req, lastUse>> /\ Commit
        /\ stale' \subseteq Procs
    BY DEF DeleteExpired, Commit, IInv, TypeOK
  <1>3. TypeOK'
    BY <1>1, <1>2 DEF IInv, TypeOK, SessionRows
  <1>4. Evolution /\ LiveIsOfActive' /\ SeenLagsByTouch'
    <2>1. \A s \in Sessions :
            /\ sessions'[s].user = sessions[s].user
            /\ \/ sessions'[s] = sessions[s]
               \/ sessions[s].state \in {"live", "revoked"} /\
                  sessions'[s].state \in {"revoked", "deleted"}
      BY <1>1 DEF IInv, TypeOK, Row, SessionRows
    <2> QED
      BY <1>2, <1>3, <2>1, EndingStep
  <1> QED
    BY <1>2, <1>3, <1>4, OthersKeepIInv

LEMMA TickStep == ASSUME IInv, Tick, UNCHANGED isolation PROVE IInv' /\ Evolution
  <1>1. clock' = clock + 1 /\ UNCHANGED <<isolation, users, sessions, req, stale, lastUse>>
    BY DEF Tick
  <1>2. TypeOK' /\ Evolution /\ LiveIsOfActive' /\ SeenLagsByTouch'
    BY <1>1 DEF IInv, TypeOK, Evolution, Overtakes, Evolves, LiveIsOfActive,
                SeenLagsByTouch, SessionRows
  <1> QED
    BY <1>1, <1>2, OthersKeepIInv

LEMMA ServeStep ==
  ASSUME IInv, NEW p \in Procs, Serve(p), UNCHANGED isolation
  PROVE  IInv' /\ Evolution
  <1>12. CASE Create(p)
    BY <1>12, CreateStep
  <1>13. CASE CreateSession(p)
    BY <1>13, InsertStep
  <1>1. CASE Resolve(p)
    BY <1>1, BeginStep, SameTable DEF Resolve, Begin
  <1>2. CASE GetSessionByTokenHash(p)
    BY <1>2, GetStep, SameTable DEF GetSessionByTokenHash
  <1>3. CASE CheckSession(p)
    BY <1>3, CheckStep, SameTable DEF CheckSession
  <1>4. CASE UserByID(p)
    BY <1>4, UserStep, SameTable DEF UserByID
  <1>5. CASE TouchSession(p)
    BY <1>5, TouchStep
  <1>6. CASE Admit(p)
    <2>1. Evolution
      BY <1>6 DEF Admit, Return, IInv, TypeOK, Evolution, Overtakes, Evolves, SessionRows
    <2> QED
      BY <1>6, <2>1, AdmitStep
  <1>7. CASE Revoke(p)
    BY <1>7, BeginStep, SameTable DEF Revoke, Begin
  <1>8. CASE RevokeByID(p)
    <2>1. clock \in Nat
      BY DEF IInv, TypeOK
    <2> QED
      BY <1>8, <2>1, BeginStep, SameTable DEF RevokeByID, Begin
  <1>9. CASE FindToRevoke(p)
    BY <1>9, FindStep, SameTable DEF FindToRevoke
  <1>10. CASE RevokeSession(p)
    BY <1>10, RevokeStep
  <1>11. CASE Fail(p)
    BY <1>11, BareReturnStep DEF Fail
  <1> QED
    BY <1>1, <1>2, <1>3, <1>4, <1>5, <1>6, <1>7, <1>8, <1>9, <1>10, <1>11,
       <1>12, <1>13 DEF Serve

LEMMA StepIInv == IInv /\ [Next]_vars => IInv' /\ Evolution
  <1> SUFFICES ASSUME IInv, [Next]_vars PROVE IInv' /\ Evolution
    OBVIOUS
  <1>1. CASE UNCHANGED vars
    <2>1. TypeOK' /\ Evolution /\ LiveIsOfActive' /\ SeenLagsByTouch'
      BY <1>1, SameTable DEF vars, IInv, TypeOK
    <2> QED
      BY <1>1, <2>1, OthersKeepIInv DEF vars
  <1>2. CASE Next
    BY <1>2, ServeStep, AdministerStep, DeleteExpiredStep, TickStep DEF Next
  <1> QED
    BY <1>1, <1>2

-----------------------------------------------------------------------------

LEMMA Inductive == Spec => []IInv
  BY InitIInv, StepIInv, PTL DEF Spec

\* Rows and requests always have the shapes that the schema and the service
\* give them.
THEOREM LifetimeTypeCorrect == Spec => []TypeOK
  <1>1. IInv => TypeOK
    BY DEF IInv
  <1> QED
    BY <1>1, Inductive, PTL

\* A session that was revoked or deleted or has expired admits no request that
\* arrives later, on either database and whatever other requests do to its row.
\* On SQLite, and only there, neither does one whose owner was disabled, also
\* after the owner is enabled again.
THEOREM EndedSessionAdmitsNothing == Spec => []EndedAdmitsNothing
  <1>1. IInv => EndedAdmitsNothing
    BY DEF IInv, Sound, LateIsRefused, EndedAdmitsNothing
  <1> QED
    BY <1>1, Inductive, PTL

\* The time at which a session counts as idle is less than Touch early.
THEOREM LastSeenLagsByTouch == Spec => []SeenLagsByTouch
  <1>1. IInv => SeenLagsByTouch
    BY DEF IInv
  <1> QED
    BY <1>1, Inductive, PTL

\* Touches that arrive out of order never make a session look idle for longer.
THEOREM LastSeenNeverGoesBack == Spec => SeenNeverGoesBack
  <1>1. IInv /\ [Next]_vars =>
          [\A s \in Sessions :
             sessions[s].state = "live" /\ sessions'[s].state = "live" =>
               sessions'[s].seen >= sessions[s].seen]_vars
    BY StepIInv DEF Evolution, Evolves
  <1> QED
    BY <1>1, Inductive, PTL DEF Spec, SeenNeverGoesBack
=============================================================================
