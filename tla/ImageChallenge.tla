---------------------------- MODULE ImageChallenge ----------------------------
(***************************************************************************)
(* The in-memory store of ImageProvider: a map from the ID of a challenge  *)
(* to the time it expires, behind a mutex.  Goroutines read the clock      *)
(* before they take the mutex, so they enter with times out of order.      *)
(***************************************************************************)

EXTENDS Integers, FiniteSets

CONSTANTS Procs,     \* the goroutines that serve requests
          Challenges,\* the IDs the generator can draw; none is drawn twice
          MaxItems,  \* the capacity of the map
          TTL,       \* the lifetime of a challenge
          MaxTime,   \* bound on the clock
          MaxRestarts, \* bound on the restarts of the process
          None       \* stands for no value

ASSUME CapacityIsPositive == MaxItems \in Nat \ {0}
ASSUME TTLIsPositive == TTL \in Nat \ {0}
ASSUME TimeIsBounded == MaxTime \in Nat /\ MaxRestarts \in Nat
ASSUME NoneIsNoChallenge == None \notin Challenges /\ None \notin Nat

VARIABLES clock,   \* what time.Now() answers
          store,   \* ID -> expiresAt, or None where the map has no entry
          issued,  \* IDs that were ever put
          call,    \* the call each goroutine is in
          judged,  \* history: answers that met a challenge, by its ID
          restarts

imageVars == <<clock, store, issued, call, judged, restarts>>

Free == [at |-> "rest", id |-> None, right |-> FALSE, now |-> 0]
Calls == [at : {"rest", "create", "verify", "issued", "full", "accepted", "refused"},
          id : Challenges \cup {None}, right : BOOLEAN, now : 0..MaxTime]

ImageInit == /\ clock = 0
             /\ store = [c \in Challenges |-> None]
             /\ issued = {}
             /\ call = [p \in Procs |-> Free]
             /\ judged = [c \in Challenges |-> 0]
             /\ restarts = 0

Tick == /\ clock < MaxTime
        /\ clock' = clock + 1
        /\ UNCHANGED <<store, issued, call, judged, restarts>>

Open == {c \in Challenges : store[c] # None}
Expired(c, now) == store[c] # None /\ store[c] <= now

-----------------------------------------------------------------------------
(* Create: it draws the picture and the ID and reads the clock.            *)

\* Bound: a drawn ID must be left for every call that will ask for one.
IdsLeft == Cardinality(issued) + Cardinality({q \in Procs : call[q].at = "create"})
             < Cardinality(Challenges)

Create(p) ==
    /\ call[p].at = "rest" /\ IdsLeft
    /\ call' = [call EXCEPT ![p] = [Free EXCEPT !.at = "create", !.now = clock]]
    /\ UNCHANGED <<clock, store, issued, judged, restarts>>

\* Mutant: a call to put starts from an empty map.
DropsAll(c, now) == c \in Open

\* cleanupLocked(now) drops an entry at the time it expires.
Dropped(c, now) == Expired(c, now)

\* Mutant: the lifetime is added twice.
ExpiresLate(now) == now + TTL + TTL

ExpiresAt(now) == now + TTL

\* Mutant: looks for room one entry too late.
HasRoomForTwo(kept) == Cardinality(kept) <= MaxItems

HasRoom(kept) == Cardinality(kept) < MaxItems

\* Mutant: an entry is looked for room before the expired ones are dropped.
PutBeforeCleanup(p) ==
    LET now == call[p].now
        kept == {c \in Open : ~Dropped(c, now)} IN
    /\ call[p].at = "create"
    /\ IF HasRoom(Open)
       THEN \E c \in Challenges \ issued :
               /\ store' = [d \in Challenges |->
                              IF d = c THEN ExpiresAt(now)
                              ELSE IF d \in kept THEN store[d] ELSE None]
               /\ issued' = issued \cup {c}
               /\ call' = [call EXCEPT ![p].at = "issued", ![p].id = c]
       ELSE /\ call' = [call EXCEPT ![p].at = "full"]
            /\ UNCHANGED <<store, issued>>
    /\ UNCHANGED <<clock, judged, restarts>>

\* put, under the mutex: clean up, look for room, insert.  The cleaning stays
\* when there is no room.
Put(p) ==
    LET now == call[p].now
        kept == {c \in Open : ~Dropped(c, now)} IN
    /\ call[p].at = "create"
    /\ IF HasRoom(kept)
       THEN \E c \in Challenges \ issued :
               /\ store' = [d \in Challenges |->
                              IF d = c THEN ExpiresAt(now)
                              ELSE IF d \in kept THEN store[d] ELSE None]
               /\ issued' = issued \cup {c}
               /\ call' = [call EXCEPT ![p].at = "issued", ![p].id = c]
       ELSE /\ store' = [d \in Challenges |-> IF d \in kept THEN store[d] ELSE None]
            /\ call' = [call EXCEPT ![p].at = "full"]
            /\ UNCHANGED issued
    /\ UNCHANGED <<clock, judged, restarts>>

-----------------------------------------------------------------------------
(* Verify.                                                                 *)

\* A response names a challenge that was issued, now or before, or none at all;
\* an answer that is blank is refused before the clock is read.
Verify(p, c, right) ==
    /\ call[p].at = "rest"
    /\ call' = [call EXCEPT ![p] = [at |-> "verify", id |-> c, right |-> right,
                                    now |-> clock]]
    /\ UNCHANGED <<clock, store, issued, judged, restarts>>

\* Mutant: a wrong answer leaves the challenge for another try.
VerifyKeepsWrong(p) ==
    LET c == call[p].id
        known == c # None /\ c \in Open
        good == known /\ store[c] > call[p].now /\ call[p].right IN
    /\ call[p].at = "verify"
    /\ call' = [call EXCEPT ![p].at = IF good THEN "accepted" ELSE "refused"]
    /\ IF known
       THEN /\ store' = [store EXCEPT ![c] = IF good THEN None ELSE @]
            /\ judged' = [judged EXCEPT ![c] = @ + 1]
       ELSE UNCHANGED <<store, judged>>
    /\ UNCHANGED <<clock, issued, restarts>>

\* verifyAndDelete, under the mutex: whatever the answer, the challenge is gone.
VerifyAndDelete(p) ==
    LET c == call[p].id
        known == c # None /\ c \in Open
        good == known /\ store[c] > call[p].now /\ call[p].right IN
    /\ call[p].at = "verify"
    /\ call' = [call EXCEPT ![p].at = IF good THEN "accepted" ELSE "refused"]
    /\ IF known
       THEN /\ store' = [store EXCEPT ![c] = None]
            /\ judged' = [judged EXCEPT ![c] = @ + 1]
       ELSE UNCHANGED <<store, judged>>
    /\ UNCHANGED <<clock, issued, restarts>>

\* The caller has its result.
Return(p) ==
    /\ call[p].at \in {"issued", "full", "accepted", "refused"}
    /\ call' = [call EXCEPT ![p] = Free]
    /\ UNCHANGED <<clock, store, issued, judged, restarts>>

\* The process stops and starts again: the map and the calls are lost.
StartAgain ==
    /\ restarts < MaxRestarts
    /\ restarts' = restarts + 1
    /\ store' = [c \in Challenges |-> None]
    /\ call' = [p \in Procs |-> Free]
    /\ UNCHANGED <<clock, issued, judged>>

ImageNext ==
    \/ Tick \/ StartAgain
    \/ \E p \in Procs :
          \/ Create(p) \/ Put(p) \/ VerifyAndDelete(p) \/ Return(p)
          \/ \E c \in issued \cup {None}, right \in BOOLEAN : Verify(p, c, right)

ImageSpec == ImageInit /\ [][ImageNext]_imageVars

-----------------------------------------------------------------------------
(* Properties.                                                             *)

\* Entries expire within a lifetime after some clock reading, and a call knows
\* a time that has been.
ImageTypeOK ==
    /\ clock \in 0..MaxTime
    /\ store \in [Challenges -> (0..(MaxTime + TTL)) \cup {None}]
    /\ issued \subseteq Challenges
    /\ call \in [Procs -> Calls]
    /\ judged \in [Challenges -> Nat]
    /\ restarts \in 0..MaxRestarts

\* "A non-positive maxItems uses a bounded default" (image.go:24): the map
\* never holds more entries than that, however the calls to put interleave.
StoreIsBounded == Cardinality(Open) <= MaxItems

\* A challenge judges one answer at most: two requests that carry the same ID
\* can not both be answered, and a wrong answer does not leave room for another.
AnsweredOnce == \A c \in Challenges : judged[c] <= 1

\* While the process runs a challenge leaves the map when it is answered or has
\* expired; neither a full store nor a late call to put takes away a good one.
KeptUntilExpiry ==
    [][\A c \in Open : store'[c] = None =>
          \/ judged'[c] = judged[c] + 1
          \/ Expired(c, clock)
          \/ restarts' # restarts]_imageVars

\* A request is turned away for lack of room only when all places are held by
\* challenges that had not expired when it came in.
Turned(p) == call[p].at # "full" /\ call'[p].at = "full"
RefusesOnlyWhenFull ==
    [][\A p \in Procs : Turned(p) =>
          Cardinality({c \in Challenges : store'[c] # None /\ store'[c] > call[p].now})
             >= MaxItems]_imageVars
=============================================================================
