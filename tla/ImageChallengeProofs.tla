------------------------ MODULE ImageChallengeProofs ------------------------
(***************************************************************************)
(* The properties of the challenge store for any capacity, any lifetime    *)
(* and any number of goroutines.                                           *)
(***************************************************************************)

EXTENDS ImageChallenge, FiniteSetTheorems, TLAPS

\* An ID that is in the map, or whose answer was judged, has been issued, and a
\* challenge that was judged is not in the map any more.
OnceSound ==
    \A c \in Challenges :
        /\ store[c] # None => c \in issued /\ judged[c] = 0
        /\ judged[c] <= 1
        /\ judged[c] = 1 => c \in issued

\* A call never knows a time that is still to come.
CallsAreLate == \A p \in Procs : call[p].now <= clock

Bounded == IsFiniteSet(Open) /\ Cardinality(Open) <= MaxItems

IInv == ImageTypeOK /\ OnceSound /\ CallsAreLate /\ Bounded

Kept(now) == {c \in Open : ~Dropped(c, now)}

LEMMA ImageInitHolds == ImageInit => IInv
<1> SUFFICES ASSUME ImageInit PROVE IInv
  OBVIOUS
<1> USE DEF ImageInit
<1>1. ImageTypeOK
  BY TTLIsPositive, TimeIsBounded DEF ImageTypeOK, Calls, Free
<1>2. OnceSound
  BY DEF OnceSound
<1>3. CallsAreLate
  BY DEF CallsAreLate, Free
<1>4. Bounded
  <2>1. Open = {}
    BY DEF Open
  <2> QED
    BY <2>1, FS_EmptySet, CapacityIsPositive DEF Bounded
<1> QED
  BY <1>1, <1>2, <1>3, <1>4 DEF IInv

\* What is left of a finite map is finite and no larger.
LEMMA SmallerMap ==
    ASSUME NEW S, NEW T, IsFiniteSet(S), T \subseteq S
    PROVE  /\ IsFiniteSet(T)
           /\ Cardinality(S) \in Nat /\ Cardinality(T) \in Nat
           /\ Cardinality(T) <= Cardinality(S)
  BY FS_Subset, FS_CardinalityType

LEMMA TypeHolds == ASSUME IInv, ImageNext PROVE ImageTypeOK'
<1> USE DEF ImageTypeOK, IInv
<1> USE TTLIsPositive, TimeIsBounded, NoneIsNoChallenge
<1>0. CASE StartAgain
  BY <1>0 DEF StartAgain, Calls, Free
<1>1. CASE Tick
  BY <1>1 DEF Tick
<1>2. ASSUME NEW p \in Procs, Create(p) PROVE ImageTypeOK'
  BY <1>2 DEF Create, Calls, Free
<1>3. ASSUME NEW p \in Procs, Put(p) PROVE ImageTypeOK'
  <2> DEFINE now == call[p].now
  <2>0. now \in 0..MaxTime /\ ExpiresAt(now) \in 0..(MaxTime + TTL)
    BY DEF Calls, ExpiresAt
  <2>1. store' \in [Challenges -> (0..(MaxTime + TTL)) \cup {None}]
    BY <1>3, <2>0 DEF Put
  <2>2. issued' \subseteq Challenges
    BY <1>3 DEF Put
  <2>3. call' \in [Procs -> Calls]
    BY <1>3 DEF Put, Calls
  <2> QED
    BY <1>3, <2>1, <2>2, <2>3 DEF Put
<1>4. ASSUME NEW p \in Procs, VerifyAndDelete(p) PROVE ImageTypeOK'
  <2>1. store' \in [Challenges -> (0..(MaxTime + TTL)) \cup {None}]
    BY <1>4 DEF VerifyAndDelete
  <2>2. judged' \in [Challenges -> Nat]
    BY <1>4 DEF VerifyAndDelete
  <2>3. call' \in [Procs -> Calls]
    BY <1>4 DEF VerifyAndDelete, Calls
  <2> QED
    BY <1>4, <2>1, <2>2, <2>3 DEF VerifyAndDelete
<1>5. ASSUME NEW p \in Procs, Return(p) PROVE ImageTypeOK'
  BY <1>5 DEF Return, Calls, Free
<1>6. ASSUME NEW p \in Procs, NEW c \in issued \cup {None}, NEW right \in BOOLEAN,
             Verify(p, c, right)
      PROVE ImageTypeOK'
  BY <1>6 DEF Verify, Calls
<1> QED
  BY <1>0, <1>1, <1>2, <1>3, <1>4, <1>5, <1>6 DEF ImageNext

\* The steps that touch the map, by what they do to it.
LEMMA StoreSteps ==
    ASSUME IInv, ImageNext
    PROVE  \/ UNCHANGED <<store, issued, judged>>
           \/ StartAgain
           \/ \E p \in Procs : Put(p)
           \/ \E p \in Procs : VerifyAndDelete(p)
  BY DEF ImageNext, Tick, StartAgain, Create, Return, Verify

LEMMA OnceHolds == ASSUME IInv, ImageNext PROVE OnceSound'
<1> USE DEF OnceSound
<1>0. OnceSound /\ ImageTypeOK
  BY DEF IInv
<1>1. CASE UNCHANGED <<store, issued, judged>>
  BY <1>0, <1>1
<1>4. CASE StartAgain
  BY <1>0, <1>4 DEF StartAgain
<1>2. ASSUME NEW p \in Procs, Put(p) PROVE OnceSound'
  <2>1. PICK C \in SUBSET Challenges :
           /\ C \cap issued = {} /\ issued' = issued \cup C
           /\ \A d \in Challenges : store'[d] # None => d \in C \/ store[d] # None
    <3>1. CASE HasRoom(Kept(call[p].now))
      <4>1. PICK c \in Challenges \ issued :
               /\ \A d \in Challenges : store'[d] # None => d = c \/ store[d] # None
               /\ issued' = issued \cup {c}
        BY <1>2, <3>1 DEF Put, Kept, Open
      <4> QED
        BY <4>1
    <3>2. CASE ~HasRoom(Kept(call[p].now))
      <4>1. /\ \A d \in Challenges : store'[d] # None => store[d] # None
            /\ issued' = issued
        BY <1>2, <3>2 DEF Put, Kept, Open
      <4> DEFINE N == {}
      <4>2. N \in SUBSET Challenges /\ N \cap issued = {} /\ issued' = issued \cup N
        BY <4>1
      <4>3. \A d \in Challenges : store'[d] # None => d \in N \/ store[d] # None
        BY <4>1
      <4> HIDE DEF N
      <4> QED
        BY <4>2, <4>3
    <3> QED
      BY <3>1, <3>2
  <2>2. judged' = judged
    BY <1>2 DEF Put
  <2>3. \A d \in C : judged[d] = 0
    <3> SUFFICES ASSUME NEW d \in C PROVE judged[d] = 0
      OBVIOUS
    <3>1. d \in Challenges /\ d \notin issued
      BY <2>1
    <3> QED
      BY <1>0, <3>1 DEF ImageTypeOK
  <2> QED
    <3> SUFFICES ASSUME NEW d \in Challenges
                 PROVE  /\ store'[d] # None => d \in issued' /\ judged'[d] = 0
                        /\ judged'[d] <= 1
                        /\ judged'[d] = 1 => d \in issued'
      OBVIOUS
    <3>1. /\ store'[d] # None => d \in C \/ store[d] # None
          /\ d \in C => judged[d] = 0
          /\ d \in issued => d \in issued'
          /\ d \in C => d \in issued'
      BY <2>1, <2>3
    <3> QED
      BY <1>0, <2>2, <3>1
<1>3. ASSUME NEW p \in Procs, VerifyAndDelete(p) PROVE OnceSound'
  <2> DEFINE c == call[p].id
  <2>1. issued' = issued
    BY <1>3 DEF VerifyAndDelete
  <2>2. CASE c # None /\ c \in Open
    <3>1. /\ c \in Challenges /\ store[c] # None
          /\ store' = [store EXCEPT ![c] = None]
          /\ judged' = [judged EXCEPT ![c] = @ + 1]
      BY <1>3, <2>2 DEF VerifyAndDelete, Open
    <3> QED
      BY <1>0, <2>1, <3>1 DEF ImageTypeOK
  <2>3. CASE ~(c # None /\ c \in Open)
    BY <1>0, <1>3, <2>3 DEF VerifyAndDelete
  <2> QED
    BY <2>2, <2>3
<1> QED
  BY <1>1, <1>2, <1>3, <1>4, StoreSteps

LEMMA CallsHold == ASSUME IInv, ImageNext PROVE CallsAreLate'
<1> USE DEF CallsAreLate, IInv, ImageTypeOK, Calls
<1> USE TimeIsBounded
<1>0. CASE StartAgain
  BY <1>0 DEF StartAgain, Free
<1>1. CASE Tick
  BY <1>1 DEF Tick
<1>2. ASSUME NEW p \in Procs, Create(p) PROVE CallsAreLate'
  BY <1>2 DEF Create, Free
<1>3. ASSUME NEW p \in Procs, Put(p) PROVE CallsAreLate'
  BY <1>3 DEF Put
<1>4. ASSUME NEW p \in Procs, VerifyAndDelete(p) PROVE CallsAreLate'
  BY <1>4 DEF VerifyAndDelete
<1>5. ASSUME NEW p \in Procs, Return(p) PROVE CallsAreLate'
  BY <1>5 DEF Return, Free
<1>6. ASSUME NEW p \in Procs, NEW c \in issued \cup {None}, NEW right \in BOOLEAN,
             Verify(p, c, right)
      PROVE CallsAreLate'
  BY <1>6 DEF Verify
<1> QED
  BY <1>0, <1>1, <1>2, <1>3, <1>4, <1>5, <1>6 DEF ImageNext

LEMMA BoundedHolds == ASSUME IInv, ImageNext PROVE Bounded'
<1>0. /\ IsFiniteSet(Open) /\ Cardinality(Open) \in Nat
      /\ Cardinality(Open) <= MaxItems /\ MaxItems \in Nat
  BY FS_CardinalityType, CapacityIsPositive DEF IInv, Bounded
<1>1. ASSUME Open' \subseteq Open PROVE Bounded'
  BY <1>0, <1>1, SmallerMap DEF Bounded
<1>2. CASE UNCHANGED <<store, issued, judged>>
  BY <1>1, <1>2 DEF Open
<1>3. ASSUME NEW p \in Procs, Put(p) PROVE Bounded'
  <2> DEFINE kept == Kept(call[p].now)
  <2>1. /\ kept \subseteq Open
        /\ IsFiniteSet(kept) /\ Cardinality(kept) \in Nat
    BY <1>0, SmallerMap DEF Kept
  <2>2. CASE HasRoom(kept)
    <3>1. PICK c \in Challenges : Open' \subseteq kept \cup {c}
      BY <1>3, <2>2 DEF Put, Open, Kept
    <3>2. /\ IsFiniteSet(kept \cup {c})
          /\ Cardinality(kept \cup {c}) <= Cardinality(kept) + 1
          /\ Cardinality(kept \cup {c}) \in Nat
      <4>1. IsFiniteSet(kept \cup {c})
        BY <2>1, FS_AddElement
      <4>2. Cardinality(kept \cup {c}) = Cardinality(kept) \/
              Cardinality(kept \cup {c}) = Cardinality(kept) + 1
        BY <2>1, FS_AddElement
      <4> HIDE DEF kept
      <4> QED
        BY <2>1, <4>1, <4>2
    <3>3. /\ IsFiniteSet(Open') /\ Cardinality(Open') \in Nat
          /\ Cardinality(Open') <= Cardinality(kept \cup {c})
      BY <3>1, <3>2, SmallerMap
    <3> QED
      BY <1>0, <2>1, <2>2, <3>2, <3>3 DEF Bounded, HasRoom
  <2>3. CASE ~HasRoom(kept)
    <3>1. Open' \subseteq Open
      BY <1>3, <2>3 DEF Put, Open, Kept
    <3> QED
      BY <1>1, <3>1
  <2> QED
    BY <2>2, <2>3
<1>4. ASSUME NEW p \in Procs, VerifyAndDelete(p) PROVE Bounded'
  <2>1. CASE UNCHANGED store
    BY <1>1, <2>1 DEF Open
  <2>2. CASE store' = [store EXCEPT ![call[p].id] = None]
    <3>1. Open' \subseteq Open
      BY <2>2 DEF Open, IInv, ImageTypeOK
    <3> QED
      BY <1>1, <3>1
  <2> QED
    BY <1>4, <2>1, <2>2 DEF VerifyAndDelete
<1>5. CASE StartAgain
  <2>1. Open' \subseteq Open
    BY <1>5 DEF StartAgain, Open
  <2> QED
    BY <1>1, <2>1
<1> QED
  BY <1>2, <1>3, <1>4, <1>5, StoreSteps

LEMMA ImageInvariant == ImageSpec => []IInv
<1>1. IInv /\ [ImageNext]_imageVars => IInv'
  <2>1. ASSUME IInv, ImageNext PROVE IInv'
    BY <2>1, TypeHolds, OnceHolds, CallsHold, BoundedHolds DEF IInv
  <2>2. ASSUME IInv, UNCHANGED imageVars PROVE IInv'
    BY <2>2 DEF IInv, ImageTypeOK, OnceSound, CallsAreLate, Bounded, Open, imageVars
  <2> QED
    BY <2>1, <2>2
<1> QED
  BY <1>1, ImageInitHolds, PTL DEF ImageSpec

-----------------------------------------------------------------------------
(* What a reader should know.                                              *)

\* The map, the calls and the clock keep their types, and no entry lives longer
\* than one lifetime after a time that was read.
THEOREM ImageTypeCorrect == ImageSpec => []ImageTypeOK
<1>1. IInv => ImageTypeOK
  BY DEF IInv
<1> QED
  BY <1>1, ImageInvariant, PTL

\* put (image.go:99-115) keeps the limit whatever the capacity is.
THEOREM StoreStaysBounded == ImageSpec => []StoreIsBounded
<1>1. IInv => StoreIsBounded
  BY DEF IInv, Bounded, StoreIsBounded
<1> QED
  BY <1>1, ImageInvariant, PTL

\* verifyAndDelete (image.go:117-134) judges one answer for each challenge, however
\* many goroutines carry the same one.
THEOREM AnswersCountOnce == ImageSpec => []AnsweredOnce
<1>1. IInv => AnsweredOnce
  BY DEF IInv, OnceSound, AnsweredOnce
<1> QED
  BY <1>1, ImageInvariant, PTL

\* A challenge leaves the map by an answer, or when it has expired, although
\* cleanupLocked runs with a time read before the mutex was taken.
THEOREM GoodChallengesStay == ImageSpec => KeptUntilExpiry
<1>1. ASSUME IInv, ImageNext, NEW c \in Open, store'[c] = None
      PROVE  judged'[c] = judged[c] + 1 \/ Expired(c, clock) \/ restarts' # restarts
  <2>0. c \in Challenges /\ store[c] # None
    BY DEF Open
  <2>1. CASE UNCHANGED <<store, issued, judged>>
    BY <1>1, <2>0, <2>1
  <2>2. ASSUME NEW p \in Procs, Put(p) PROVE Expired(c, clock)
    <3>1. Expired(c, call[p].now)
      BY <1>1, <2>0, <2>2, TTLIsPositive, TimeIsBounded, NoneIsNoChallenge
         DEF Put, Open, Dropped, ExpiresAt, IInv, ImageTypeOK, Calls
    <3>2. call[p].now \in Int /\ clock \in Int /\ store[c] \in Int
      BY <1>1, <2>0, TTLIsPositive, TimeIsBounded DEF IInv, ImageTypeOK, Calls
    <3> QED
      BY <1>1, <3>1, <3>2 DEF Expired, IInv, CallsAreLate
  <2>3. ASSUME NEW p \in Procs, VerifyAndDelete(p) PROVE judged'[c] = judged[c] + 1
    BY <1>1, <2>0, <2>3 DEF VerifyAndDelete, Open, IInv, ImageTypeOK
  <2>4. CASE StartAgain
    BY <1>1, <2>4, TimeIsBounded DEF StartAgain, IInv, ImageTypeOK
  <2> QED
    BY <1>1, <2>1, <2>2, <2>3, <2>4, StoreSteps
<1>2. IInv /\ [ImageNext]_imageVars =>
        [\A c \in Open : store'[c] = None =>
           \/ judged'[c] = judged[c] + 1
           \/ Expired(c, clock)
           \/ restarts' # restarts]_imageVars
  BY <1>1
<1> QED
  BY <1>2, ImageInvariant, PTL DEF ImageSpec, KeptUntilExpiry

\* A call to put that finds no room found the map full of challenges that had not
\* expired at the time it knows.
THEOREM RefusalsAreRight == ImageSpec => RefusesOnlyWhenFull
<1>1. ASSUME IInv, ImageNext, NEW p \in Procs, Turned(p)
      PROVE  Cardinality({c \in Challenges : store'[c] # None /\ store'[c] > call[p].now})
                >= MaxItems
  <2> DEFINE kept == Kept(call[p].now)
  <2>1. Put(p) /\ ~HasRoom(kept)
    <3> USE <1>1 DEF IInv, ImageTypeOK, Calls, Turned
    <3>1. CASE Tick
      BY <3>1 DEF Tick
    <3>2. CASE StartAgain
      BY <3>2 DEF StartAgain, Free
    <3>3. ASSUME NEW q \in Procs, Create(q) PROVE FALSE
      BY <3>3 DEF Create, Free
    <3>4. ASSUME NEW q \in Procs, Put(q) PROVE q = p /\ ~HasRoom(kept)
      <4>1. q = p
        BY <3>4 DEF Put
      <4>2. CASE HasRoom(kept)
        BY <3>4, <4>1, <4>2 DEF Put, Kept
      <4> QED
        BY <4>1, <4>2
    <3>5. ASSUME NEW q \in Procs, VerifyAndDelete(q) PROVE FALSE
      BY <3>5 DEF VerifyAndDelete
    <3>6. ASSUME NEW q \in Procs, Return(q) PROVE FALSE
      BY <3>6 DEF Return, Free
    <3>7. ASSUME NEW q \in Procs, NEW c \in issued \cup {None}, NEW right \in BOOLEAN,
                 Verify(q, c, right)
          PROVE FALSE
      BY <3>7 DEF Verify
    <3> QED
      BY <1>1, <3>1, <3>2, <3>3, <3>4, <3>5, <3>6, <3>7 DEF ImageNext
  <2>2. {c \in Challenges : store'[c] # None /\ store'[c] > call[p].now} = kept
    <3>1. \A c \in Challenges : store'[c] = IF c \in kept THEN store[c] ELSE None
      BY <2>1 DEF Put, Kept
    <3>2. call[p].now \in Int /\ \A c \in Open : store[c] \in Int /\ store[c] # None
      BY <1>1, TTLIsPositive, TimeIsBounded DEF IInv, ImageTypeOK, Calls, Open
    <3> QED
      BY <3>1, <3>2 DEF Kept, Open, Dropped, Expired
  <2>3. Cardinality(kept) \in Nat
    BY <1>1, SmallerMap DEF IInv, Bounded, Kept
  <2> QED
    BY <2>1, <2>2, <2>3, CapacityIsPositive DEF HasRoom
<1>2. IInv /\ [ImageNext]_imageVars =>
        [\A p \in Procs : Turned(p) =>
           Cardinality({c \in Challenges : store'[c] # None /\ store'[c] > call[p].now})
             >= MaxItems]_imageVars
  BY <1>1
<1> QED
  BY <1>2, ImageInvariant, PTL DEF ImageSpec, RefusesOnlyWhenFull
=============================================================================
