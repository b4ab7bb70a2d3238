----------------------- MODULE ContactVerificationProofs -----------------------
(***************************************************************************)
(* What contacts and verifications promise for any number of requests,     *)
(* users, values and verifications and any limits.  IInv is inductive      *)
(* under either database; Serial adds what one writer at a time gives.     *)
(***************************************************************************)

EXTENDS ContactVerification, FiniteSetTheorems, TLAPS

-----------------------------------------------------------------------------
(* The inductive invariant.                                                *)

Born(i) == verifs[i].status # "unborn"

StepsOf == [idle |-> {"idle"},
            start |-> {"taken", "latest", "expire", "send", "findPending", "sweep",
                       "insert", "commit"},
            confirm |-> {"load", "check", "expire", "verify", "fail", "reread",
                         "findContact", "delete", "bind", "consume", "findPending",
                         "sweep", "commit"},
            unbind |-> {"findContact", "delete", "findPending", "sweep", "commit"}]

\* A start has a user and a value; once the provider has sent a code it has an
\* ID that no row and no other request has.
Starting(p) == /\ req[p].kind = "start"
               /\ req[p].pc \in {"findPending", "sweep", "insert", "commit"}
StartOK(p) ==
    /\ req[p].kind = "start" /\ ~Starting(p) => req[p].value \in Values /\ req[p].id = None
    /\ Starting(p) => /\ req[p].id \in Verifications /\ ~Born(req[p].id)
                      /\ \A q \in Procs \ {p} : req[q].id # req[p].id
                      /\ req[p].seen.status = "pending" /\ req[p].seen.attempts = 0

\* A confirmation is of a row that is there; after the first read it is one of
\* its user, that had not expired when the provider was asked.
ConfirmOK(p) ==
    LET i == req[p].id IN
    req[p].kind = "confirm" =>
        /\ i \in Verifications /\ req[p].old = i /\ Born(i)
        /\ req[p].pc # "load" => verifs[i].user = req[p].user
        /\ req[p].pc = "check" => req[p].seen.expires = verifs[i].expires
        /\ req[p].pc \in {"verify", "fail"} => req[p].now < verifs[i].expires
        /\ req[p].pc \in {"reread", "findContact", "delete", "bind", "consume",
                           "findPending", "sweep", "commit"} => i \in proved

RequestOK(p) ==
    /\ req[p].pc \in StepsOf[req[p].kind]
    /\ req[p].kind # "idle" => req[p].user \in Users
    /\ req[p].kind \in {"idle", "unbind"} => req[p].id = None
    /\ req[p].pc = "expire" => req[p].old \in Verifications /\ Born(req[p].old)
    /\ StartOK(p) /\ ConfirmOK(p)

\* An open transaction closes rows that are there or adds the new one, binds
\* what was verified, and unbinds for good only when asked to.
DraftRowOK(p, i) ==
    LET row == draft[p].verifs[i] IN
    row # None =>
        \/ /\ Born(i) /\ row.user = verifs[i].user /\ row.expires = verifs[i].expires
           /\ row.status \notin {"unborn", "pending"}
        \/ /\ req[p].kind = "start" /\ req[p].pc = "commit"
           /\ req[p].id = i /\ row = req[p].seen
DraftContactOK(p, u) ==
    LET c == draft[p].contacts[u] IN
    /\ c \notin {None, "gone"} => c \in proved /\ Born(c) /\ verifs[c].user = u
    /\ c = "gone" => /\ req[p].user = u
                     /\ \/ req[p].kind = "unbind"
                        \/ req[p].kind = "confirm" /\ req[p].pc = "bind"
DraftOK(p) ==
    /\ req[p].pc = "idle" => draft[p] = Blank
    /\ \A i \in Verifications : DraftRowOK(p, i)
    /\ \A u \in Users : DraftContactOK(p, u)

\* While a verification is open its row has counted every wrong code.
RowsOK ==
    \A i \in Verifications :
        /\ verifs[i].status = "pending" =>
              wrong[i] = verifs[i].attempts /\ verifs[i].attempts < MaxAttempts
        /\ ~Born(i) => wrong[i] = 0
ContactsOK ==
    \A u \in Users : contacts[u] # None =>
        contacts[u] \in proved /\ Born(contacts[u]) /\ verifs[contacts[u]].user = u

\* The requests that found verification i open.
Asking(i) == {p \in Procs : /\ req[p].kind = "confirm" /\ req[p].old = i
                            /\ \/ req[p].pc = "check" /\ req[p].seen.status = "pending"
                               \/ req[p].pc \in {"verify", "fail"}}
GuessesOK ==
    \A i \in Verifications :
        wrong[i] + Cardinality(Asking(i)) <= MaxAttempts - 1 + Cardinality(Procs)

Tied == /\ \A p \in Procs : RequestOK(p) /\ DraftOK(p)
        /\ RowsOK /\ ContactsOK
IInv == TypeOK /\ Tied /\ GuessesOK

-----------------------------------------------------------------------------
(* Types.                                                                  *)

Drafts == [verifs : [Verifications -> VerifRows \cup {None}],
           contacts : [Users -> Verifications \cup {None, "gone"}]]

LEMMA Typed ==
    ASSUME TypeOK
    PROVE  /\ req \in [Procs -> Requests] /\ draft \in [Procs -> Drafts]
           /\ verifs \in [Verifications -> VerifRows]
           /\ contacts \in [Users -> Verifications \cup {None}]
           /\ clock \in 0..MaxTime /\ wrong \in [Verifications -> Nat]
           /\ stale \subseteq Procs /\ proved \subseteq Verifications
  BY DEF TypeOK, Drafts

LEMMA IdleIsRequest == Idle \in Requests /\ Blank \in Drafts
<1>1. Idle \in Requests
  BY ClockIsBounded, LimitsArePositive
     DEF Idle, Requests, Kinds, Steps, Unborn, VerifRows, Statuses
<1>2. Blank \in Drafts
  BY DEF Blank, Drafts
<1> QED
  BY <1>1, <1>2

\* A request that goes on, with what its statement has read.
LEMMA RequestWith ==
    ASSUME NEW old \in Requests, NEW step \in Steps
    PROVE  /\ \A n \in 0..MaxTime : /\ [old EXCEPT !.pc = step, !.now = n] \in Requests
                                   /\ [old EXCEPT !.now = n, !.pc = step] \in Requests
           /\ \A row \in VerifRows : [old EXCEPT !.pc = step, !.seen = row] \in Requests
           /\ \A row \in VerifRows, n \in 0..MaxTime :
                 [old EXCEPT !.pc = step, !.seen = row, !.now = n] \in Requests
           /\ \A c \in Verifications \cup {None} :
                 [old EXCEPT !.contact = c, !.pc = step] \in Requests
           /\ \A rows \in SUBSET Verifications :
                 [old EXCEPT !.rows = rows, !.pc = step] \in Requests
<1>1. ASSUME NEW n \in 0..MaxTime
      PROVE  /\ [old EXCEPT !.pc = step, !.now = n] \in Requests
             /\ [old EXCEPT !.now = n, !.pc = step] \in Requests
  BY <1>1 DEF Requests
<1>2. ASSUME NEW row \in VerifRows
      PROVE  [old EXCEPT !.pc = step, !.seen = row] \in Requests
  BY <1>2 DEF Requests
<1>3. ASSUME NEW row \in VerifRows, NEW n \in 0..MaxTime
      PROVE  [old EXCEPT !.pc = step, !.seen = row, !.now = n] \in Requests
  BY <1>3 DEF Requests
<1>4. ASSUME NEW c \in Verifications \cup {None}
      PROVE  [old EXCEPT !.contact = c, !.pc = step] \in Requests
  BY <1>4 DEF Requests
<1>5. ASSUME NEW rows \in SUBSET Verifications
      PROVE  [old EXCEPT !.rows = rows, !.pc = step] \in Requests
  BY <1>5 DEF Requests
<1> QED
  BY <1>1, <1>2, <1>3, <1>4, <1>5

LEMMA RowClosed ==
    ASSUME NEW old \in VerifRows, NEW status \in Statuses, NEW n \in 0..MaxAttempts
    PROVE  [old EXCEPT !.status = status, !.attempts = n] \in VerifRows
  BY DEF VerifRows

LEMMA RequestStarting ==
    ASSUME NEW old \in Requests, NEW u \in Users, NEW i \in Verifications,
           NEW row \in VerifRows
    PROVE  [old EXCEPT !.kind = "start", !.pc = "findPending", !.user = u, !.id = i,
                       !.seen = row] \in Requests
<1>1. "start" \in Kinds /\ "findPending" \in Steps
  BY DEF Kinds, Steps
<1> QED
  BY <1>1 DEF Requests

\* A row that a transaction sees: one that was there keeps its user and its time.
LEMMA SeenRow ==
    ASSUME IInv, NEW p \in Procs, NEW i \in Verifications, req[p].kind # "start",
           Born(i)
    PROVE  /\ Sees(p, i) \in VerifRows
           /\ Sees(p, i).user = verifs[i].user /\ Sees(p, i).expires = verifs[i].expires
<1>1. DraftRowOK(p, i)
  BY DEF IInv, Tied, DraftOK
<1>2. draft[p].verifs[i] \in VerifRows \cup {None} /\ verifs[i] \in VerifRows
  BY Typed DEF IInv, Drafts
<1> QED
  BY <1>1, <1>2 DEF DraftRowOK, Sees

\* What a statement says of the request that runs it.
LEMMA KindOf ==
    ASSUME IInv, NEW p \in Procs
    PROVE  /\ req[p].pc \in {"taken", "latest", "send", "insert"} => req[p].kind = "start"
           /\ req[p].pc \in {"load", "check", "verify", "fail", "reread", "bind", "consume"}
                => req[p].kind = "confirm"
           /\ req[p].pc = "expire" => req[p].kind \in {"start", "confirm"}
           /\ req[p].pc \in {"findContact", "delete"} => req[p].kind \in {"confirm", "unbind"}
           /\ req[p].pc \in {"findPending", "sweep", "commit"} => req[p].kind # "idle"
<1>1. req[p].kind \in Kinds /\ req[p].pc \in StepsOf[req[p].kind]
  BY Typed DEF IInv, Tied, RequestOK, Requests
<1>2. /\ StepsOf["idle"] = {"idle"}
      /\ StepsOf["start"] = {"taken", "latest", "expire", "send", "findPending", "sweep",
                             "insert", "commit"}
      /\ StepsOf["confirm"] = {"load", "check", "expire", "verify", "fail", "reread",
                               "findContact", "delete", "bind", "consume", "findPending",
                               "sweep", "commit"}
      /\ StepsOf["unbind"] = {"findContact", "delete", "findPending", "sweep", "commit"}
  BY DEF StepsOf
<1> QED
  BY <1>1, <1>2 DEF Kinds

-----------------------------------------------------------------------------
(* What a step of p leaves to the others.                                  *)

Evolves == /\ \A i \in Verifications :
                 Born(i) => /\ Born(i)' /\ verifs'[i].user = verifs[i].user
                            /\ verifs'[i].expires = verifs[i].expires
           /\ proved \subseteq proved'
\* Rows appear by the commit of a start; nobody takes the ID of another one.
Births(p) == \A i \in Verifications :
                Born(i)' => Born(i) \/ (Starting(p) /\ req[p].id = i)
Fresh(p) == \A q \in Procs \ {p} : Starting(q) => req'[p].id # req[q].id
Alone(p) == \A q \in Procs \ {p} : req'[q] = req[q] /\ draft'[q] = draft[q]

LEMMA OthersKeep ==
    ASSUME IInv, NEW p \in Procs, Evolves, Births(p), Fresh(p), Alone(p),
           NEW q \in Procs \ {p}
    PROVE  RequestOK(q)' /\ DraftOK(q)'
<1>1. RequestOK(q) /\ DraftOK(q) /\ RequestOK(p)
  BY DEF IInv, Tied
<1>2. req'[q] = req[q] /\ draft'[q] = draft[q]
  BY DEF Alone
<1>3. StartOK(q)'
  <2>1. ASSUME Starting(q)
        PROVE  ~Born(req[q].id)' /\ \A o \in Procs \ {q} : req'[o].id # req[q].id
    <3>1. /\ req[q].id \in Verifications /\ ~Born(req[q].id)
          /\ \A o \in Procs \ {q} : req[o].id # req[q].id
      BY <1>1, <2>1 DEF RequestOK, StartOK
    <3>2. ~Born(req[q].id)'
      BY <1>2, <3>1 DEF Births, Born
    <3>3. \A o \in Procs \ {q} : req'[o].id # req[q].id
      BY <2>1, <3>1 DEF Fresh, Alone
    <3> QED
      BY <3>2, <3>3
  <2> QED
    BY <1>1, <1>2, <2>1 DEF RequestOK, StartOK, Starting, Born
<1>4. ConfirmOK(q)'
  BY <1>1, <1>2 DEF RequestOK, ConfirmOK, Evolves, Born
<1>5. RequestOK(q)'
  BY <1>1, <1>2, <1>3, <1>4 DEF RequestOK, Evolves, Born
<1>6. \A i \in Verifications : DraftRowOK(q, i)'
  BY <1>1, <1>2 DEF DraftOK, DraftRowOK, Evolves, Born
<1>7. \A u \in Users : DraftContactOK(q, u)'
  <2> SUFFICES ASSUME NEW u \in Users PROVE DraftContactOK(q, u)'
    OBVIOUS
  <2>1. draft[q].contacts[u] \in Verifications \cup {None, "gone"}
    BY Typed DEF IInv, Drafts
  <2> QED
    BY <1>1, <1>2, <2>1 DEF DraftOK, DraftContactOK, Evolves, Born
<1> QED
  BY <1>1, <1>2, <1>5, <1>6, <1>7 DEF DraftOK

LEMMA CountAsking ==
    ASSUME NEW i
    PROVE  /\ IsFiniteSet(Asking(i)) /\ Cardinality(Asking(i)) \in Nat
           /\ Cardinality(Procs) \in Nat /\ Cardinality(Asking(i)) <= Cardinality(Procs)
<1>1. Asking(i) \subseteq Procs
  BY DEF Asking
<1> QED
  BY <1>1, FinitelyManyProcs, FS_Subset, FS_CardinalityType

\* Only a request that finds the verification open can come to ask the provider.
LEMMA GuessesKeep ==
    ASSUME IInv, NEW p \in Procs, Alone(p), wrong' = wrong,
           \A i \in Verifications :
              p \in Asking(i)' => p \in Asking(i) \/ verifs[i].status = "pending"
    PROVE  GuessesOK'
<1> SUFFICES ASSUME NEW i \in Verifications
             PROVE  wrong[i] + Cardinality(Asking(i)') <= MaxAttempts - 1 + Cardinality(Procs)
  BY DEF GuessesOK
<1>0. wrong[i] \in Nat /\ MaxAttempts \in Nat \ {0}
  BY Typed, LimitsArePositive DEF IInv
<1>1. Asking(i)' \subseteq Asking(i) \cup {p}
  BY DEF Asking, Alone
<1>2. CASE Asking(i)' \subseteq Asking(i)
  <2>1. Cardinality(Asking(i)') \in Nat /\ Cardinality(Asking(i)') <= Cardinality(Asking(i))
    BY <1>2, CountAsking, FS_Subset, FS_CardinalityType
  <2> QED
    BY <1>0, <2>1, CountAsking DEF IInv, GuessesOK
<1>3. CASE verifs[i].status = "pending"
  <2>1. Asking(i)' \subseteq Procs
    BY DEF Asking
  <2>2. Cardinality(Asking(i)') \in Nat /\ Cardinality(Asking(i)') <= Cardinality(Procs)
    BY <2>1, FinitelyManyProcs, FS_Subset, FS_CardinalityType
  <2>3. wrong[i] = verifs[i].attempts /\ verifs[i].attempts < MaxAttempts
    BY <1>3 DEF IInv, Tied, RowsOK
  <2> QED
    BY <1>0, <2>2, <2>3, CountAsking
<1> QED
  BY <1>1, <1>2, <1>3

Still == /\ verifs' = verifs /\ contacts' = contacts /\ wrong' = wrong /\ proved' = proved
         /\ isolation' = isolation /\ stale' \subseteq Procs

\* A step that leaves the tables alone.
LEMMA StillStep ==
    ASSUME IInv, NEW p \in Procs, NEW r \in Requests, NEW d \in Drafts, Still,
           clock' = clock, req' = [req EXCEPT ![p] = r], draft' = [draft EXCEPT ![p] = d],
           Fresh(p), RequestOK(p)', DraftOK(p)',
           \A i \in Verifications :
              p \in Asking(i)' => p \in Asking(i) \/ verifs[i].status = "pending"
    PROVE  IInv'
<1>1. req' \in [Procs -> Requests] /\ draft' \in [Procs -> Drafts] /\ Alone(p)
  BY Typed DEF IInv, Alone
<1>2. TypeOK'
  BY <1>1 DEF TypeOK, IInv, Still, Drafts
<1>3. Evolves /\ Births(p)
  <2>1. verifs' = verifs /\ proved' = proved
    BY DEF Still
  <2>2. Evolves
    BY <2>1 DEF Evolves, Born
  <2>3. Births(p)
    BY <2>1 DEF Births, Born
  <2> QED
    BY <2>2, <2>3
<1>4. \A q \in Procs : RequestOK(q)' /\ DraftOK(q)'
  <2>1. ASSUME NEW q \in Procs \ {p} PROVE RequestOK(q)' /\ DraftOK(q)'
    BY <1>1, <1>3, OthersKeep
  <2> QED
    BY <2>1
<1>5. RowsOK' /\ ContactsOK'
  <2>1. RowsOK /\ ContactsOK
    BY DEF IInv, Tied
  <2> QED
    BY <2>1 DEF RowsOK, ContactsOK, Born, Still
<1>6. GuessesOK'
  BY <1>1, GuessesKeep DEF Still
<1> QED
  BY <1>2, <1>4, <1>5, <1>6 DEF IInv, Tied

\* The request of p is over.
LEMMA IdleIsOK ==
    ASSUME IInv, NEW p \in Procs, Return(p)
    PROVE  /\ RequestOK(p)' /\ DraftOK(p)' /\ Fresh(p) /\ Alone(p)
           /\ req' \in [Procs -> Requests] /\ draft' \in [Procs -> Drafts]
           /\ \A i \in Verifications : p \notin Asking(i)'
<1>1. /\ req' = [req EXCEPT ![p] = Idle] /\ draft' = [draft EXCEPT ![p] = Blank]
      /\ req \in [Procs -> Requests] /\ draft \in [Procs -> Drafts]
  BY Typed DEF Return, IInv
<1>2. req'[p] = Idle /\ draft'[p] = Blank
  BY <1>1
<1>3. RequestOK(p)'
  BY <1>2 DEF RequestOK, StartOK, Starting, ConfirmOK, Idle, StepsOf
<1>4. DraftOK(p)'
  BY <1>2, NoneIsNoContact DEF DraftOK, DraftRowOK, DraftContactOK, Blank
<1>5. Fresh(p)
  <2>1. \A q \in Procs : Starting(q) => req[q].id # None
    BY NoneIsNoContact DEF IInv, Tied, RequestOK, StartOK
  <2> QED
    BY <1>2, <2>1 DEF Fresh, Idle
<1>6. \A i \in Verifications : p \notin Asking(i)'
  BY <1>2 DEF Asking, Idle
<1> QED
  BY <1>1, <1>3, <1>4, <1>5, <1>6, IdleIsRequest DEF Alone

LEMMA ReturnStep ==
    ASSUME IInv, NEW p \in Procs, Return(p), Still, clock' = clock
    PROVE  IInv'
  BY StillStep, IdleIsOK, IdleIsRequest DEF Return

LEMMA FreshWhenSame ==
    ASSUME IInv, NEW p \in Procs, req'[p].id = req[p].id
    PROVE  Fresh(p)
<1>1. \A q \in Procs : StartOK(q)
  BY DEF IInv, Tied, RequestOK
<1> QED
  BY <1>1 DEF Fresh, StartOK

\* What p wrote stays true while its request goes on.
LEMMA RowKeeps ==
    ASSUME IInv, NEW p \in Procs, NEW i \in Verifications,
           draft'[p].verifs[i] = draft[p].verifs[i], Evolves, req[p].pc # "commit"
    PROVE  DraftRowOK(p, i)'
  BY DEF DraftRowOK, Evolves, Born, IInv, Tied, DraftOK

LEMMA ContactKeeps ==
    ASSUME IInv, NEW p \in Procs, NEW u \in Users,
           draft'[p].contacts[u] = draft[p].contacts[u], Evolves, req[p].pc # "bind",
           req'[p].kind = req[p].kind, req'[p].user = req[p].user
    PROVE  DraftContactOK(p, u)'
<1>1. DraftContactOK(p, u)
  BY DEF IInv, Tied, DraftOK
<1>2. draft[p].contacts[u] \in Verifications \cup {None, "gone"}
  BY Typed DEF IInv, Drafts
<1> QED
  BY <1>1, <1>2 DEF DraftContactOK, Evolves, Born

LEMMA DraftKeeps ==
    ASSUME IInv, NEW p \in Procs, draft'[p] = draft[p], Evolves,
           req[p].pc \notin {"commit", "bind"}, req'[p].pc # "idle",
           req'[p].kind = req[p].kind, req'[p].user = req[p].user
    PROVE  DraftOK(p)'
  BY RowKeeps, ContactKeeps DEF DraftOK

\* Most statements only move their request on.
LEMMA MoveStep ==
    ASSUME IInv, NEW p \in Procs, NEW r \in Requests, Still, clock' = clock,
           req' = [req EXCEPT ![p] = r], UNCHANGED draft,
           req[p].pc \notin {"commit", "bind"}, r.pc # "idle",
           r.kind = req[p].kind, r.user = req[p].user,
           r.id = req[p].id \/ \A q \in Procs : Starting(q) => r.id # req[q].id,
           RequestOK(p)',
           \A i \in Verifications :
              p \in Asking(i)' => p \in Asking(i) \/ verifs[i].status = "pending"
    PROVE  IInv'
<1>1. /\ req \in [Procs -> Requests] /\ draft \in [Procs -> Drafts]
      /\ req'[p] = r /\ draft' = [draft EXCEPT ![p] = draft[p]]
  BY Typed DEF IInv
<1>2. Fresh(p)
  BY <1>1, FreshWhenSame DEF Fresh
<1>3. Evolves
  BY DEF Evolves, Born, Still
<1>4. DraftOK(p)'
  BY <1>1, <1>3, DraftKeeps
<1> QED
  BY <1>1, <1>2, <1>4, StillStep

\* A request moves on with what it had.
Moved(r, p, step) ==
    /\ r.pc = step /\ r.kind = req[p].kind /\ r.user = req[p].user
    /\ r.value = req[p].value /\ r.id = req[p].id /\ r.old = req[p].old
    /\ r.seen = req[p].seen /\ r.now = req[p].now

LEMMA GotoRow ==
    ASSUME IInv, NEW p \in Procs, NEW step \in Steps, Goto(p, step)
    PROVE  \E r \in Requests : /\ req' = [req EXCEPT ![p] = r] /\ req'[p] = r
                              /\ Moved(r, p, step)
<1>1. req \in [Procs -> Requests]
  BY Typed DEF IInv
<1> DEFINE r == [req[p] EXCEPT !.pc = step]
<1>2. r \in Requests
  BY <1>1 DEF Requests
<1>3. req' = [req EXCEPT ![p] = r]
  BY <1>1 DEF Goto
<1>4. Moved(r, p, step)
  BY <1>1 DEF Requests, Moved
<1> HIDE DEF r
<1> QED
  BY <1>1, <1>2, <1>3, <1>4

LEMMA WriteRow ==
    ASSUME IInv, NEW p \in Procs, NEW i \in Verifications, NEW row \in VerifRows,
           Write(p, i, row)
    PROVE  \E d \in Drafts :
              /\ draft' = [draft EXCEPT ![p] = d] /\ draft'[p] = d
              /\ d.verifs[i] = row /\ d.contacts = draft[p].contacts
              /\ \A j \in Verifications \ {i} : d.verifs[j] = draft[p].verifs[j]
<1>1. draft \in [Procs -> Drafts]
  BY Typed DEF IInv
<1> DEFINE v == [draft[p].verifs EXCEPT ![i] = row]
           d == [draft[p] EXCEPT !.verifs = v]
<1>2. v \in [Verifications -> VerifRows \cup {None}]
  BY <1>1 DEF Drafts
<1>3. d \in Drafts /\ d.verifs = v /\ d.contacts = draft[p].contacts
  <2> HIDE DEF v
  <2> QED
    BY <1>1, <1>2 DEF Drafts
<1>4. draft' = [draft EXCEPT ![p] = d]
  BY <1>1 DEF Write, Drafts
<1>5. /\ v[i] = row
      /\ \A j \in Verifications \ {i} : v[j] = draft[p].verifs[j]
  BY <1>1 DEF Drafts
<1> HIDE DEF v, d
<1> QED
  BY <1>1, <1>3, <1>4, <1>5

\* A statement that writes one row of its transaction.
LEMMA WriteStep ==
    ASSUME IInv, NEW p \in Procs, NEW r \in Requests, Still, clock' = clock,
           NEW i \in Verifications, NEW row \in VerifRows, Write(p, i, row),
           req' = [req EXCEPT ![p] = r],
           req[p].pc \notin {"commit", "bind"}, r.pc \notin {"idle", "check", "verify", "fail"},
           r.kind = req[p].kind, r.user = req[p].user, r.id = req[p].id,
           RequestOK(p)',
           \/ /\ Born(i) /\ row.user = verifs[i].user /\ row.expires = verifs[i].expires
              /\ row.status \notin {"unborn", "pending"}
           \/ r.kind = "start" /\ r.pc = "commit" /\ r.id = i /\ row = r.seen
    PROVE  IInv'
<1>1. PICK d \in Drafts :
           /\ draft' = [draft EXCEPT ![p] = d] /\ draft'[p] = d
           /\ d.verifs[i] = row /\ d.contacts = draft[p].contacts
           /\ \A j \in Verifications \ {i} : d.verifs[j] = draft[p].verifs[j]
  BY WriteRow
<1>2. req'[p] = r /\ verifs' = verifs
  BY Typed DEF IInv, Still
<1>3. Fresh(p)
  BY <1>2, FreshWhenSame
<1>4. Evolves
  BY DEF Evolves, Born, Still
<1>5. DraftRowOK(p, i)'
  BY <1>1, <1>2 DEF DraftRowOK, Born
<1>6. \A j \in Verifications \ {i} : DraftRowOK(p, j)'
  BY <1>1, <1>4, RowKeeps
<1>7. \A u \in Users : DraftContactOK(p, u)'
  BY <1>1, <1>2, <1>4, ContactKeeps
<1>8. DraftOK(p)'
  BY <1>2, <1>5, <1>6, <1>7 DEF DraftOK
<1>9. \A j \in Verifications : p \notin Asking(j)'
  BY <1>2 DEF Asking
<1> QED
  BY <1>1, <1>3, <1>8, <1>9, StillStep

-----------------------------------------------------------------------------
(* The statements of StartVerification.                                    *)

LEMMA OpenStep ==
    ASSUME IInv, NEW p \in Procs, Start(p) \/ Confirm(p) \/ Unbind(p),
           isolation' = isolation
    PROVE  IInv'
<1>0. /\ req \in [Procs -> Requests] /\ draft \in [Procs -> Drafts]
      /\ stale \subseteq Procs
  BY Typed DEF IInv
<1>1. /\ req[p].pc = "idle" /\ UNCHANGED draft /\ Still /\ clock' = clock
      /\ draft' = [draft EXCEPT ![p] = draft[p]] /\ draft'[p] = Blank
  BY <1>0 DEF Start, Confirm, Unbind, Open, Tables, History, Still, IInv, Tied, DraftOK
<1>2. DraftOK(p)' \/ req'[p].pc = "idle"
  BY <1>1, NoneIsNoContact DEF DraftOK, DraftRowOK, DraftContactOK, Blank
<1>3. ASSUME NEW u \in Users, NEW v \in Values,
             req' = [req EXCEPT ![p] = [Idle EXCEPT !.kind = "start", !.pc = "taken",
                                                    !.user = u, !.value = v]]
      PROVE  IInv'
  <2> DEFINE r == [Idle EXCEPT !.kind = "start", !.pc = "taken", !.user = u, !.value = v]
  <2>1. r \in Requests
    BY IdleIsRequest DEF Requests, Kinds, Steps
  <2>2. /\ r.kind = "start" /\ r.pc = "taken" /\ r.user = u /\ r.value = v /\ r.id = None
        /\ req'[p] = r
    BY <1>0, <1>3 DEF Idle
  <2> HIDE DEF r
  <2>3. RequestOK(p)'
    BY <2>2 DEF RequestOK, StartOK, Starting, ConfirmOK, StepsOf
  <2>4. Fresh(p)
    BY <2>2, NoneIsNoContact DEF Fresh, IInv, Tied, RequestOK, StartOK
  <2>5. \A i \in Verifications : p \notin Asking(i)'
    BY <2>2 DEF Asking
  <2>6. req' = [req EXCEPT ![p] = r]
    BY <1>3 DEF r
  <2> QED
    BY <1>0, <1>1, <1>2, <2>1, <2>2, <2>3, <2>4, <2>5, <2>6, StillStep
<1>4. ASSUME NEW u \in Users, NEW i \in Verifications, Born(i),
             req' = [req EXCEPT ![p] = [Idle EXCEPT !.kind = "confirm", !.pc = "load",
                                                    !.user = u, !.id = i, !.old = i]]
      PROVE  IInv'
  <2> DEFINE r == [Idle EXCEPT !.kind = "confirm", !.pc = "load", !.user = u, !.id = i,
                               !.old = i]
  <2>1. r \in Requests
    BY IdleIsRequest DEF Requests, Kinds, Steps
  <2>2. /\ r.kind = "confirm" /\ r.pc = "load" /\ r.user = u /\ r.id = i /\ r.old = i
        /\ req'[p] = r
    BY <1>0, <1>4 DEF Idle
  <2> HIDE DEF r
  <2>3. RequestOK(p)'
    BY <1>1, <1>4, <2>2 DEF RequestOK, StartOK, Starting, ConfirmOK, StepsOf, Born, Still
  <2>4. Fresh(p)
    BY <1>4, <2>2 DEF Fresh, IInv, Tied, RequestOK, StartOK
  <2>5. \A j \in Verifications : p \notin Asking(j)'
    BY <2>2 DEF Asking
  <2>6. req' = [req EXCEPT ![p] = r]
    BY <1>4 DEF r
  <2> QED
    BY <1>0, <1>1, <1>2, <2>1, <2>2, <2>3, <2>4, <2>5, <2>6, StillStep
<1>5. ASSUME NEW u \in Users,
             req' = [req EXCEPT ![p] = [Idle EXCEPT !.kind = "unbind",
                                                    !.pc = "findContact", !.user = u]]
      PROVE  IInv'
  <2> DEFINE r == [Idle EXCEPT !.kind = "unbind", !.pc = "findContact", !.user = u]
  <2>1. r \in Requests
    BY IdleIsRequest DEF Requests, Kinds, Steps
  <2>2. /\ r.kind = "unbind" /\ r.pc = "findContact" /\ r.user = u /\ r.id = None
        /\ req'[p] = r
    BY <1>0, <1>5 DEF Idle
  <2> HIDE DEF r
  <2>3. RequestOK(p)'
    BY <2>2 DEF RequestOK, StartOK, Starting, ConfirmOK, StepsOf
  <2>4. Fresh(p)
    BY <2>2, NoneIsNoContact DEF Fresh, IInv, Tied, RequestOK, StartOK
  <2>5. \A i \in Verifications : p \notin Asking(i)'
    BY <2>2 DEF Asking
  <2>6. req' = [req EXCEPT ![p] = r]
    BY <1>5 DEF r
  <2> QED
    BY <1>0, <1>1, <1>2, <2>1, <2>2, <2>3, <2>4, <2>5, <2>6, StillStep
<1> QED
  BY <1>3, <1>4, <1>5 DEF Start, Confirm, Unbind, Open, Born

LEMMA StartReadsStep ==
    ASSUME IInv, NEW p \in Procs,
           GetUserByContact(p) \/ GetPendingContactVerification(p),
           isolation' = isolation
    PROVE  IInv'
<1>0. /\ req \in [Procs -> Requests] /\ verifs \in [Verifications -> VerifRows]
      /\ clock \in 0..MaxTime /\ stale \subseteq Procs /\ RequestOK(p)
  BY Typed DEF IInv, Tied
<1>1. Still /\ clock' = clock /\ req[p].kind = "start" /\ req[p].pc \in {"taken", "latest"}
  <2>1. Still /\ clock' = clock /\ req[p].pc \in {"taken", "latest"}
    BY <1>0 DEF GetUserByContact, GetPendingContactVerification, Tables, History, Still, At
  <2> QED
    BY <2>1, KindOf
<1>2. CASE Return(p)
  BY <1>1, <1>2, ReturnStep
<1>3. ASSUME NEW r \in Requests, req' = [req EXCEPT ![p] = r], UNCHANGED draft,
             r.kind = "start", r.pc \in {"latest", "expire", "send"},
             r.user = req[p].user, r.value = req[p].value, r.id = req[p].id,
             r.pc = "expire" => r.old \in Verifications /\ Born(r.old)
      PROVE  IInv'
  <2>1. req'[p] = r
    BY <1>0, <1>3
  <2>2. RequestOK(p)'
    BY <1>0, <1>1, <1>3, <2>1 DEF RequestOK, StartOK, Starting, ConfirmOK, StepsOf, Born,
                                  Still
  <2>3. \A i \in Verifications : p \notin Asking(i)'
    BY <1>3, <2>1 DEF Asking
  <2> QED
    BY <1>1, <1>3, <2>2, <2>3, MoveStep
<1>4. CASE GetUserByContact(p) /\ ~Return(p)
  <2> DEFINE r == [req[p] EXCEPT !.pc = "latest", !.now = clock]
  <2>a. r \in Requests
    BY <1>0, RequestWith DEF Steps
  <2>b. req' = [req EXCEPT ![p].pc = "latest", ![p].now = clock] /\ UNCHANGED draft
    BY <1>4 DEF GetUserByContact
  <2>1. r \in Requests /\ req' = [req EXCEPT ![p] = r] /\ UNCHANGED draft
    BY <1>0, <2>a, <2>b
  <2>2. /\ r.kind = "start" /\ r.pc = "latest" /\ r.user = req[p].user
        /\ r.value = req[p].value /\ r.id = req[p].id
    BY <1>0, <1>1 DEF Requests
  <2> HIDE DEF r
  <2> QED
    BY <1>3, <2>1, <2>2
<1>5. CASE Goto(p, "send") /\ UNCHANGED draft
  <2> DEFINE r == [req[p] EXCEPT !.pc = "send"]
  <2>1. r \in Requests /\ req' = [req EXCEPT ![p] = r]
    BY <1>0, <1>5 DEF Goto, Requests, Steps
  <2>2. /\ r.kind = "start" /\ r.pc = "send" /\ r.user = req[p].user
        /\ r.value = req[p].value /\ r.id = req[p].id
    BY <1>0, <1>1 DEF Requests
  <2> HIDE DEF r
  <2> QED
    BY <1>3, <1>5, <2>1, <2>2
<1>6. ASSUME NEW i \in LatestPending(req[p].user),
             req' = [req EXCEPT ![p].old = i, ![p].seen = verifs[i], ![p].pc = "expire"],
             UNCHANGED draft
      PROVE  IInv'
  <2> DEFINE r == [req[p] EXCEPT !.old = i, !.seen = verifs[i], !.pc = "expire"]
  <2>0. i \in Verifications /\ Born(i)
    BY DEF LatestPending, PendingOf, Born
  <2>a. r \in Requests
    <3> DEFINE row == verifs[i]
               old == req[p]
    <3>1. row \in VerifRows /\ old \in Requests
      BY <1>0, <2>0
    <3> HIDE DEF row, old
    <3>2. [old EXCEPT !.old = i, !.seen = row, !.pc = "expire"] \in Requests
      BY <2>0, <3>1 DEF Requests, Steps
    <3> QED
      BY <3>2 DEF row, old
  <2>b. req' = [req EXCEPT ![p] = r]
    <3> DEFINE row == verifs[i]
    <3>1. req' = [req EXCEPT ![p].old = i, ![p].seen = row, ![p].pc = "expire"]
      BY <1>6
    <3> HIDE DEF row
    <3>2. req' = [req EXCEPT ![p] = [req[p] EXCEPT !.old = i, !.seen = row, !.pc = "expire"]]
      BY <1>0, <3>1
    <3> QED
      BY <3>2 DEF row
  <2>1. r \in Requests /\ req' = [req EXCEPT ![p] = r]
    BY <2>a, <2>b
  <2>2. /\ r.kind = "start" /\ r.pc = "expire" /\ r.user = req[p].user
        /\ r.value = req[p].value /\ r.id = req[p].id /\ r.old = i
    BY <1>0, <1>1 DEF Requests
  <2> HIDE DEF r
  <2> QED
    BY <1>3, <1>6, <2>0, <2>1, <2>2
<1>7. CASE GetPendingContactVerification(p)
  <2>1. \/ Goto(p, "send") /\ UNCHANGED draft
        \/ Return(p)
        \/ \E i \in LatestPending(req[p].user) :
              /\ req' = [req EXCEPT ![p].old = i, ![p].seen = verifs[i], ![p].pc = "expire"]
              /\ UNCHANGED draft
    BY <1>7, Zenon DEF GetPendingContactVerification
  <2> QED
    BY <1>2, <1>5, <1>6, <2>1
<1> QED
  BY <1>2, <1>4, <1>7

LEMMA ProviderStartStep ==
    ASSUME IInv, NEW p \in Procs, ProviderStart(p), isolation' = isolation
    PROVE  IInv'
<1>0. /\ req \in [Procs -> Requests] /\ stale \subseteq Procs /\ RequestOK(p)
      /\ req[p].kind = "start" /\ req[p].pc = "send"
  BY Typed, KindOf DEF IInv, Tied, ProviderStart, At
<1>1. Still /\ clock' = clock /\ UNCHANGED draft
  BY <1>0 DEF ProviderStart, Tables, History, Still
<1>2. PICK i \in Unused, life \in 1..Ttl :
          req' = [req EXCEPT ![p] =
            [Idle EXCEPT
              !.kind = "start", !.pc = "findPending", !.user = req[p].user, !.id = i,
              !.seen = [status |-> "pending", user |-> req[p].user,
                        value |-> req[p].value, attempts |-> 0,
                        created |-> req[p].now, expires |-> req[p].now + life]]]
  BY <1>1 DEF ProviderStart
<1> DEFINE row == [status |-> "pending", user |-> req[p].user,
                   value |-> req[p].value, attempts |-> 0,
                   created |-> req[p].now, expires |-> req[p].now + life]
           user == req[p].user
           r == [Idle EXCEPT !.kind = "start", !.pc = "findPending", !.user = user,
                             !.id = i, !.seen = row]
<1>3. i \in Verifications /\ ~Born(i) /\ \A q \in Procs : req[q].id # i
  BY DEF Unused, Born
<1>4. row \in VerifRows /\ row.status = "pending" /\ row.attempts = 0
  BY <1>0, ClockIsBounded, LimitsArePositive DEF VerifRows, Requests, Statuses
<1>5. user \in Users /\ user = req[p].user
  BY <1>0 DEF RequestOK
<1>6. req' = [req EXCEPT ![p] = r]
  BY <1>2
<1> HIDE DEF row, user
<1>7. r \in Requests
  BY <1>3, <1>4, <1>5, IdleIsRequest, RequestStarting
<1>8. /\ r.kind = "start" /\ r.pc = "findPending" /\ r.user = user /\ r.id = i
      /\ r.seen = row /\ req'[p] = r
  BY <1>0, <1>6 DEF Idle
<1>9. \A q \in Procs \ {p} : req'[q].id # i
  BY <1>0, <1>3, <1>6
<1> HIDE DEF r
<1>10. verifs' = verifs
  BY <1>1 DEF Still
<1>11. RequestOK(p)'
  BY <1>3, <1>4, <1>5, <1>8, <1>9, <1>10
     DEF RequestOK, StartOK, Starting, ConfirmOK, StepsOf, Born
<1>12. \A j \in Verifications : p \notin Asking(j)'
  BY <1>8 DEF Asking
<1> QED
  BY <1>0, <1>1, <1>3, <1>5, <1>6, <1>7, <1>8, <1>11, <1>12, MoveStep

LEMMA CreateStep ==
    ASSUME IInv, NEW p \in Procs, CreateContactVerification(p), isolation' = isolation
    PROVE  IInv'
<1>0. /\ req \in [Procs -> Requests] /\ stale \subseteq Procs /\ RequestOK(p)
      /\ req[p].kind = "start" /\ req[p].pc = "insert"
  BY Typed, KindOf DEF IInv, Tied, CreateContactVerification, At
<1>1. Still /\ clock' = clock /\ Write(p, req[p].id, req[p].seen) /\ Goto(p, "commit")
  BY <1>0 DEF CreateContactVerification, Tables, History, Still
<1>2. PICK r \in Requests : /\ req' = [req EXCEPT ![p] = r] /\ req'[p] = r
                           /\ Moved(r, p, "commit")
  BY <1>1, GotoRow DEF Steps
<1>3. /\ req[p].id \in Verifications /\ ~Born(req[p].id) /\ req[p].seen \in VerifRows
      /\ \A q \in Procs \ {p} : req[q].id # req[p].id
      /\ req[p].seen.status = "pending" /\ req[p].seen.attempts = 0
  BY <1>0 DEF RequestOK, StartOK, Starting, Requests
<1>4. verifs' = verifs /\ \A q \in Procs \ {p} : req'[q] = req[q]
  BY <1>0, <1>1, <1>2 DEF Still
<1>5. RequestOK(p)'
  BY <1>0, <1>2, <1>3, <1>4 DEF RequestOK, StartOK, Starting, ConfirmOK, StepsOf, Born,
                                Moved
<1> QED
  BY <1>0, <1>1, <1>2, <1>3, <1>5, WriteStep DEF Moved

-----------------------------------------------------------------------------
(* Writes to the table.                                                    *)

\* A step of p that changes the tables.
LEMMA TableStep ==
    ASSUME IInv, NEW p \in Procs, TypeOK', Evolves, Births(p), Fresh(p), Alone(p),
           RequestOK(p)', DraftOK(p)', RowsOK', ContactsOK', GuessesOK'
    PROVE  IInv'
<1>1. ASSUME NEW q \in Procs \ {p} PROVE RequestOK(q)' /\ DraftOK(q)'
  BY <1>1, OthersKeep
<1> QED
  BY <1>1 DEF IInv, Tied

\* One row that was there gets another status and count.
LEMMA NewRow ==
    ASSUME IInv, NEW i \in Verifications, Born(i), NEW row \in VerifRows,
           verifs' = [verifs EXCEPT ![i] = row], contacts' = contacts, proved' = proved,
           row.user = verifs[i].user, row.expires = verifs[i].expires,
           row.status # "unborn"
    PROVE  /\ verifs' \in [Verifications -> VerifRows]
           /\ Evolves /\ ContactsOK'
           /\ \A p \in Procs : Births(p)
           /\ \A j \in Verifications \ {i} : verifs'[j] = verifs[j]
           /\ verifs'[i] = row
<1>1. /\ verifs \in [Verifications -> VerifRows]
      /\ contacts \in [Users -> Verifications \cup {None}] /\ ContactsOK
  BY Typed DEF IInv, Tied
<1>2. /\ \A j \in Verifications \ {i} : verifs'[j] = verifs[j]
      /\ verifs'[i] = row
  BY <1>1
<1>3. Evolves
  BY <1>2 DEF Evolves, Born
<1>4. ContactsOK'
  BY <1>1, <1>3 DEF ContactsOK, Evolves
<1>5. \A p \in Procs : Births(p)
  BY <1>2 DEF Births, Born
<1> QED
  BY <1>1, <1>2, <1>3, <1>4, <1>5

LEMMA OutdatedIsStale ==
    ASSUME IInv, NEW p \in Procs
    PROVE  Outdated(p) \subseteq Procs
  BY Typed DEF IInv, Outdated

\* The request of p after the expired row has been written or not.
AfterExpire(p) ==
    \/ Return(p)
    \/ /\ req[p].kind = "start"
       /\ req' = [req EXCEPT ![p].pc = "send", ![p].old = None, ![p].seen = Unborn]
       /\ UNCHANGED draft

LEMMA RequestAfterExpire ==
    ASSUME NEW old \in Requests, NEW row \in VerifRows
    PROVE  [old EXCEPT !.pc = "send", !.old = None, !.seen = row] \in Requests
  BY DEF Requests, Steps

LEMMA AfterExpireIsOK ==
    ASSUME IInv, NEW p \in Procs, req[p].pc = "expire", AfterExpire(p), Evolves
    PROVE  /\ RequestOK(p)' /\ DraftOK(p)' /\ Fresh(p) /\ Alone(p)
           /\ req' \in [Procs -> Requests] /\ draft' \in [Procs -> Drafts]
           /\ \A i \in Verifications : p \notin Asking(i)'
<1>1. CASE Return(p)
  BY <1>1, IdleIsOK
<1>2. CASE ~Return(p)
  <2>0. /\ req \in [Procs -> Requests] /\ draft \in [Procs -> Drafts] /\ RequestOK(p)
        /\ Unborn \in VerifRows
    BY Typed, ClockIsBounded, LimitsArePositive
       DEF IInv, Tied, Unborn, VerifRows, Statuses
  <2>1. /\ req[p].kind = "start" /\ UNCHANGED draft
        /\ req' = [req EXCEPT ![p].pc = "send", ![p].old = None, ![p].seen = Unborn]
    BY <1>2 DEF AfterExpire
  <2> DEFINE r == [req[p] EXCEPT !.pc = "send", !.old = None, !.seen = Unborn]
  <2>2. r \in Requests
    BY <2>0, RequestAfterExpire
  <2>3. req' = [req EXCEPT ![p] = r]
    BY <2>0, <2>1
  <2>4. /\ r.kind = "start" /\ r.pc = "send" /\ r.user = req[p].user
        /\ r.value = req[p].value /\ r.id = req[p].id
    BY <2>0, <2>1 DEF Requests
  <2> HIDE DEF r
  <2>5. req'[p] = r /\ draft'[p] = draft[p] /\ Alone(p)
    BY <2>0, <2>1, <2>3 DEF Alone
  <2>6. RequestOK(p)'
    BY <2>0, <2>1, <2>4, <2>5 DEF RequestOK, StartOK, Starting, ConfirmOK, StepsOf
  <2>7. DraftOK(p)'
    BY <2>1, <2>4, <2>5, DraftKeeps
  <2>8. Fresh(p)
    BY <2>4, <2>5, FreshWhenSame
  <2>9. \A i \in Verifications : p \notin Asking(i)'
    BY <2>4, <2>5 DEF Asking
  <2> QED
    BY <2>0, <2>1, <2>2, <2>3, <2>5, <2>6, <2>7, <2>8, <2>9
<1> QED
  BY <1>1, <1>2

LEMMA ExpireStep ==
    ASSUME IInv, NEW p \in Procs, ExpireSeen(p), isolation' = isolation
    PROVE  IInv'
<1>0. /\ verifs \in [Verifications -> VerifRows] /\ req \in [Procs -> Requests]
      /\ RequestOK(p) /\ RowsOK /\ ContactsOK /\ stale \subseteq Procs
  BY Typed DEF IInv, Tied
<1>1. /\ req[p].pc = "expire"
      /\ UNCHANGED <<clock, contacts, wrong, proved>>
  BY DEF ExpireSeen, At, History
<1>2. AfterExpire(p)
  BY <1>1, KindOf DEF ExpireSeen, AfterExpire
<1> DEFINE i == req[p].old
<1>3. i \in Verifications /\ Born(i)
  BY <1>0, <1>1 DEF RequestOK
<1>4. /\ Evolves /\ Births(p) /\ ContactsOK' /\ RowsOK' /\ stale' \subseteq Procs
      /\ verifs' \in [Verifications -> VerifRows]
  <2>1. CASE UNCHANGED <<verifs, stale>>
    BY <1>0, <1>1, <2>1 DEF Evolves, Births, ContactsOK, RowsOK, Born
  <2>2. CASE ~UNCHANGED <<verifs, stale>>
    <3> DEFINE tries == req[p].seen.attempts
               row == [verifs[i] EXCEPT !.status = "expired", !.attempts = tries]
    <3>0. tries \in 0..MaxAttempts
      BY <1>0 DEF Requests, VerifRows
    <3>1. verifs' = [verifs EXCEPT ![i].status = "expired", ![i].attempts = tries]
      BY <2>2 DEF ExpireSeen
    <3> HIDE DEF tries
    <3>a. row \in VerifRows
      BY <1>0, <1>3, <3>0, RowClosed DEF Statuses
    <3>2. row \in VerifRows /\ row.user = verifs[i].user
          /\ row.expires = verifs[i].expires /\ row.status = "expired"
      BY <1>0, <1>3, <3>a DEF VerifRows
    <3>3. verifs' = [verifs EXCEPT ![i] = row]
      BY <1>0, <1>3, <3>1 DEF VerifRows
    <3> HIDE DEF row, i
    <3>4. /\ Evolves /\ Births(p) /\ ContactsOK'
          /\ verifs' \in [Verifications -> VerifRows]
          /\ \A j \in Verifications \ {i} : verifs'[j] = verifs[j]
          /\ verifs'[i] = row
      BY <1>1, <1>3, <3>2, <3>3, NewRow
    <3>5. RowsOK'
      BY <1>0, <1>1, <1>3, <3>2, <3>4 DEF RowsOK, Born
    <3>6. stale' \subseteq Procs
      BY <2>2, OutdatedIsStale DEF ExpireSeen
    <3> QED
      BY <3>4, <3>5, <3>6
  <2> QED
    BY <2>1, <2>2
<1>5. /\ RequestOK(p)' /\ DraftOK(p)' /\ Fresh(p) /\ Alone(p)
      /\ req' \in [Procs -> Requests] /\ draft' \in [Procs -> Drafts]
      /\ \A j \in Verifications : p \notin Asking(j)'
  BY <1>1, <1>2, <1>4, AfterExpireIsOK
<1>6. TypeOK'
  BY <1>1, <1>4, <1>5 DEF IInv, TypeOK, Drafts
<1>7. GuessesOK'
  BY <1>1, <1>5, GuessesKeep
<1> QED
  BY <1>4, <1>5, <1>6, <1>7, TableStep

LEMMA WrongCodeStep ==
    ASSUME IInv, NEW p \in Procs, RecordContactVerificationFailure(p),
           isolation' = isolation
    PROVE  IInv'
<1>0. /\ verifs \in [Verifications -> VerifRows] /\ req \in [Procs -> Requests]
      /\ wrong \in [Verifications -> Nat]
      /\ RequestOK(p) /\ RowsOK /\ ContactsOK /\ GuessesOK /\ stale \subseteq Procs
      /\ MaxAttempts \in Nat \ {0}
  BY Typed, LimitsArePositive DEF IInv, Tied
<1> DEFINE i == req[p].old
<1>1. /\ req[p].pc = "fail" /\ req[p].kind = "confirm" /\ Return(p)
      /\ UNCHANGED <<clock, contacts, proved>>
      /\ wrong' = [wrong EXCEPT ![i] = @ + 1]
  BY KindOf DEF RecordContactVerificationFailure, At
<1>2. i \in Verifications /\ Born(i) /\ req[p].now < verifs[i].expires
  BY <1>0, <1>1 DEF RequestOK, ConfirmOK
<1> DEFINE open == verifs[i].status = "pending" /\ verifs[i].expires > req[p].now
           tried == verifs[i].attempts + 1
           row == AfterWrong(p, verifs[i])
<1>3. /\ verifs' = IF open THEN [verifs EXCEPT ![i] = row] ELSE verifs
      /\ stale' = IF open THEN Outdated(p) ELSE stale
  BY <1>0, <1>2 DEF RecordContactVerificationFailure
<1>4. /\ wrong' \in [Verifications -> Nat] /\ wrong'[i] = wrong[i] + 1
      /\ \A j \in Verifications \ {i} : wrong'[j] = wrong[j]
  BY <1>0, <1>1, <1>2
<1>5. /\ Evolves /\ Births(p) /\ ContactsOK' /\ RowsOK' /\ stale' \subseteq Procs
      /\ verifs' \in [Verifications -> VerifRows]
  <2>1. CASE verifs[i].status = "pending"
    <3>1. wrong[i] = verifs[i].attempts /\ verifs[i].attempts < MaxAttempts
      BY <1>0, <1>2, <2>1 DEF RowsOK
    <3>2. tried \in 1..MaxAttempts /\ verifs[i] \in VerifRows
      BY <1>0, <1>2, <3>1 DEF VerifRows
    <3>3. /\ row \in VerifRows /\ row.user = verifs[i].user
          /\ row.expires = verifs[i].expires /\ row.status \in {"pending", "failed"}
          /\ row.attempts = tried /\ (row.status = "pending" => tried < MaxAttempts)
      <4> DEFINE old == verifs[i]
                 st == IF tried >= MaxAttempts THEN "failed" ELSE old.status
      <4>1. st \in {"pending", "failed"} /\ (st = "pending" => tried < MaxAttempts)
        BY <1>0, <2>1, <3>2
      <4>2. row = [old EXCEPT !.attempts = tried, !.status = st]
        BY <3>2 DEF AfterWrong, VerifRows
      <4>3. old \in VerifRows
        BY <3>2
      <4>s. tried \in 0..MaxAttempts /\ st \in Statuses
        BY <1>0, <3>2, <4>1 DEF Statuses
      <4> HIDE DEF old, tried, st, row
      <4>4. [old EXCEPT !.attempts = tried, !.status = st] \in VerifRows
        BY <4>3, <4>s DEF VerifRows
      <4>5. /\ row.user = old.user /\ row.expires = old.expires /\ row.status = st
            /\ row.attempts = tried
        BY <4>2, <4>3 DEF VerifRows
      <4> QED
        BY <4>1, <4>2, <4>4, <4>5 DEF old
    <3>4. verifs' = [verifs EXCEPT ![i] = row] /\ stale' = Outdated(p)
      <4>1. open
        BY <1>0, <1>2, <2>1 DEF VerifRows, Requests
      <4> QED
        BY <1>3, <4>1
    <3>5. wrong'[i] = tried
      BY <1>4, <3>1
    <3> HIDE DEF row, i, tried, open
    <3>6. /\ Evolves /\ Births(p) /\ ContactsOK'
          /\ verifs' \in [Verifications -> VerifRows]
          /\ \A j \in Verifications \ {i} : verifs'[j] = verifs[j]
          /\ verifs'[i] = row
      BY <1>1, <1>2, <3>3, <3>4, NewRow
    <3>7. RowsOK'
      BY <1>0, <1>2, <1>4, <3>3, <3>5, <3>6 DEF RowsOK, Born
    <3> QED
      BY <3>4, <3>6, <3>7, OutdatedIsStale
  <2>2. CASE verifs[i].status # "pending"
    <3>1. verifs' = verifs /\ stale' = stale
      BY <1>3, <2>2
    <3> HIDE DEF i
    <3>2. RowsOK'
      BY <1>0, <1>2, <1>4, <2>2, <3>1 DEF RowsOK, Born
    <3> QED
      BY <1>0, <1>1, <3>1, <3>2 DEF Evolves, Births, ContactsOK, Born
  <2> QED
    BY <2>1, <2>2
<1>6. /\ RequestOK(p)' /\ DraftOK(p)' /\ Fresh(p) /\ Alone(p)
      /\ req' \in [Procs -> Requests] /\ draft' \in [Procs -> Drafts]
      /\ \A j \in Verifications : p \notin Asking(j)'
  BY <1>1, IdleIsOK
<1>7. TypeOK'
  BY <1>1, <1>4, <1>5, <1>6 DEF IInv, TypeOK, Drafts
<1>8. GuessesOK'
  <2> SUFFICES ASSUME NEW j \in Verifications
               PROVE  wrong'[j] + Cardinality(Asking(j)')
                        <= MaxAttempts - 1 + Cardinality(Procs)
    BY DEF GuessesOK
  <2>0. wrong[j] + Cardinality(Asking(j)) <= MaxAttempts - 1 + Cardinality(Procs)
    BY <1>0 DEF GuessesOK
  <2>1. Asking(j)' \subseteq Asking(j) \ {p}
    BY <1>6 DEF Asking, Alone
  <2>2. CASE j = i
    <3>1. p \in Asking(j)
      BY <1>1, <2>2 DEF Asking
    <3>2. /\ IsFiniteSet(Asking(j) \ {p})
          /\ Cardinality(Asking(j) \ {p}) = Cardinality(Asking(j)) - 1
      BY <3>1, CountAsking, FS_RemoveElement
    <3>3. /\ Cardinality(Asking(j)') <= Cardinality(Asking(j) \ {p})
          /\ Cardinality(Asking(j)') \in Nat
      BY <2>1, <3>2, FS_Subset, FS_CardinalityType
    <3> HIDE DEF i
    <3> QED
      BY <1>0, <1>4, <2>0, <2>2, <3>2, <3>3, CountAsking
  <2>3. CASE j # i
    <3>1. /\ Cardinality(Asking(j)') <= Cardinality(Asking(j))
          /\ Cardinality(Asking(j)') \in Nat
      BY <2>1, CountAsking, FS_Subset, FS_CardinalityType
    <3> HIDE DEF i
    <3> QED
      BY <1>0, <1>4, <2>0, <2>3, <3>1, CountAsking
  <2> QED
    BY <2>2, <2>3
<1> QED
  BY <1>5, <1>6, <1>7, <1>8, TableStep

-----------------------------------------------------------------------------
(* The statements of ConfirmVerification.                                  *)

\* A confirmation that goes on with the same row.
LEMMA ConfirmMove ==
    ASSUME IInv, NEW p \in Procs, Still, clock' = clock, UNCHANGED draft,
           req[p].kind = "confirm", req[p].pc \notin {"commit", "bind"},
           NEW r \in Requests, req' = [req EXCEPT ![p] = r],
           r.kind = "confirm", r.user = req[p].user, r.id = req[p].id, r.old = req[p].old,
           r.pc \in {"check", "verify", "fail", "expire", "reread", "findContact"},
           verifs[r.id].user = r.user,
           r.pc = "check" => r.seen = verifs[r.id],
           r.pc = "verify" => req[p].pc = "check" /\ req[p].seen.status = "pending",
           r.pc = "fail" => req[p].pc = "verify",
           r.pc \in {"verify", "fail"} => r.now < verifs[r.id].expires,
           r.pc \in {"reread", "findContact"} => r.id \in proved
    PROVE  IInv'
<1>0. /\ req \in [Procs -> Requests] /\ RequestOK(p) /\ req'[p] = r
      /\ verifs' = verifs /\ proved' = proved
  BY Typed DEF IInv, Tied, Still
<1>1. r.id \in Verifications /\ r.old = r.id /\ Born(r.id)
  BY <1>0 DEF RequestOK, ConfirmOK
<1>2. RequestOK(p)'
  <2>1. ConfirmOK(p)'
    BY <1>0, <1>1 DEF ConfirmOK, Born
  <2>2. StartOK(p)'
    BY <1>0 DEF StartOK, Starting
  <2>3. req'[p].pc \in StepsOf[req'[p].kind]
    BY <1>0 DEF StepsOf
  <2> QED
    BY <1>0, <1>1, <2>1, <2>2, <2>3 DEF RequestOK, Born
<1>3. \A i \in Verifications :
         p \in Asking(i)' => p \in Asking(i) \/ verifs[i].status = "pending"
  <2> SUFFICES ASSUME NEW i \in Verifications, p \in Asking(i)'
               PROVE  p \in Asking(i) \/ verifs[i].status = "pending"
    OBVIOUS
  <2>1. i = r.id /\ req[p].old = i
    BY <1>0, <1>1 DEF Asking
  <2>2. \/ r.pc = "check" /\ r.seen.status = "pending"
        \/ r.pc \in {"verify", "fail"}
    BY <1>0 DEF Asking
  <2>3. CASE r.pc = "check" /\ r.seen.status = "pending"
    BY <2>1, <2>3
  <2>4. CASE r.pc \in {"verify", "fail"}
    BY <2>1, <2>4 DEF Asking
  <2> QED
    BY <2>2, <2>3, <2>4
<1> QED
  BY <1>0, <1>2, <1>3, MoveStep

LEMMA LoadStep ==
    ASSUME IInv, NEW p \in Procs, GetContactVerification(p), isolation' = isolation
    PROVE  IInv'
<1>0. /\ verifs \in [Verifications -> VerifRows] /\ req \in [Procs -> Requests]
      /\ RequestOK(p) /\ stale \subseteq Procs
      /\ req[p].pc = "load" /\ req[p].kind = "confirm"
  BY Typed, KindOf DEF IInv, Tied, GetContactVerification, At
<1>1. Still /\ clock' = clock
  BY <1>0 DEF GetContactVerification, Tables, History, Still
<1>2. CASE Return(p)
  BY <1>1, <1>2, ReturnStep
<1>3. CASE ~Return(p)
  <2> DEFINE row == verifs[req[p].id]
             r == [req[p] EXCEPT !.pc = "check", !.seen = row]
  <2>1. /\ req' = [req EXCEPT ![p].pc = "check", ![p].seen = row] /\ UNCHANGED draft
        /\ row.user = req[p].user
    BY <1>3 DEF GetContactVerification
  <2>2. row \in VerifRows
    BY <1>0 DEF RequestOK, ConfirmOK
  <2>3. row = verifs[req[p].id]
    OBVIOUS
  <2> HIDE DEF row
  <2>4. r \in Requests
    BY <1>0, <2>2, RequestWith DEF Steps
  <2>5. req' = [req EXCEPT ![p] = r]
    BY <1>0, <2>1
  <2>6. /\ r.kind = "confirm" /\ r.pc = "check" /\ r.user = req[p].user
        /\ r.id = req[p].id /\ r.old = req[p].old /\ r.seen = row
    BY <1>0 DEF Requests
  <2> HIDE DEF r
  <2>7. verifs[r.id].user = r.user /\ r.seen = verifs[r.id]
    BY <2>1, <2>3, <2>6
  <2> QED
    BY <1>0, <1>1, <2>1, <2>4, <2>5, <2>6, <2>7, ConfirmMove
<1> QED
  BY <1>2, <1>3

LEMMA CheckStep ==
    ASSUME IInv, NEW p \in Procs, CheckOpen(p), isolation' = isolation
    PROVE  IInv'
<1>0. /\ req \in [Procs -> Requests] /\ clock \in 0..MaxTime
      /\ RequestOK(p) /\ stale \subseteq Procs
      /\ req[p].pc = "check" /\ req[p].kind = "confirm"
  BY Typed, KindOf DEF IInv, Tied, CheckOpen, At
<1>1. Still /\ clock' = clock
  BY <1>0 DEF CheckOpen, Tables, History, Still
<1>2. CASE Return(p)
  BY <1>1, <1>2, ReturnStep
<1>3. CASE ~Return(p)
  <2> DEFINE step == IF req[p].seen.expires > clock THEN "verify" ELSE "expire"
             r == [req[p] EXCEPT !.now = clock, !.pc = step]
  <2>1. /\ req' = [req EXCEPT ![p].now = clock, ![p].pc = step] /\ UNCHANGED draft
        /\ req[p].seen.status = "pending"
    BY <1>3 DEF CheckOpen
  <2>2. /\ step \in {"verify", "expire"}
        /\ step = "verify" => clock < verifs[req[p].id].expires
    <3>1. req[p].seen.expires = verifs[req[p].id].expires
      BY <1>0 DEF RequestOK, ConfirmOK
    <3>2. req[p].seen.expires \in Int
      BY <1>0, ClockIsBounded, LimitsArePositive DEF Requests, VerifRows
    <3> QED
      BY <1>0, <3>1, <3>2
  <2> HIDE DEF step
  <2>4. r \in Requests
    BY <1>0, <2>2, RequestWith DEF Steps
  <2>5. req' = [req EXCEPT ![p] = r]
    BY <1>0, <2>1
  <2>6. /\ r.kind = "confirm" /\ r.pc = step /\ r.user = req[p].user
        /\ r.id = req[p].id /\ r.old = req[p].old /\ r.now = clock
    BY <1>0 DEF Requests
  <2> HIDE DEF r
  <2>7. verifs[r.id].user = r.user
    BY <1>0, <2>6 DEF RequestOK, ConfirmOK
  <2> QED
    BY <1>0, <1>1, <2>1, <2>2, <2>4, <2>5, <2>6, <2>7, ConfirmMove
<1> QED
  BY <1>2, <1>3

LEMMA RereadStep ==
    ASSUME IInv, NEW p \in Procs, Reread(p), isolation' = isolation
    PROVE  IInv'
<1>0. /\ req \in [Procs -> Requests] /\ RequestOK(p) /\ stale \subseteq Procs
      /\ req[p].pc = "reread" /\ req[p].kind = "confirm"
  BY Typed, KindOf DEF IInv, Tied, Reread, At
<1>1. Still /\ clock' = clock
  BY <1>0 DEF Reread, Tables, History, Still
<1>2. CASE Return(p)
  BY <1>1, <1>2, ReturnStep
<1>3. CASE ~Return(p)
  <2> DEFINE row == Sees(p, req[p].id)
             r == [req[p] EXCEPT !.pc = "findContact", !.seen = row, !.now = 0]
  <2>0. /\ req[p].id \in Verifications /\ Born(req[p].id) /\ req[p].id \in proved
        /\ verifs[req[p].id].user = req[p].user
    BY <1>0 DEF RequestOK, ConfirmOK
  <2>1. /\ req' = [req EXCEPT ![p].pc = "findContact", ![p].seen = row, ![p].now = 0]
        /\ UNCHANGED draft
    BY <1>3 DEF Reread
  <2>2. row \in VerifRows
    BY <1>0, <2>0, SeenRow
  <2> HIDE DEF row
  <2>4. r \in Requests
    <3>1. 0 \in 0..MaxTime
      BY ClockIsBounded
    <3> QED
      BY <1>0, <2>2, <3>1, RequestWith DEF Steps
  <2>5. req' = [req EXCEPT ![p] = r]
    BY <1>0, <2>1
  <2>6. /\ r.kind = "confirm" /\ r.pc = "findContact" /\ r.user = req[p].user
        /\ r.id = req[p].id /\ r.old = req[p].old
    BY <1>0 DEF Requests
  <2> HIDE DEF r
  <2>7. verifs[r.id].user = r.user /\ r.id \in proved
    BY <2>0, <2>6
  <2> QED
    BY <1>0, <1>1, <2>1, <2>4, <2>5, <2>6, <2>7, ConfirmMove
<1> QED
  BY <1>2, <1>3

LEMMA VerifyStep ==
    ASSUME IInv, NEW p \in Procs, ProviderVerify(p), isolation' = isolation
    PROVE  IInv'
<1>0. /\ req \in [Procs -> Requests] /\ draft \in [Procs -> Drafts] /\ RequestOK(p)
      /\ stale \subseteq Procs /\ proved \subseteq Verifications
      /\ req[p].pc = "verify" /\ req[p].kind = "confirm"
  BY Typed, KindOf DEF IInv, Tied, ProviderVerify, At
<1>1. /\ UNCHANGED <<clock, verifs, contacts, draft, stale, wrong>>
      /\ \/ proved' = proved \cup {req[p].id} /\ Goto(p, "reread")
         \/ proved' = proved /\ Goto(p, "fail")
  BY DEF ProviderVerify, Tables
<1>2. /\ req[p].id \in Verifications /\ Born(req[p].id) /\ req[p].old = req[p].id
      /\ verifs[req[p].id].user = req[p].user
      /\ req[p].now < verifs[req[p].id].expires
  BY <1>0 DEF RequestOK, ConfirmOK
<1>3. CASE proved' = proved /\ Goto(p, "fail")
  <2>1. Still
    BY <1>0, <1>1, <1>3 DEF Still
  <2>2. PICK r \in Requests : req' = [req EXCEPT ![p] = r] /\ Moved(r, p, "fail")
    BY <1>3, GotoRow DEF Steps
  <2> QED
    BY <1>0, <1>1, <1>2, <2>1, <2>2, ConfirmMove DEF Moved
<1>4. CASE proved' = proved \cup {req[p].id} /\ Goto(p, "reread")
  <2>1. PICK r \in Requests : /\ req' = [req EXCEPT ![p] = r] /\ req'[p] = r
                             /\ Moved(r, p, "reread")
    BY <1>4, GotoRow DEF Steps
  <2>2. /\ proved \subseteq proved' /\ req[p].id \in proved'
        /\ proved' \subseteq Verifications
    BY <1>0, <1>2, <1>4
  <2>3. Evolves /\ Births(p)
    BY <1>1, <2>2 DEF Evolves, Births, Born
  <2>4. RequestOK(p)'
    BY <1>0, <1>1, <1>2, <2>1, <2>2
       DEF RequestOK, StartOK, Starting, ConfirmOK, StepsOf, Born, Moved
  <2>5. DraftOK(p)'
    BY <1>0, <1>1, <2>1, <2>3, DraftKeeps DEF Moved
  <2>6. Alone(p) /\ Fresh(p) /\ req' \in [Procs -> Requests]
    BY <1>0, <1>1, <2>1, FreshWhenSame DEF Alone, Moved
  <2>7. RowsOK' /\ ContactsOK'
    <3>1. RowsOK /\ ContactsOK
      BY DEF IInv, Tied
    <3> QED
      BY <1>1, <2>2, <3>1 DEF RowsOK, ContactsOK, Born
  <2>8. GuessesOK'
    <3>1. \A i \in Verifications : p \notin Asking(i)'
      BY <2>1 DEF Asking, Moved
    <3> QED
      BY <1>1, <2>6, <3>1, GuessesKeep
  <2>9. TypeOK'
    BY <1>1, <2>2, <2>6 DEF IInv, TypeOK
  <2> QED
    BY <2>3, <2>4, <2>5, <2>6, <2>7, <2>8, <2>9, TableStep
<1> QED
  BY <1>1, <1>3, <1>4

-----------------------------------------------------------------------------
(* The statements of a transaction.                                        *)

GoesOn(r, p) ==
    /\ r.kind = req[p].kind /\ r.user = req[p].user /\ r.id = req[p].id
    /\ r.old = req[p].old /\ r.seen = req[p].seen

LEMMA GoOn ==
    ASSUME IInv, NEW p \in Procs, NEW r \in Requests, req' = [req EXCEPT ![p] = r],
           verifs' = verifs, proved' = proved, GoesOn(r, p),
           req[p].pc \in {"findContact", "delete", "bind", "consume", "findPending", "sweep"},
           r.pc \in {"delete", "bind", "consume", "findPending", "sweep", "insert", "commit"},
           r.pc \in StepsOf[r.kind]
    PROVE  RequestOK(p)'
<1>0. req \in [Procs -> Requests] /\ RequestOK(p) /\ req[p].kind # "idle"
  BY Typed, KindOf DEF IInv, Tied
<1>1. req'[p] = r /\ \A q \in Procs \ {p} : req'[q] = req[q]
  BY <1>0
<1>2. StartOK(p)'
  <2>1. req[p].kind = "start" => Starting(p)
    <3>1. req[p].pc \in {"findContact", "delete", "bind", "consume"} => req[p].kind # "start"
      BY KindOf
    <3> QED
      BY <3>1 DEF Starting
  <2>2. r.kind = "start" => r.pc \in {"findPending", "sweep", "insert", "commit"}
    BY DEF StepsOf
  <2> QED
    BY <1>0, <1>1, <2>1, <2>2 DEF RequestOK, StartOK, Starting, Born, GoesOn
<1>3. ConfirmOK(p)'
  BY <1>0, <1>1 DEF RequestOK, ConfirmOK, Born, GoesOn
<1> QED
  BY <1>0, <1>1, <1>2, <1>3 DEF RequestOK, GoesOn

\* Statements that only read.
LEMMA ReadOn ==
    ASSUME IInv, NEW p \in Procs, NEW r \in Requests, req' = [req EXCEPT ![p] = r],
           Still, clock' = clock, UNCHANGED draft, GoesOn(r, p),
           req[p].pc \in {"findContact", "delete", "consume", "findPending", "sweep"},
           r.pc \in {"delete", "bind", "consume", "findPending", "sweep", "insert", "commit"},
           r.pc \in StepsOf[r.kind]
    PROVE  IInv'
<1>1. RequestOK(p)'
  BY GoOn DEF Still
<1>2. req'[p] = r
  BY Typed DEF IInv
<1>3. \A i \in Verifications : p \notin Asking(i)'
  BY <1>2 DEF Asking
<1> QED
  BY <1>1, <1>3, MoveStep DEF GoesOn

LEMMA FindContactStep ==
    ASSUME IInv, NEW p \in Procs, FindContact(p), isolation' = isolation
    PROVE  IInv'
<1>0. /\ req \in [Procs -> Requests] /\ stale \subseteq Procs /\ RequestOK(p)
      /\ req[p].pc = "findContact" /\ req[p].kind \in {"confirm", "unbind"}
  BY Typed, KindOf DEF IInv, Tied, FindContact, At
<1>1. Still /\ clock' = clock /\ UNCHANGED draft
  BY <1>0 DEF FindContact, Tables, History, Still
<1> DEFINE c == SeesContact(p, req[p].user)
           r == [req[p] EXCEPT !.contact = c, !.pc = "delete"]
<1>2. c \in Verifications \cup {None}
  <2>1. req[p].user \in Users
    BY <1>0 DEF RequestOK
  <2>2. /\ draft[p].contacts[req[p].user] \in Verifications \cup {None, "gone"}
        /\ contacts[req[p].user] \in Verifications \cup {None}
    BY <2>1, Typed DEF IInv, Drafts
  <2> QED
    BY <2>2, NoneIsNoContact DEF SeesContact
<1>3. req' = [req EXCEPT ![p].contact = c, ![p].pc = "delete"]
  BY DEF FindContact
<1> HIDE DEF c
<1>4. r \in Requests
  BY <1>0, <1>2, RequestWith DEF Steps
<1>5. req' = [req EXCEPT ![p] = r]
  BY <1>0, <1>3
<1>6. GoesOn(r, p) /\ r.pc = "delete"
  BY <1>0 DEF GoesOn, Requests
<1> HIDE DEF r
<1>7. r.pc \in StepsOf[r.kind]
  BY <1>0, <1>6 DEF StepsOf, GoesOn
<1> QED
  BY <1>0, <1>1, <1>4, <1>5, <1>6, <1>7, ReadOn

\* A statement that writes the contact of its user.
LEMMA ContactStep ==
    ASSUME IInv, NEW p \in Procs, NEW r \in Requests, Still, clock' = clock,
           NEW c \in Verifications \cup {"gone"},
           draft' = [draft EXCEPT ![p].contacts[req[p].user] = c],
           req' = [req EXCEPT ![p] = r], req[p].user \in Users, GoesOn(r, p),
           req[p].pc \in {"delete", "bind"},
           r.pc \in {"bind", "consume", "findPending"}, r.pc \in StepsOf[r.kind],
           c = "gone" => r.kind = "unbind" \/ (r.kind = "confirm" /\ r.pc = "bind"),
           c # "gone" => c \in proved /\ Born(c) /\ verifs[c].user = req[p].user
    PROVE  IInv'
<1>0. /\ draft \in [Procs -> Drafts] /\ req \in [Procs -> Requests]
      /\ contacts \in [Users -> Verifications \cup {None}] /\ DraftOK(p)
  BY Typed DEF IInv, Tied
<1> DEFINE v == [draft[p].contacts EXCEPT ![req[p].user] = c]
           d == [draft[p] EXCEPT !.contacts = v]
<1>1. v \in [Users -> Verifications \cup {None, "gone"}]
  BY <1>0 DEF Drafts
<1>2. d \in Drafts /\ d.contacts = v /\ d.verifs = draft[p].verifs
  <2> HIDE DEF v
  <2> QED
    BY <1>0, <1>1 DEF Drafts
<1>3. draft' = [draft EXCEPT ![p] = d]
  BY <1>0 DEF Drafts
<1>4. /\ v[req[p].user] = c
      /\ \A u \in Users \ {req[p].user} : v[u] = draft[p].contacts[u]
  BY <1>0 DEF Drafts
<1> HIDE DEF v, d
<1>5. req'[p] = r /\ draft'[p] = d /\ verifs' = verifs /\ proved' = proved
  BY <1>0, <1>3 DEF Still
<1>6. RequestOK(p)'
  BY <1>5, GoOn
<1>7. Evolves
  BY <1>5 DEF Evolves, Born
<1>8. DraftOK(p)'
  <2>1. \A i \in Verifications : DraftRowOK(p, i)'
    BY <1>2, <1>5, <1>7, RowKeeps
  <2>2. ASSUME NEW u \in Users \ {req[p].user} PROVE DraftContactOK(p, u)'
    <3>1. draft[p].contacts[u] \in Verifications \cup {None, "gone"}
      BY <1>0 DEF Drafts
    <3>2. DraftContactOK(p, u) /\ draft'[p].contacts[u] = draft[p].contacts[u]
      BY <1>0, <1>2, <1>4, <1>5 DEF DraftOK
    <3>3. draft[p].contacts[u] # "gone"
      BY <3>2 DEF DraftContactOK
    <3> QED
      BY <1>5, <3>1, <3>2, <3>3 DEF DraftContactOK, Born
  <2>3. ASSUME NEW u \in Users, u = req[p].user PROVE DraftContactOK(p, u)'
    <3>1. draft'[p].contacts[u] = c
      BY <1>2, <1>4, <1>5, <2>3
    <3> QED
      BY <1>5, <2>3, <3>1 DEF DraftContactOK, Born, GoesOn
  <2> QED
    BY <1>5, <2>1, <2>2, <2>3 DEF DraftOK
<1>9. Fresh(p)
  BY <1>5, FreshWhenSame DEF GoesOn
<1>10. \A i \in Verifications : p \notin Asking(i)'
  BY <1>5 DEF Asking
<1> QED
  BY <1>2, <1>3, <1>6, <1>8, <1>9, <1>10, StillStep

LEMMA DeleteStep ==
    ASSUME IInv, NEW p \in Procs, DeleteContact(p), isolation' = isolation
    PROVE  IInv'
<1>0. /\ req \in [Procs -> Requests] /\ stale \subseteq Procs /\ RequestOK(p)
      /\ req[p].pc = "delete" /\ req[p].kind \in {"confirm", "unbind"}
  BY Typed, KindOf DEF IInv, Tied, DeleteContact, At
<1>1. Still /\ clock' = clock /\ req[p].user \in Users
  BY <1>0 DEF DeleteContact, Tables, History, Still, RequestOK
<1>2. CASE Return(p)
  BY <1>1, <1>2, ReturnStep
<1>3. CASE ~Return(p)
  <2> DEFINE step == IF req[p].kind = "unbind" THEN "findPending" ELSE "bind"
             r == [req[p] EXCEPT !.contact = None, !.pc = step]
  <2>1. /\ req' = [req EXCEPT ![p].contact = None, ![p].pc = step]
        /\ \/ UNCHANGED draft
           \/ draft' = [draft EXCEPT ![p].contacts[req[p].user] = "gone"]
    BY <1>3 DEF DeleteContact
  <2>2. /\ step \in {"findPending", "bind"}
        /\ step = "bind" \/ req[p].kind = "unbind"
        /\ step = "bind" => req[p].kind = "confirm"
    BY <1>0
  <2> HIDE DEF step
  <2>3. r \in Requests
    BY <1>0, <2>2, RequestWith DEF Steps
  <2>4. req' = [req EXCEPT ![p] = r]
    BY <1>0, <2>1
  <2>5. GoesOn(r, p) /\ r.pc = step
    BY <1>0 DEF GoesOn, Requests
  <2> HIDE DEF r
  <2>6. r.pc \in StepsOf[r.kind]
    BY <1>0, <2>2, <2>5 DEF StepsOf, GoesOn
  <2>7. CASE UNCHANGED draft
    BY <1>0, <1>1, <2>2, <2>3, <2>4, <2>5, <2>6, <2>7, ReadOn
  <2>8. CASE draft' = [draft EXCEPT ![p].contacts[req[p].user] = "gone"]
    <3> DEFINE c == "gone"
    <3>1. /\ c \in Verifications \cup {"gone"}
          /\ draft' = [draft EXCEPT ![p].contacts[req[p].user] = c]
          /\ c = "gone"
      BY <2>8
    <3>2. r.kind = "unbind" \/ (r.kind = "confirm" /\ r.pc = "bind")
      BY <2>2, <2>5 DEF GoesOn
    <3> HIDE DEF c
    <3> QED
      BY <1>0, <1>1, <2>2, <2>3, <2>4, <2>5, <2>6, <3>1, <3>2, ContactStep
  <2> QED
    BY <2>1, <2>7, <2>8
<1> QED
  BY <1>2, <1>3

LEMMA BindStep ==
    ASSUME IInv, NEW p \in Procs, InsertContact(p), isolation' = isolation
    PROVE  IInv'
<1>0. /\ req \in [Procs -> Requests] /\ stale \subseteq Procs /\ RequestOK(p)
      /\ req[p].pc = "bind" /\ req[p].kind = "confirm"
  BY Typed, KindOf DEF IInv, Tied, InsertContact, At
<1>1. Still /\ clock' = clock /\ req[p].user \in Users
  BY <1>0 DEF InsertContact, Tables, History, Still, RequestOK
<1>2. CASE Return(p)
  BY <1>1, <1>2, ReturnStep
<1>3. CASE ~Return(p)
  <2> DEFINE c == req[p].id
  <2>1. /\ Goto(p, "consume")
        /\ draft' = [draft EXCEPT ![p].contacts[req[p].user] = c]
    BY <1>3 DEF InsertContact
  <2>2. c \in Verifications /\ c \in proved /\ Born(c) /\ verifs[c].user = req[p].user
    BY <1>0 DEF RequestOK, ConfirmOK
  <2>3. PICK r \in Requests : req' = [req EXCEPT ![p] = r] /\ Moved(r, p, "consume")
    BY <2>1, GotoRow DEF Steps
  <2>4. GoesOn(r, p) /\ r.pc = "consume" /\ r.kind = "confirm"
    BY <1>0, <2>3 DEF GoesOn, Moved
  <2>5. r.pc \in StepsOf[r.kind]
    BY <2>4 DEF StepsOf
  <2> HIDE DEF c
  <2> QED
    BY <1>0, <1>1, <2>1, <2>2, <2>3, <2>4, <2>5, GoneIsNoContact, ContactStep
<1> QED
  BY <1>2, <1>3

LEMMA ConsumeStep ==
    ASSUME IInv, NEW p \in Procs, Consume(p), isolation' = isolation
    PROVE  IInv'
<1>0. /\ req \in [Procs -> Requests] /\ stale \subseteq Procs /\ RequestOK(p)
      /\ req[p].pc = "consume" /\ req[p].kind = "confirm"
  BY Typed, KindOf DEF IInv, Tied, Consume, At
<1> DEFINE i == req[p].id
           old == Sees(p, i)
           tries == req[p].seen.attempts
           row == [old EXCEPT !.status = "consumed", !.attempts = tries]
<1>1. Still /\ clock' = clock /\ Goto(p, "findPending") /\ Write(p, i, row)
  BY <1>0 DEF Consume, Tables, History, Still
<1>2. i \in Verifications /\ Born(i) /\ i = req[p].id
  BY <1>0 DEF RequestOK, ConfirmOK
<1>3. /\ old \in VerifRows /\ old.user = verifs[i].user
      /\ old.expires = verifs[i].expires /\ tries \in 0..MaxAttempts
  <2>1. tries \in 0..MaxAttempts
    BY <1>0 DEF Requests, VerifRows
  <2> QED
    BY <1>0, <1>2, <2>1, SeenRow
<1> HIDE DEF i, old, tries
<1>4. /\ row \in VerifRows /\ row.user = verifs[i].user
      /\ row.expires = verifs[i].expires /\ row.status = "consumed"
  BY <1>3 DEF VerifRows, Statuses
<1> HIDE DEF row
<1>5. PICK r \in Requests : req' = [req EXCEPT ![p] = r] /\ Moved(r, p, "findPending")
  BY <1>1, GotoRow DEF Steps
<1>6. GoesOn(r, p) /\ r.pc = "findPending" /\ r.kind = "confirm"
  BY <1>0, <1>5 DEF GoesOn, Moved
<1>7. r.pc \in StepsOf[r.kind]
  BY <1>6 DEF StepsOf
<1>8. RequestOK(p)'
  BY <1>0, <1>1, <1>5, <1>6, <1>7, GoOn DEF Still
<1> QED
  BY <1>0, <1>1, <1>2, <1>4, <1>5, <1>6, <1>8, WriteStep DEF GoesOn

\* Which statement follows when the set of rows is known.
LEMMA SweepGoesOn ==
    ASSUME IInv, NEW p \in Procs, NEW rows \in SUBSET Verifications, SweepRows(p, rows),
           req[p].pc \in {"findPending", "sweep"}
    PROVE  \E r \in Requests :
              /\ req' = [req EXCEPT ![p] = r] /\ GoesOn(r, p)
              /\ r.pc \in {"sweep", "insert", "commit"} /\ r.pc \in StepsOf[r.kind]
<1>0. req \in [Procs -> Requests] /\ req[p].kind \in {"start", "confirm", "unbind"}
  BY Typed, KindOf DEF IInv, Requests, Kinds
<1> DEFINE then == IF req[p].kind = "start" THEN "insert" ELSE "commit"
           step == IF rows = {} THEN then ELSE "sweep"
           r == [req[p] EXCEPT !.rows = rows, !.pc = step]
<1>1. req' = [req EXCEPT ![p].rows = rows, ![p].pc = step]
  BY DEF SweepRows
<1>2. /\ step \in {"sweep", "insert", "commit"}
      /\ step = "insert" => req[p].kind = "start"
      /\ step = "commit" => req[p].kind # "start"
  OBVIOUS
<1> HIDE DEF step
<1>3. r \in Requests
  BY <1>0, <1>2, RequestWith DEF Steps
<1>4. req' = [req EXCEPT ![p] = r]
  BY <1>0, <1>1
<1>5. GoesOn(r, p) /\ r.pc = step
  BY <1>0 DEF GoesOn, Requests
<1> HIDE DEF r
<1>6. r.pc \in StepsOf[r.kind]
  BY <1>0, <1>2, <1>5 DEF StepsOf, GoesOn
<1> QED
  BY <1>2, <1>3, <1>4, <1>5, <1>6

LEMMA FindPendingStep ==
    ASSUME IInv, NEW p \in Procs, FindPending(p), isolation' = isolation
    PROVE  IInv'
<1>1. /\ Still /\ clock' = clock /\ UNCHANGED draft /\ req[p].pc = "findPending"
      /\ SweepRows(p, OtherPending(p)) /\ OtherPending(p) \in SUBSET Verifications
  BY Typed DEF IInv, FindPending, At, Tables, History, Still, OtherPending
<1>2. PICK r \in Requests :
           /\ req' = [req EXCEPT ![p] = r] /\ GoesOn(r, p)
           /\ r.pc \in {"sweep", "insert", "commit"} /\ r.pc \in StepsOf[r.kind]
  BY <1>1, SweepGoesOn
<1> QED
  BY <1>1, <1>2, ReadOn

LEMMA CancelStep ==
    ASSUME IInv, NEW p \in Procs, CancelPending(p), isolation' = isolation
    PROVE  IInv'
<1>0. /\ req \in [Procs -> Requests] /\ draft \in [Procs -> Drafts]
      /\ verifs \in [Verifications -> VerifRows] /\ DraftOK(p) /\ RequestOK(p)
      /\ stale \subseteq Procs /\ req[p].pc = "sweep"
  BY Typed DEF IInv, Tied, CancelPending, At
<1>1. Still /\ clock' = clock
  BY <1>0 DEF CancelPending, Tables, History, Still
<1>2. PICK i \in req[p].rows :
           /\ SweepRows(p, req[p].rows \ {i})
           /\ \/ /\ Sees(p, i).status = "pending"
                 /\ Write(p, i, [Sees(p, i) EXCEPT !.status = "cancelled"])
              \/ UNCHANGED draft
  BY DEF CancelPending
<1>3. i \in Verifications /\ req[p].rows \ {i} \in SUBSET Verifications
  BY <1>0 DEF Requests
<1>4. PICK r \in Requests :
           /\ req' = [req EXCEPT ![p] = r] /\ GoesOn(r, p)
           /\ r.pc \in {"sweep", "insert", "commit"} /\ r.pc \in StepsOf[r.kind]
  BY <1>0, <1>2, <1>3, SweepGoesOn
<1>5. CASE UNCHANGED draft
  BY <1>0, <1>1, <1>4, <1>5, ReadOn
<1>6. CASE /\ Sees(p, i).status = "pending"
           /\ Write(p, i, [Sees(p, i) EXCEPT !.status = "cancelled"])
  <2> DEFINE old == Sees(p, i)
             row == [old EXCEPT !.status = "cancelled"]
  <2>1. DraftRowOK(p, i) /\ draft[p].verifs[i] \in VerifRows \cup {None}
    BY <1>0, <1>3 DEF DraftOK, Drafts
  <2>2. CASE draft[p].verifs[i] # None
    <3>1. draft[p].verifs[i].status # "pending"
      BY <1>0, <2>1, <2>2 DEF DraftRowOK
    <3> QED
      BY <1>6, <2>2, <3>1 DEF Sees
  <2>3. CASE draft[p].verifs[i] = None
    <3>1. old = verifs[i] /\ old \in VerifRows /\ Born(i)
      BY <1>0, <1>3, <1>6, <2>3 DEF Sees, Born
    <3>2. Write(p, i, row)
      BY <1>6
    <3> HIDE DEF old
    <3>3. /\ row \in VerifRows /\ row.user = verifs[i].user
          /\ row.expires = verifs[i].expires /\ row.status = "cancelled"
      BY <3>1 DEF VerifRows, Statuses
    <3> HIDE DEF row
    <3>4. RequestOK(p)'
      BY <1>0, <1>1, <1>4, GoOn DEF Still
    <3> QED
      BY <1>0, <1>1, <1>3, <1>4, <3>1, <3>2, <3>3, <3>4, WriteStep DEF GoesOn
  <2> QED
    BY <2>2, <2>3
<1> QED
  BY <1>2, <1>5, <1>6

-----------------------------------------------------------------------------
(* The end of a request, and time.                                         *)

LEMMA CommitStep ==
    ASSUME IInv, NEW p \in Procs, Commit(p), isolation' = isolation
    PROVE  IInv'
<1>0. /\ verifs \in [Verifications -> VerifRows] /\ draft \in [Procs -> Drafts]
      /\ contacts \in [Users -> Verifications \cup {None}]
      /\ RequestOK(p) /\ DraftOK(p) /\ RowsOK /\ ContactsOK /\ stale \subseteq Procs
      /\ MaxAttempts \in Nat \ {0}
  BY Typed, LimitsArePositive DEF IInv, Tied
<1>1. /\ req[p].pc = "commit" /\ Return(p) /\ UNCHANGED <<clock, wrong, proved>>
      /\ verifs' = [i \in Verifications |-> Sees(p, i)]
      /\ contacts' = [u \in Users |-> SeesContact(p, u)]
      /\ stale' \subseteq Procs
  BY <1>0, OutdatedIsStale DEF Commit, At, History
<1>2. ASSUME NEW i \in Verifications
      PROVE  \/ verifs'[i] = verifs[i]
             \/ /\ Born(i) /\ verifs'[i].user = verifs[i].user
                /\ verifs'[i].expires = verifs[i].expires
                /\ verifs'[i].status \notin {"unborn", "pending"}
             \/ /\ ~Born(i) /\ Starting(p) /\ req[p].id = i
                /\ verifs'[i].status = "pending" /\ verifs'[i].attempts = 0
  <2>1. DraftRowOK(p, i)
    BY <1>0 DEF DraftOK
  <2>2. verifs'[i] = IF draft[p].verifs[i] = None THEN verifs[i] ELSE draft[p].verifs[i]
    BY <1>1 DEF Sees
  <2>3. CASE draft[p].verifs[i] = None
    BY <2>2, <2>3
  <2>4. CASE draft[p].verifs[i] # None
    BY <1>0, <1>1, <2>1, <2>2, <2>4 DEF DraftRowOK, Starting, RequestOK, StartOK
  <2> QED
    BY <2>3, <2>4
<1>3. verifs' \in [Verifications -> VerifRows]
  <2>1. \A i \in Verifications : Sees(p, i) \in VerifRows
    BY <1>0 DEF Sees, Drafts
  <2> QED
    BY <1>1, <2>1
<1>4. Evolves /\ Births(p)
  <2>1. Evolves
    BY <1>1, <1>2 DEF Evolves, Born
  <2>2. Births(p)
    BY <1>2 DEF Births, Born
  <2> QED
    BY <2>1, <2>2
<1>5. RowsOK'
  BY <1>0, <1>1, <1>2 DEF RowsOK, Born
<1>6. ASSUME NEW u \in Users
      PROVE  /\ contacts'[u] \in Verifications \cup {None}
             /\ contacts'[u] # None =>
                   /\ contacts'[u] \in proved /\ Born(contacts'[u])
                   /\ verifs[contacts'[u]].user = u
  <2>1. /\ DraftContactOK(p, u)
        /\ draft[p].contacts[u] \in Verifications \cup {None, "gone"}
    BY <1>0 DEF DraftOK, Drafts
  <2>2. contacts'[u] = SeesContact(p, u)
    BY <1>1
  <2>3. CASE draft[p].contacts[u] = None
    BY <1>0, <2>2, <2>3, NoneIsNoContact DEF SeesContact, ContactsOK
  <2>4. CASE draft[p].contacts[u] = "gone"
    BY <2>2, <2>4, NoneIsNoContact DEF SeesContact
  <2>5. CASE draft[p].contacts[u] \notin {None, "gone"}
    BY <2>1, <2>2, <2>5 DEF SeesContact, DraftContactOK
  <2> QED
    BY <2>3, <2>4, <2>5
<1>7. ContactsOK'
  BY <1>1, <1>4, <1>6 DEF ContactsOK, Evolves, Born
<1>8. /\ RequestOK(p)' /\ DraftOK(p)' /\ Fresh(p) /\ Alone(p)
      /\ req' \in [Procs -> Requests] /\ draft' \in [Procs -> Drafts]
      /\ \A i \in Verifications : p \notin Asking(i)'
  BY <1>1, IdleIsOK
<1>9. contacts' \in [Users -> Verifications \cup {None}]
  BY <1>1, <1>6
<1>10. TypeOK'
  BY <1>1, <1>3, <1>8, <1>9 DEF IInv, TypeOK, Drafts
<1>11. GuessesOK'
  BY <1>1, <1>8, GuessesKeep
<1> QED
  BY <1>4, <1>5, <1>7, <1>8, <1>10, <1>11, TableStep

LEMMA FailStep ==
    ASSUME IInv, NEW p \in Procs, Fail(p), isolation' = isolation
    PROVE  IInv'
<1>1. Return(p) /\ Still /\ clock' = clock
  BY Typed DEF IInv, Fail, Tables, History, Still
<1> QED
  BY <1>1, ReturnStep

LEMMA QuietKeeps ==
    ASSUME IInv, UNCHANGED <<isolation, verifs, contacts, req, draft, stale, wrong, proved>>,
           clock' \in 0..MaxTime
    PROVE  IInv'
<1>1. TypeOK'
  BY DEF IInv, TypeOK
<1>2. Tied'
  BY DEF IInv, Tied, RequestOK, StartOK, Starting, ConfirmOK, DraftOK, DraftRowOK,
         DraftContactOK, RowsOK, ContactsOK, Born
<1>3. GuessesOK'
  BY DEF IInv, GuessesOK, Asking
<1> QED
  BY <1>1, <1>2, <1>3 DEF IInv

LEMMA InitHolds == ASSUME Init PROVE IInv
<1> USE DEF Init
<1>1. TypeOK
  BY ClockIsBounded, LimitsArePositive, IdleIsRequest
     DEF TypeOK, Drafts, Unborn, VerifRows, Statuses
<1>2. Tied
  <2>1. ASSUME NEW p \in Procs PROVE RequestOK(p) /\ DraftOK(p)
    <3>1. req[p] = Idle /\ draft[p] = Blank
      OBVIOUS
    <3>2. RequestOK(p)
      BY <3>1 DEF RequestOK, StartOK, Starting, ConfirmOK, Idle, StepsOf
    <3>3. DraftOK(p)
      BY <3>1, NoneIsNoContact DEF DraftOK, DraftRowOK, DraftContactOK, Blank
    <3> QED
      BY <3>2, <3>3
  <2>2. RowsOK
    BY LimitsArePositive DEF RowsOK, Unborn
  <2>3. ContactsOK
    BY DEF ContactsOK
  <2> QED
    BY <2>1, <2>2, <2>3 DEF Tied
<1>3. GuessesOK
  <2> SUFFICES ASSUME NEW i \in Verifications
               PROVE  wrong[i] + Cardinality(Asking(i)) <= MaxAttempts - 1 + Cardinality(Procs)
    BY DEF GuessesOK
  <2>1. wrong[i] = 0
    OBVIOUS
  <2> QED
    BY <2>1, CountAsking, LimitsArePositive
<1> QED
  BY <1>1, <1>2, <1>3 DEF IInv

LEMMA NextHolds == ASSUME IInv, [Next]_vars PROVE IInv'
<1>1. CASE UNCHANGED vars
  <2>1. clock \in 0..MaxTime
    BY Typed DEF IInv
  <2> QED
    BY <1>1, <2>1, QuietKeeps DEF vars
<1>2. CASE Tick /\ isolation' = isolation
  <2>1. clock' \in 0..MaxTime
    BY <1>2, ClockIsBounded, Typed DEF IInv, Tick
  <2> QED
    BY <1>2, <2>1, QuietKeeps DEF Tick, History
<1>3. ASSUME NEW p \in Procs, isolation' = isolation,
             \/ Start(p) \/ Confirm(p) \/ Unbind(p)
             \/ Step(p) \/ Commit(p) \/ Fail(p)
      PROVE  IInv'
  BY <1>3, OpenStep, StartReadsStep, ProviderStartStep, CreateStep, ExpireStep,
     WrongCodeStep, LoadStep, CheckStep, VerifyStep, RereadStep, FindContactStep, DeleteStep,
     BindStep, ConsumeStep, FindPendingStep, CancelStep, CommitStep, FailStep
     DEF Step
<1> QED
  BY <1>1, <1>2, <1>3 DEF Next

LEMMA Invariant == Spec => []IInv
  BY InitHolds, NextHolds, PTL DEF Spec

-----------------------------------------------------------------------------
(* One writer at a time: what a transaction has read it finds when it       *)
(* commits.  A goroutine that is not stale began after the last commit.     *)

AsksForOwn(p) == Starting(p) => req[p].seen.user = req[p].user

\* The contact a transaction binds is the verification that it confirms.
Binding == {"consume", "findPending", "sweep", "commit"}
BindsOwn(p) ==
    \A u \in Users : draft[p].contacts[u] \notin {None, "gone"} =>
        /\ req[p].kind = "confirm" /\ req[p].pc \in Binding
        /\ draft[p].contacts[u] = req[p].id

\* A start sweeps what it found; then no other verification of the user is pending.
Swept(p) ==
    req[p].kind = "start" =>
        /\ req[p].pc = "sweep" => OtherPending(p) \subseteq req[p].rows
        /\ req[p].pc \in {"insert", "commit"} => OtherPending(p) = {}

\* What was read again is still pending until the transaction commits.
Reserved(p) ==
    LET i == req[p].id IN
    req[p].kind = "confirm" =>
        /\ req[p].pc \in {"findContact", "delete", "bind", "consume", "findPending",
                          "sweep", "commit"} => verifs[i].status = "pending"
        /\ req[p].pc \in {"findPending", "sweep", "commit"} =>
              draft[p].verifs[i] # None /\ draft[p].verifs[i].status = "consumed"

Holds(p) ==
    /\ AsksForOwn(p) /\ BindsOwn(p)
    /\ isolation = "Serializable" /\ p \notin stale => Swept(p) /\ Reserved(p)
Serial == OnePending /\ \A p \in Procs : Holds(p)

\* A step that changes a row leaves no transaction of another goroutine current.
Marks(p) ==
    /\ stale \ {p} \subseteq stale'
    /\ isolation = "Serializable" =>
          \/ verifs' = verifs
          \/ \A q \in Procs \ {p} : req[q].pc \in InTx => q \in stale'

LEMMA OthersHold ==
    ASSUME NEW p \in Procs, Alone(p), isolation' = isolation, Marks(p),
           NEW q \in Procs \ {p}, Holds(q)
    PROVE  Holds(q)'
<1>1. req'[q] = req[q] /\ draft'[q] = draft[q]
  BY DEF Alone
<1>2. AsksForOwn(q)' /\ BindsOwn(q)'
  BY <1>1 DEF Holds, AsksForOwn, BindsOwn, Starting
<1>3. ASSUME isolation = "Serializable", q \notin stale'
      PROVE  Swept(q)' /\ Reserved(q)'
  <2>1. q \notin stale /\ Swept(q) /\ Reserved(q)
    BY <1>3 DEF Marks, Holds
  <2>2. CASE verifs' = verifs
    <3>1. OtherPending(q)' = OtherPending(q)
      BY <1>1, <2>2 DEF OtherPending, Sees
    <3> QED
      BY <1>1, <2>1, <2>2, <3>1 DEF Swept, Reserved
  <2>3. CASE req[q].pc \notin InTx
    BY <1>1, <2>3 DEF Swept, Reserved, InTx
  <2> QED
    BY <1>3, <2>2, <2>3 DEF Marks
<1> QED
  BY <1>2, <1>3 DEF Holds

LEMMA SerialKeeps ==
    ASSUME Serial, NEW p \in Procs, Alone(p), isolation' = isolation, Marks(p),
           Holds(p)', OnePending'
    PROVE  Serial'
  BY OthersHold DEF Serial

\* Most statements leave the rows alone.
LEMMA QuietSerial ==
    ASSUME Serial, NEW p \in Procs, Alone(p), isolation' = isolation,
           verifs' = verifs, stale \ {p} \subseteq stale', Holds(p)'
    PROVE  Serial'
<1>1. Marks(p) /\ OnePending'
  BY DEF Marks, Serial, OnePending
<1> QED
  BY <1>1, SerialKeeps

\* Before the transaction, and in one that only unbinds, nothing is said.
NoneBound(p) == \A u \in Users : draft[p].contacts[u] \in {None, "gone"}
Early(p) == req[p].kind = "unbind" \/ req[p].pc \notin InTx \/ req[p].pc = "reread"

LEMMA EarlyHolds ==
    ASSUME NEW p, Early(p)', NoneBound(p)'
    PROVE  Holds(p)'
<1>1. req'[p].kind # "unbind" =>
         req'[p].pc \notin {"sweep", "insert", "commit", "findPending", "findContact",
                           "delete", "bind", "consume"}
  BY DEF Early, InTx
<1>2. AsksForOwn(p)'
  BY <1>1 DEF AsksForOwn, Starting
<1>3. BindsOwn(p)'
  BY DEF BindsOwn, NoneBound
<1>4. Swept(p)' /\ Reserved(p)'
  BY <1>1 DEF Swept, Reserved
<1> QED
  BY <1>2, <1>3, <1>4 DEF Holds

LEMMA NothingBound ==
    ASSUME NEW p, Holds(p), req[p].kind # "confirm" \/ req[p].pc \notin Binding
    PROVE  NoneBound(p)
  BY DEF Holds, BindsOwn, NoneBound

LEMMA ReturnHolds ==
    ASSUME IInv, NEW p \in Procs, Return(p)
    PROVE  Alone(p) /\ Holds(p)'
<1>1. req'[p] = Idle /\ draft'[p] = Blank /\ Alone(p)
  BY Typed, IdleIsOK DEF Return, IInv
<1>2. Early(p)' /\ NoneBound(p)'
  BY <1>1 DEF Early, NoneBound, Idle, Blank, InTx
<1> QED
  BY <1>1, <1>2, EarlyHolds

\* A statement before the transaction that goes on.
LEMMA EarlyStep ==
    ASSUME IInv, Serial, NEW p \in Procs, NEW r, req' = [req EXCEPT ![p] = r],
           UNCHANGED <<isolation, verifs, draft, stale>>,
           r.kind = "unbind" \/ r.pc \notin InTx \/ r.pc = "reread",
           req[p].kind # "confirm" \/ req[p].pc \notin Binding
    PROVE  Serial'
<1>1. req \in [Procs -> Requests]
  BY Typed DEF IInv
<1>2. Alone(p) /\ req'[p] = r
  BY <1>1 DEF Alone
<1>3. NoneBound(p)
  BY NothingBound DEF Serial
<1>4. Early(p)' /\ NoneBound(p)'
  BY <1>2, <1>3 DEF Early, NoneBound
<1>5. Holds(p)'
  BY <1>4, EarlyHolds
<1> QED
  BY <1>2, <1>5, QuietSerial

LEMMA ReturnSerial ==
    ASSUME IInv, Serial, NEW p \in Procs, Return(p),
           UNCHANGED <<isolation, verifs>>, stale \ {p} \subseteq stale'
    PROVE  Serial'
  BY ReturnHolds, QuietSerial

LEMMA OpenSerial ==
    ASSUME IInv, Serial, NEW p \in Procs, Start(p) \/ Confirm(p) \/ Unbind(p),
           isolation' = isolation
    PROVE  Serial'
<1>1. PICK r : Open(p, r) /\ (r.kind = "unbind" \/ r.pc \notin InTx)
  <2>1. ASSUME Start(p)
        PROVE  \E r : Open(p, r) /\ (r.kind = "unbind" \/ r.pc \notin InTx)
    <3>1. PICK u \in Users, v \in Values :
            Open(p, [Idle EXCEPT !.kind = "start", !.pc = "taken", !.user = u,
                                 !.value = v])
      BY <2>1 DEF Start
    <3> WITNESS [Idle EXCEPT !.kind = "start", !.pc = "taken", !.user = u, !.value = v]
    <3> QED
      BY <3>1 DEF Idle, InTx
  <2>2. ASSUME Confirm(p)
        PROVE  \E r : Open(p, r) /\ (r.kind = "unbind" \/ r.pc \notin InTx)
    <3>1. PICK u \in Users, i \in Verifications :
            Open(p, [Idle EXCEPT !.kind = "confirm", !.pc = "load", !.user = u,
                                 !.id = i, !.old = i])
      BY <2>2 DEF Confirm
    <3> WITNESS [Idle EXCEPT !.kind = "confirm", !.pc = "load", !.user = u,
                             !.id = i, !.old = i]
    <3> QED
      BY <3>1 DEF Idle, InTx
  <2>3. ASSUME Unbind(p)
        PROVE  \E r : Open(p, r) /\ (r.kind = "unbind" \/ r.pc \notin InTx)
    <3>1. PICK u \in Users :
            Open(p, [Idle EXCEPT !.kind = "unbind", !.pc = "findContact", !.user = u])
      BY <2>3 DEF Unbind
    <3> WITNESS [Idle EXCEPT !.kind = "unbind", !.pc = "findContact", !.user = u]
    <3> QED
      BY <3>1 DEF Idle, InTx
  <2> QED
    BY <2>1, <2>2, <2>3
<1>2. req[p].pc = "idle" /\ req' = [req EXCEPT ![p] = r]
      /\ UNCHANGED <<verifs, draft, stale>>
  BY <1>1 DEF Open, Tables
<1> QED
  BY <1>1, <1>2, EarlyStep DEF Binding

LEMMA StartReadsSerial ==
    ASSUME IInv, Serial, NEW p \in Procs, isolation' = isolation,
           GetUserByContact(p) \/ GetPendingContactVerification(p)
    PROVE  Serial'
<1>0. req \in [Procs -> Requests] /\ req[p].kind = "start"
  BY Typed, KindOf DEF IInv, GetUserByContact, GetPendingContactVerification, At
<1>1. UNCHANGED <<isolation, verifs, stale>>
  BY DEF GetUserByContact, GetPendingContactVerification, Tables
<1>2. \/ Return(p)
      \/ UNCHANGED draft /\ \E r : req' = [req EXCEPT ![p] = r] /\ r.pc \notin InTx
  <2>1. CASE GetUserByContact(p)
    <3>1. Return(p) \/ /\ req' = [req EXCEPT ![p].pc = "latest", ![p].now = clock]
                       /\ UNCHANGED draft
      BY <2>1 DEF GetUserByContact
    <3> DEFINE r == [req[p] EXCEPT !.pc = "latest", !.now = clock]
    <3>2. r.pc = "latest"
      BY <1>0 DEF Requests
    <3>3. [req EXCEPT ![p].pc = "latest", ![p].now = clock] = [req EXCEPT ![p] = r]
      BY <1>0
    <3> HIDE DEF r
    <3> QED
      BY <3>1, <3>2, <3>3 DEF InTx
  <2>2. CASE GetPendingContactVerification(p)
    <3>1. \/ Return(p)
          \/ UNCHANGED draft /\ Goto(p, "send")
          \/ /\ UNCHANGED draft
             /\ \E i \in Verifications :
                   req' = [req EXCEPT ![p].old = i, ![p].seen = verifs[i],
                                      ![p].pc = "expire"]
      BY <2>2 DEF GetPendingContactVerification, LatestPending, PendingOf
    <3>2. ASSUME UNCHANGED draft, Goto(p, "send")
          PROVE  \E r : req' = [req EXCEPT ![p] = r] /\ r.pc \notin InTx
      <4> WITNESS [req[p] EXCEPT !.pc = "send"]
      <4> QED
        BY <1>0, <3>2 DEF Goto, InTx, Requests
    <3>3. ASSUME UNCHANGED draft, NEW i \in Verifications,
                 req' = [req EXCEPT ![p].old = i, ![p].seen = verifs[i], ![p].pc = "expire"]
          PROVE  \E r : req' = [req EXCEPT ![p] = r] /\ r.pc \notin InTx
      <4> WITNESS [req[p] EXCEPT !.old = i, !.seen = verifs[i], !.pc = "expire"]
      <4> QED
        BY <1>0, <3>3 DEF InTx, Requests
    <3> QED
      BY <3>1, <3>2, <3>3
  <2> QED
    BY <2>1, <2>2
<1> QED
  BY <1>0, <1>1, <1>2, ReturnSerial, EarlyStep

LEMMA ProviderStartSerial ==
    ASSUME IInv, Serial, NEW p \in Procs, ProviderStart(p), isolation' = isolation
    PROVE  Serial'
<1>0. /\ req \in [Procs -> Requests] /\ req[p].kind = "start" /\ req[p].user \in Users
      /\ UNCHANGED <<isolation, verifs, draft, stale>>
  BY Typed, KindOf DEF IInv, Tied, RequestOK, ProviderStart, At, Tables
<1>1. PICK i, life :
         req' = [req EXCEPT ![p] =
            [Idle EXCEPT
              !.kind = "start", !.pc = "findPending", !.user = req[p].user, !.id = i,
              !.seen = [status |-> "pending", user |-> req[p].user,
                        value |-> req[p].value, attempts |-> 0,
                        created |-> req[p].now, expires |-> req[p].now + life]]]
  BY DEF ProviderStart
<1>2. /\ req'[p].kind = "start" /\ req'[p].pc = "findPending"
      /\ req'[p].seen.user = req'[p].user /\ Alone(p)
  BY <1>0, <1>1 DEF Idle, Alone
<1>3. NoneBound(p)
  BY <1>0, NothingBound DEF Serial
<1>4. AsksForOwn(p)' /\ BindsOwn(p)'
  BY <1>0, <1>2, <1>3 DEF AsksForOwn, BindsOwn, NoneBound
<1>5. Swept(p)' /\ Reserved(p)'
  BY <1>2 DEF Swept, Reserved
<1> QED
  BY <1>0, <1>2, <1>4, <1>5, QuietSerial DEF Holds

LEMMA CreateSerial ==
    ASSUME IInv, Serial, NEW p \in Procs, CreateContactVerification(p),
           isolation' = isolation
    PROVE  Serial'
<1>0. /\ req \in [Procs -> Requests] /\ req[p].kind = "start" /\ req[p].pc = "insert"
      /\ UNCHANGED <<isolation, verifs, stale>> /\ draft \in [Procs -> Drafts]
      /\ req' = [req EXCEPT ![p].pc = "commit"]
      /\ draft' = [draft EXCEPT ![p].verifs[req[p].id] = req[p].seen]
      /\ Holds(p)
  BY Typed, KindOf
     DEF IInv, CreateContactVerification, At, Goto, Write, Tables, Serial
<1>1. /\ req'[p] = [req[p] EXCEPT !.pc = "commit"] /\ Alone(p)
      /\ draft'[p].contacts = draft[p].contacts
      /\ \A i \in Verifications \ {req[p].id} : draft'[p].verifs[i] = draft[p].verifs[i]
  BY <1>0 DEF Alone, Drafts
<1>2. /\ req'[p].kind = "start" /\ req'[p].pc = "commit" /\ req'[p].id = req[p].id
      /\ req'[p].seen = req[p].seen /\ req'[p].user = req[p].user
  BY <1>0, <1>1 DEF Requests
<1>3. NoneBound(p)
  BY <1>0, NothingBound
<1>4. AsksForOwn(p)' /\ BindsOwn(p)'
  BY <1>0, <1>1, <1>2, <1>3 DEF Holds, AsksForOwn, Starting, BindsOwn, NoneBound
<1>5. ASSUME isolation = "Serializable", p \notin stale
      PROVE  Swept(p)' /\ Reserved(p)'
  <2>1. OtherPending(p) = {}
    BY <1>0, <1>5 DEF Holds, Swept
  <2>2. OtherPending(p)' = OtherPending(p)
    BY <1>0, <1>1, <1>2 DEF OtherPending, Sees
  <2> QED
    BY <1>2, <2>1, <2>2 DEF Swept, Reserved
<1> QED
  BY <1>0, <1>1, <1>4, <1>5, QuietSerial DEF Holds

-----------------------------------------------------------------------------
(* A step that changes a row of the table.                                 *)

LEMMA OutdatedMarks ==
    ASSUME NEW p \in Procs, stale' = Outdated(p)
    PROVE  Marks(p)
  BY DEF Outdated, Marks

LEMMA ClosingKeeps ==
    ASSUME OnePending, isolation' = isolation,
           \A i \in Verifications : verifs'[i].status = "pending" =>
               verifs[i].status = "pending" /\ verifs'[i].user = verifs[i].user
    PROVE  OnePending'
  BY DEF OnePending

LEMMA ExpireSerial ==
    ASSUME IInv, Serial, NEW p \in Procs, ExpireSeen(p), isolation' = isolation
    PROVE  Serial'
<1>0. /\ req \in [Procs -> Requests] /\ verifs \in [Verifications -> VerifRows]
      /\ req[p].pc = "expire" /\ req[p].kind \in {"start", "confirm"} /\ Serial
  BY Typed, KindOf DEF IInv, ExpireSeen, At
<1>1. \/ /\ verifs' = [verifs EXCEPT ![req[p].old].status = "expired",
                                     ![req[p].old].attempts = req[p].seen.attempts]
         /\ stale' = Outdated(p)
      \/ UNCHANGED <<verifs, stale>>
  BY DEF ExpireSeen
<1>2. Marks(p)
  BY <1>1, OutdatedMarks DEF Marks
<1>3. OnePending'
  <2>1. ASSUME NEW i \in Verifications, verifs'[i].status = "pending"
        PROVE  verifs[i].status = "pending" /\ verifs'[i].user = verifs[i].user
    <3>1. CASE UNCHANGED verifs
      BY <2>1, <3>1
    <3>2. CASE verifs' = [verifs EXCEPT ![req[p].old].status = "expired",
                                        ![req[p].old].attempts = req[p].seen.attempts]
      <4>1. CASE i = req[p].old
        <5>1. verifs'[i] = [verifs[i] EXCEPT !.status = "expired",
                                             !.attempts = req[p].seen.attempts]
          BY <1>0, <3>2, <4>1
        <5>2. verifs'[i].status = "expired"
          BY <1>0, <5>1 DEF VerifRows
        <5> QED
          BY <2>1, <5>2
      <4>2. CASE i # req[p].old
        BY <1>0, <2>1, <3>2, <4>2
      <4> QED
        BY <4>1, <4>2
    <3> QED
      BY <1>1, <3>1, <3>2
  <2> QED
    BY <2>1, ClosingKeeps DEF Serial
<1>4. Alone(p) /\ Holds(p)'
  <2>1. CASE Return(p)
    BY <2>1, ReturnHolds
  <2>2. CASE /\ req' = [req EXCEPT ![p].pc = "send", ![p].old = None, ![p].seen = Unborn]
             /\ UNCHANGED draft
    <3>1. req'[p] = [req[p] EXCEPT !.pc = "send", !.old = None, !.seen = Unborn] /\ Alone(p)
      BY <1>0, <2>2 DEF Alone
    <3>2. req'[p].pc = "send"
      BY <1>0, <3>1 DEF Requests
    <3>3. NoneBound(p)
      BY <1>0, NothingBound DEF Serial, Binding
    <3>4. Early(p)' /\ NoneBound(p)'
      BY <2>2, <3>2, <3>3 DEF Early, NoneBound, InTx
    <3> QED
      BY <3>1, <3>4, EarlyHolds
  <2> QED
    BY <2>1, <2>2 DEF ExpireSeen
<1> QED
  BY <1>2, <1>3, <1>4, SerialKeeps

LEMMA WrongCodeSerial ==
    ASSUME IInv, Serial, NEW p \in Procs, RecordContactVerificationFailure(p),
           isolation' = isolation
    PROVE  Serial'
<1> DEFINE i == req[p].old
           open == verifs[i].status = "pending" /\ verifs[i].expires > req[p].now
<1>0. verifs \in [Verifications -> VerifRows] /\ OnePending
  BY Typed DEF IInv, Serial
<1>1. /\ verifs' = IF open THEN [verifs EXCEPT ![i] = AfterWrong(p, @)] ELSE verifs
      /\ stale' = IF open THEN Outdated(p) ELSE stale
      /\ Return(p)
  BY DEF RecordContactVerificationFailure
<1> HIDE DEF open
<1>2. Marks(p)
  BY <1>1, OutdatedMarks DEF Marks
<1>3. ASSUME NEW j \in Verifications, verifs'[j].status = "pending"
      PROVE  verifs[j].status = "pending" /\ verifs'[j].user = verifs[j].user
  <2>1. CASE verifs'[j] = verifs[j]
    BY <1>3, <2>1
  <2>2. CASE open /\ j = i
    <3>1. verifs'[j] = AfterWrong(p, verifs[j])
      BY <1>0, <1>1, <2>2
    <3>2. verifs'[j].user = verifs[j].user
      BY <1>0, <3>1 DEF AfterWrong, VerifRows
    <3> QED
      BY <2>2, <3>2 DEF open
  <2> QED
    BY <1>0, <1>1, <2>1, <2>2
<1>4. OnePending'
  BY <1>0, <1>3, ClosingKeeps
<1> QED
  BY <1>1, <1>2, <1>4, ReturnHolds, SerialKeeps

LEMMA ConfirmReadsSerial ==
    ASSUME IInv, Serial, NEW p \in Procs, isolation' = isolation,
           GetContactVerification(p) \/ CheckOpen(p) \/ ProviderVerify(p)
    PROVE  Serial'
<1>0. /\ req \in [Procs -> Requests] /\ req[p].pc \in {"load", "check", "verify"}
      /\ UNCHANGED <<isolation, verifs, stale>>
  BY Typed DEF IInv, GetContactVerification, CheckOpen, ProviderVerify, At, Tables
<1>1. \/ Return(p)
      \/ /\ UNCHANGED draft
         /\ \E r : req' = [req EXCEPT ![p] = r] /\ (r.pc \notin InTx \/ r.pc = "reread")
  <2>1. CASE GetContactVerification(p)
    <3>1. \/ Return(p)
          \/ /\ req' = [req EXCEPT ![p].pc = "check", ![p].seen = verifs[req[p].id]]
             /\ UNCHANGED draft
      BY <2>1 DEF GetContactVerification
    <3> DEFINE r == [req[p] EXCEPT !.pc = "check", !.seen = verifs[req[p].id]]
    <3>2. r.pc = "check" /\ [req EXCEPT ![p].pc = "check", ![p].seen = verifs[req[p].id]]
                               = [req EXCEPT ![p] = r]
      BY <1>0 DEF Requests
    <3> HIDE DEF r
    <3> QED
      BY <3>1, <3>2 DEF InTx
  <2>2. CASE CheckOpen(p)
    <3> DEFINE step == IF req[p].seen.expires > clock THEN "verify" ELSE "expire"
               r == [req[p] EXCEPT !.now = clock, !.pc = step]
    <3>1. \/ Return(p)
          \/ /\ req' = [req EXCEPT ![p].now = clock, ![p].pc = step]
             /\ UNCHANGED draft
      BY <2>2 DEF CheckOpen
    <3>2. step \notin InTx
      BY DEF InTx
    <3> HIDE DEF step
    <3>3. r.pc = step /\ [req EXCEPT ![p].now = clock, ![p].pc = step]
                            = [req EXCEPT ![p] = r]
      BY <1>0 DEF Requests
    <3> HIDE DEF r
    <3> QED
      BY <3>1, <3>2, <3>3
  <2>3. CASE ProviderVerify(p)
    <3>1. UNCHANGED draft /\ \E step \in {"reread", "fail"} : Goto(p, step)
      BY <2>3 DEF ProviderVerify
    <3>2. PICK step \in {"reread", "fail"} : req' = [req EXCEPT ![p].pc = step]
      BY <3>1 DEF Goto
    <3> DEFINE r == [req[p] EXCEPT !.pc = step]
    <3>3. r.pc = step /\ req' = [req EXCEPT ![p] = r]
      BY <1>0, <3>2 DEF Requests
    <3> HIDE DEF r
    <3> QED
      BY <3>1, <3>2, <3>3 DEF InTx
  <2> QED
    BY <2>1, <2>2, <2>3
<1> QED
  BY <1>0, <1>1, ReturnSerial, EarlyStep DEF Binding

-----------------------------------------------------------------------------
(* The statements of the transactions.                                     *)

\* A statement of a confirmation keeps the row it has read again.
LEMMA ConfirmHolds ==
    ASSUME NEW p \in Procs, Holds(p), req'[p].kind = "confirm", req[p].kind = "confirm",
           req'[p].id = req[p].id, UNCHANGED <<isolation, verifs, stale>>,
           BindsOwn(p)',
           req[p].pc \in {"findContact", "delete", "bind", "consume", "findPending", "sweep"},
           req'[p].pc \in {"delete", "bind", "consume"}
           \/ /\ draft'[p].verifs[req[p].id] # None
              /\ draft'[p].verifs[req[p].id].status = "consumed"
    PROVE  Holds(p)'
<1>1. AsksForOwn(p)' /\ Swept(p)'
  BY DEF AsksForOwn, Starting, Swept
<1>2. ASSUME isolation = "Serializable", p \notin stale PROVE Reserved(p)'
  BY <1>2 DEF Holds, Reserved
<1> QED
  BY <1>1, <1>2 DEF Holds

LEMMA RereadSerial ==
    ASSUME IInv, Serial, NEW p \in Procs, Reread(p), isolation' = isolation
    PROVE  Serial'
<1>0. /\ req \in [Procs -> Requests] /\ draft \in [Procs -> Drafts]
      /\ req[p].kind = "confirm" /\ req[p].pc = "reread" /\ req[p].id \in Verifications
      /\ UNCHANGED <<isolation, verifs, stale>> /\ DraftOK(p)
  BY Typed, KindOf DEF IInv, Tied, RequestOK, ConfirmOK, Reread, At, Tables
<1>1. CASE Return(p)
  BY <1>0, <1>1, ReturnSerial
<1>2. CASE /\ Sees(p, req[p].id).status = "pending"
           /\ req' = [req EXCEPT ![p].pc = "findContact", ![p].seen = Sees(p, req[p].id),
                                 ![p].now = 0]
           /\ UNCHANGED draft
  <2>1. req'[p] = [req[p] EXCEPT !.pc = "findContact", !.seen = Sees(p, req[p].id),
                                 !.now = 0] /\ Alone(p)
    BY <1>0, <1>2 DEF Alone
  <2>2. req'[p].pc = "findContact" /\ req'[p].kind = "confirm" /\ req'[p].id = req[p].id
    BY <1>0, <2>1 DEF Requests
  <2>3. verifs[req[p].id].status = "pending"
    <3>1. DraftRowOK(p, req[p].id)
      BY <1>0 DEF DraftOK
    <3> QED
      BY <1>0, <1>2, <3>1 DEF DraftRowOK, Sees
  <2>4. NoneBound(p)
    BY <1>0, NothingBound DEF Serial, Binding
  <2>5. AsksForOwn(p)' /\ BindsOwn(p)' /\ Swept(p)'
    BY <1>2, <2>2, <2>4 DEF AsksForOwn, Starting, BindsOwn, NoneBound, Swept
  <2>6. Reserved(p)'
    BY <1>0, <2>2, <2>3 DEF Reserved
  <2> QED
    BY <1>0, <2>1, <2>5, <2>6, QuietSerial DEF Holds
<1> QED
  BY <1>1, <1>2 DEF Reread

\* FindContact and DeleteContact: the contact is not bound yet.
LEMMA UnboundSerial ==
    ASSUME IInv, Serial, NEW p \in Procs, UNCHANGED <<isolation, verifs, stale>>,
           req[p].pc \in {"findContact", "delete"}, Alone(p), NoneBound(p)',
           req'[p].kind = req[p].kind, req'[p].id = req[p].id,
           req[p].kind = "confirm" => req'[p].pc \in {"delete", "bind"}
    PROVE  Serial'
<1>1. req[p].kind \in {"confirm", "unbind"} /\ Holds(p)
  BY KindOf DEF Serial
<1>2. CASE req[p].kind = "unbind"
  BY <1>2, EarlyHolds, QuietSerial DEF Early
<1>3. CASE req[p].kind = "confirm"
  <2>1. BindsOwn(p)'
    BY DEF BindsOwn, NoneBound
  <2>2. Holds(p)'
    BY <1>1, <1>3, <2>1, ConfirmHolds
  <2> QED
    BY <2>2, QuietSerial
<1> QED
  BY <1>1, <1>2, <1>3

LEMMA FindContactSerial ==
    ASSUME IInv, Serial, NEW p \in Procs, FindContact(p), isolation' = isolation
    PROVE  Serial'
<1>0. /\ req \in [Procs -> Requests] /\ req[p].pc = "findContact"
      /\ UNCHANGED <<isolation, verifs, draft, stale>>
      /\ req' = [req EXCEPT ![p].contact = SeesContact(p, req[p].user),
                            ![p].pc = "delete"]
  BY Typed DEF IInv, FindContact, At, Tables
<1>1. req'[p] = [req[p] EXCEPT !.contact = SeesContact(p, req[p].user), !.pc = "delete"]
      /\ Alone(p)
  BY <1>0 DEF Alone
<1>2. /\ req'[p].pc = "delete" /\ req'[p].kind = req[p].kind /\ req'[p].id = req[p].id
  BY <1>0, <1>1 DEF Requests
<1>3. NoneBound(p)
  BY <1>0, NothingBound DEF Serial, Binding
<1>4. NoneBound(p)'
  BY <1>0, <1>3 DEF NoneBound
<1> QED
  BY <1>0, <1>1, <1>2, <1>4, UnboundSerial

LEMMA DeleteSerial ==
    ASSUME IInv, Serial, NEW p \in Procs, DeleteContact(p), isolation' = isolation
    PROVE  Serial'
<1> DEFINE u == req[p].user
           meets == req[p].contact # None /\ SeesContact(p, u) = req[p].contact
           step == IF req[p].kind = "unbind" THEN "findPending" ELSE "bind"
<1>0. /\ req \in [Procs -> Requests] /\ req[p].pc = "delete" /\ draft \in [Procs -> Drafts]
      /\ UNCHANGED <<isolation, verifs, stale>>
      /\ req[p].kind \in {"confirm", "unbind"}
  BY Typed, KindOf DEF IInv, DeleteContact, At, Tables
<1>1. \/ Return(p)
      \/ /\ req' = [req EXCEPT ![p].contact = None, ![p].pc = step]
         /\ draft' = IF meets THEN [draft EXCEPT ![p].contacts[u] = "gone"] ELSE draft
  BY DEF DeleteContact
<1>2. CASE Return(p)
  BY <1>0, <1>2, ReturnSerial
<1>3. CASE /\ req' = [req EXCEPT ![p].contact = None, ![p].pc = step]
           /\ draft' = IF meets THEN [draft EXCEPT ![p].contacts[u] = "gone"] ELSE draft
  <2>0. req[p].kind = "confirm" => step = "bind"
    OBVIOUS
  <2> HIDE DEF step, meets
  <2>1. req'[p] = [req[p] EXCEPT !.contact = None, !.pc = step] /\ Alone(p)
    BY <1>0, <1>3 DEF Alone
  <2>2. /\ req'[p].pc = step /\ req'[p].kind = req[p].kind /\ req'[p].id = req[p].id
    BY <1>0, <2>1 DEF Requests
  <2>3. NoneBound(p)
    BY <1>0, NothingBound DEF Serial, Binding
  <2>4. NoneBound(p)'
    BY <1>0, <1>3, <2>3 DEF NoneBound, Drafts
  <2> QED
    BY <1>0, <2>0, <2>1, <2>2, <2>4, UnboundSerial
<1> QED
  BY <1>1, <1>2, <1>3

LEMMA BindSerial ==
    ASSUME IInv, Serial, NEW p \in Procs, InsertContact(p), isolation' = isolation
    PROVE  Serial'
<1>0. /\ req \in [Procs -> Requests] /\ req[p].pc = "bind" /\ draft \in [Procs -> Drafts]
      /\ UNCHANGED <<isolation, verifs, stale>> /\ req[p].kind = "confirm"
      /\ Holds(p)
  BY Typed, KindOf DEF IInv, InsertContact, At, Tables, Serial
<1>1. CASE Return(p)
  BY <1>0, <1>1, ReturnSerial
<1>2. CASE /\ draft' = [draft EXCEPT ![p].contacts[req[p].user] = req[p].id]
           /\ Goto(p, "consume")
  <2>1. req'[p] = [req[p] EXCEPT !.pc = "consume"] /\ Alone(p)
    BY <1>0, <1>2 DEF Alone, Goto
  <2>2. /\ req'[p].pc = "consume" /\ req'[p].kind = "confirm" /\ req'[p].id = req[p].id
    BY <1>0, <2>1 DEF Requests
  <2>3. NoneBound(p)
    BY <1>0, NothingBound DEF Binding
  <2>4. BindsOwn(p)'
    BY <1>0, <1>2, <2>2, <2>3 DEF NoneBound, BindsOwn, Drafts, Binding
  <2>5. Holds(p)'
    BY <1>0, <2>2, <2>4, ConfirmHolds
  <2> QED
    BY <1>0, <2>1, <2>5, QuietSerial
<1> QED
  BY <1>1, <1>2 DEF InsertContact

LEMMA ConsumeSerial ==
    ASSUME IInv, Serial, NEW p \in Procs, Consume(p), isolation' = isolation
    PROVE  Serial'
<1> DEFINE i == req[p].id
           row == [Sees(p, i) EXCEPT !.status = "consumed",
                                     !.attempts = req[p].seen.attempts]
<1>0. /\ req \in [Procs -> Requests] /\ req[p].pc = "consume" /\ draft \in [Procs -> Drafts]
      /\ UNCHANGED <<isolation, verifs, stale>> /\ req[p].kind = "confirm"
      /\ Holds(p) /\ i \in Verifications /\ Born(i)
      /\ Goto(p, "findPending") /\ Write(p, i, row)
  BY Typed, KindOf
     DEF IInv, Tied, RequestOK, ConfirmOK, Consume, At, Tables, Serial
<1>1. req'[p] = [req[p] EXCEPT !.pc = "findPending"] /\ Alone(p)
  BY <1>0 DEF Alone, Goto, Write
<1>2. req'[p].pc = "findPending" /\ req'[p].kind = "confirm" /\ req'[p].id = req[p].id
  BY <1>0, <1>1 DEF Requests
<1>3. row \in VerifRows /\ row.status = "consumed"
  <2>1. Sees(p, i) \in VerifRows /\ req[p].seen.attempts \in 0..MaxAttempts
    BY <1>0, SeenRow DEF Requests, VerifRows
  <2> QED
    BY <2>1 DEF VerifRows, Statuses
<1>4. /\ draft'[p].verifs[i] = row /\ draft'[p].contacts = draft[p].contacts
  BY <1>0 DEF Write, Drafts
<1> HIDE DEF row
<1>5. BindsOwn(p)'
  BY <1>0, <1>2, <1>4 DEF Holds, BindsOwn, Binding
<1>6. draft'[p].verifs[i] # None /\ draft'[p].verifs[i].status = "consumed"
  BY <1>3, <1>4, NoneIsNoRow
<1>7. Holds(p)'
  BY <1>0, <1>2, <1>5, <1>6, ConfirmHolds
<1> QED
  BY <1>0, <1>1, <1>7, QuietSerial

-----------------------------------------------------------------------------
(* The sweep, and the commit.                                              *)

\* What the sweep has not met is in the rows it has left.
LEMMA SweepHolds ==
    ASSUME IInv, Serial, NEW p \in Procs, UNCHANGED <<isolation, verifs, stale>>,
           req[p].pc \in {"findPending", "sweep"}, Alone(p),
           NEW rows \in SUBSET Verifications, SweepRows(p, rows),
           draft'[p].contacts = draft[p].contacts,
           isolation = "Serializable" /\ p \notin stale /\ req[p].kind = "start"
               => OtherPending(p)' \subseteq rows,
           isolation = "Serializable" /\ p \notin stale /\ req[p].kind = "confirm"
               => draft'[p].verifs[req[p].id] = draft[p].verifs[req[p].id]
    PROVE  Serial'
<1>0. /\ req \in [Procs -> Requests] /\ req[p].kind \in {"start", "confirm", "unbind"}
      /\ Holds(p)
  BY Typed, KindOf DEF IInv, Requests, Kinds, Serial
<1> DEFINE then == IF req[p].kind = "start" THEN "insert" ELSE "commit"
           step == IF rows = {} THEN then ELSE "sweep"
<1>1. req'[p] = [req[p] EXCEPT !.rows = rows, !.pc = step]
  BY <1>0 DEF SweepRows
<1>2. /\ step \in {"sweep", "insert", "commit"}
      /\ step # "sweep" => rows = {}
      /\ req[p].kind # "start" => step \in {"sweep", "commit"}
      /\ req[p].kind = "start" => step \in {"sweep", "insert"}
  OBVIOUS
<1> HIDE DEF step
<1>3. /\ req'[p].kind = req[p].kind /\ req'[p].id = req[p].id /\ req'[p].pc = step
      /\ req'[p].user = req[p].user /\ req'[p].seen = req[p].seen /\ req'[p].rows = rows
  BY <1>0, <1>1 DEF Requests
<1>4. CASE req[p].kind = "start"
  <2>1. NoneBound(p)
    BY <1>0, <1>4, NothingBound
  <2>2. AsksForOwn(p)' /\ BindsOwn(p)' /\ Reserved(p)'
    BY <1>0, <1>2, <1>3, <1>4, <2>1
       DEF Holds, AsksForOwn, Starting, BindsOwn, NoneBound, Reserved
  <2>3. isolation = "Serializable" /\ p \notin stale => Swept(p)'
    BY <1>2, <1>3, <1>4 DEF Swept
  <2> QED
    BY <2>2, <2>3, QuietSerial DEF Holds
<1>5. CASE req[p].kind = "confirm"
  <2>1. AsksForOwn(p)' /\ Swept(p)'
    BY <1>3, <1>5 DEF AsksForOwn, Starting, Swept
  <2>2. BindsOwn(p)'
    BY <1>0, <1>2, <1>3, <1>5 DEF Holds, BindsOwn, Binding
  <2>3. isolation = "Serializable" /\ p \notin stale => Reserved(p)'
    BY <1>0, <1>2, <1>3, <1>5 DEF Holds, Reserved
  <2> QED
    BY <2>1, <2>2, <2>3, QuietSerial DEF Holds
<1>6. CASE req[p].kind = "unbind"
  <2>1. NoneBound(p)
    BY <1>0, <1>6, NothingBound
  <2>2. Early(p)' /\ NoneBound(p)'
    BY <1>3, <1>6, <2>1 DEF Early, NoneBound
  <2> QED
    BY <2>2, EarlyHolds, QuietSerial
<1> QED
  BY <1>0, <1>4, <1>5, <1>6

LEMMA FindPendingSerial ==
    ASSUME IInv, Serial, NEW p \in Procs, FindPending(p), isolation' = isolation
    PROVE  Serial'
<1>0. /\ req \in [Procs -> Requests] /\ req[p].pc = "findPending"
      /\ UNCHANGED <<isolation, verifs, draft, stale>>
      /\ SweepRows(p, OtherPending(p)) /\ OtherPending(p) \in SUBSET Verifications
  BY Typed DEF IInv, FindPending, At, Tables, OtherPending
<1>1. Alone(p) /\ req'[p].id = req[p].id /\ req'[p].user = req[p].user
  BY <1>0 DEF Alone, SweepRows, Requests
<1>2. OtherPending(p)' = OtherPending(p)
  BY <1>0, <1>1 DEF OtherPending, Sees
<1> QED
  BY <1>0, <1>1, <1>2, SweepHolds

LEMMA CancelSerial ==
    ASSUME IInv, Serial, NEW p \in Procs, CancelPending(p), isolation' = isolation
    PROVE  Serial'
<1>0. /\ req \in [Procs -> Requests] /\ req[p].pc = "sweep" /\ draft \in [Procs -> Drafts]
      /\ UNCHANGED <<isolation, verifs, stale>> /\ Holds(p) /\ DraftOK(p)
      /\ verifs \in [Verifications -> VerifRows]
      /\ req[p].kind \in {"start", "confirm", "unbind"}
  BY Typed, KindOf
     DEF IInv, Tied, CancelPending, At, Tables, Serial, Requests, Kinds
<1>1. PICK i \in req[p].rows :
         /\ SweepRows(p, req[p].rows \ {i})
         /\ IF Sees(p, i).status = "pending"
            THEN Write(p, i, [Sees(p, i) EXCEPT !.status = "cancelled"])
            ELSE UNCHANGED draft
  BY DEF CancelPending
<1> DEFINE row == [Sees(p, i) EXCEPT !.status = "cancelled"]
<1>2. i \in Verifications /\ req[p].rows \ {i} \in SUBSET Verifications
  BY <1>0 DEF Requests
<1>3. /\ Alone(p) /\ req'[p].id = req[p].id /\ req'[p].user = req[p].user
      /\ draft'[p].contacts = draft[p].contacts
  BY <1>0, <1>1 DEF Alone, SweepRows, Write, Requests, Drafts
<1>4. Sees(p, i).status = "pending" =>
         draft'[p].verifs[i] = row /\ row # None /\ row.status = "cancelled"
  <2> SUFFICES ASSUME Sees(p, i).status = "pending"
               PROVE  draft'[p].verifs[i] = row /\ row # None /\ row.status = "cancelled"
    OBVIOUS
  <2>1. Sees(p, i) \in VerifRows
    BY <1>0, <1>2 DEF Sees, Drafts
  <2>2. row \in VerifRows /\ row.status = "cancelled"
    BY <2>1 DEF VerifRows, Statuses
  <2>3. draft' = [draft EXCEPT ![p].verifs[i] = row]
    BY <1>1 DEF Write
  <2> HIDE DEF row
  <2> QED
    BY <1>0, <1>2, <2>2, <2>3, NoneIsNoRow DEF Drafts
<1>5. \A j \in Verifications \ {i} : draft'[p].verifs[j] = draft[p].verifs[j]
  BY <1>0, <1>1 DEF Write, Drafts
<1>6. Sees(p, i).status # "pending" => draft'[p] = draft[p]
  BY <1>1
<1> HIDE DEF row
<1>7. ASSUME isolation = "Serializable", p \notin stale, req[p].kind = "start"
      PROVE  OtherPending(p)' \subseteq req[p].rows \ {i}
  <2>1. OtherPending(p) \subseteq req[p].rows
    BY <1>0, <1>7 DEF Holds, Swept
  <2>2. \A j \in Verifications \ {i} : Sees(p, j)' = Sees(p, j)
    BY <1>0, <1>5 DEF Sees
  <2>3. Sees(p, i)'.status # "pending"
    BY <1>0, <1>4, <1>6 DEF Sees
  <2>4. i \notin OtherPending(p)'
    BY <2>3 DEF OtherPending
  <2> QED
    BY <1>3, <2>1, <2>2, <2>4 DEF OtherPending
<1>8. ASSUME isolation = "Serializable", p \notin stale, req[p].kind = "confirm"
      PROVE  draft'[p].verifs[req[p].id] = draft[p].verifs[req[p].id]
  <2>1. req[p].id \in Verifications
    BY <1>8 DEF IInv, Tied, RequestOK, ConfirmOK
  <2>2. draft[p].verifs[req[p].id] # None
        /\ draft[p].verifs[req[p].id].status = "consumed"
    BY <1>0, <1>8 DEF Holds, Reserved
  <2>3. CASE req[p].id = i
    BY <1>6, <2>2, <2>3 DEF Sees
  <2> QED
    BY <1>5, <2>1, <2>3
<1> QED
  BY <1>0, <1>1, <1>2, <1>3, <1>7, <1>8, SweepHolds

\* What a current transaction sees pending is pending, or the row of its start.
LEMMA SeenPending ==
    ASSUME IInv, NEW p \in Procs, NEW i \in Verifications, Sees(p, i).status = "pending"
    PROVE  \/ draft[p].verifs[i] = None /\ Sees(p, i) = verifs[i]
           \/ /\ req[p].kind = "start" /\ req[p].pc = "commit"
              /\ req[p].id = i /\ Sees(p, i) = req[p].seen
<1>1. DraftRowOK(p, i)
  BY DEF IInv, Tied, DraftOK
<1> QED
  BY <1>1 DEF DraftRowOK, Sees

LEMMA CommitSerial ==
    ASSUME IInv, Serial, NEW p \in Procs, Commit(p), isolation' = isolation
    PROVE  Serial'
<1>0. /\ req[p].pc = "commit" /\ p \notin stale /\ Return(p) /\ Holds(p) /\ OnePending
      /\ verifs' = [i \in Verifications |-> Sees(p, i)]
      /\ stale' = IF Wrote(p) THEN Outdated(p) ELSE stale
      /\ verifs \in [Verifications -> VerifRows]
  BY Typed DEF Commit, At, Serial, IInv
<1>1. Alone(p) /\ Holds(p)'
  BY <1>0, ReturnHolds
<1>2. Marks(p)
  <2>1. CASE Wrote(p)
    BY <1>0, <2>1, OutdatedMarks
  <2>2. CASE ~Wrote(p)
    <3>1. \A i \in Verifications : Sees(p, i) = verifs[i]
      BY <2>2 DEF Wrote, Blank, Sees
    <3> QED
      BY <1>0, <2>2, <3>1 DEF Marks
  <2> QED
    BY <2>1, <2>2
<1>3. OnePending'
  <2> SUFFICES ASSUME isolation = "Serializable", NEW i \in Verifications,
                      NEW j \in Verifications,
                      Sees(p, i).status = "pending", Sees(p, j).status = "pending",
                      Sees(p, i).user = Sees(p, j).user
               PROVE  i = j
    BY <1>0 DEF OnePending
  <2>1. ASSUME NEW k \in Verifications, Sees(p, k).status = "pending",
               Sees(p, k).user = Sees(p, i).user,
               req[p].kind = "start", req[p].id = i, Sees(p, i) = req[p].seen
        PROVE  k = i
    <3>1. OtherPending(p) = {} /\ req[p].seen.user = req[p].user
      BY <1>0, <2>1 DEF Holds, Swept, AsksForOwn, Starting
    <3> QED
      BY <2>1, <3>1 DEF OtherPending
  <2>2. ASSUME NEW k \in Verifications, Sees(p, k).status = "pending",
               Sees(p, k).user = Sees(p, j).user,
               req[p].kind = "start", req[p].id = j, Sees(p, j) = req[p].seen
        PROVE  k = j
    <3>1. OtherPending(p) = {} /\ req[p].seen.user = req[p].user
      BY <1>0, <2>2 DEF Holds, Swept, AsksForOwn, Starting
    <3> QED
      BY <2>2, <3>1 DEF OtherPending
  <2>3. CASE Sees(p, i) = verifs[i] /\ Sees(p, j) = verifs[j]
    BY <1>0, <2>3 DEF OnePending
  <2> QED
    BY <2>1, <2>2, <2>3, SeenPending
<1> QED
  BY <1>1, <1>2, <1>3, SerialKeeps

LEMMA FailSerial ==
    ASSUME IInv, Serial, NEW p \in Procs, Fail(p), isolation' = isolation
    PROVE  Serial'
  BY ReturnSerial DEF Fail, Tables

LEMMA InitSerial == ASSUME Init PROVE Serial
<1>1. OnePending
  BY DEF Init, OnePending, Unborn
<1>2. ASSUME NEW p \in Procs PROVE Holds(p)
  <2>1. req[p] = Idle /\ draft[p] = Blank
    BY DEF Init
  <2> QED
    BY <2>1 DEF Holds, AsksForOwn, Starting, BindsOwn, Swept, Reserved, Idle, Blank
<1> QED
  BY <1>1, <1>2 DEF Serial

LEMMA TickSerial ==
    ASSUME Serial, UNCHANGED <<isolation, verifs, req, draft, stale>>
    PROVE  Serial'
<1>1. OnePending'
  BY DEF Serial, OnePending
<1>2. ASSUME NEW p \in Procs PROVE Holds(p)'
  <2>1. Holds(p) /\ OtherPending(p)' = OtherPending(p)
    BY DEF Serial, OtherPending, Sees
  <2> QED
    BY <2>1 DEF Holds, AsksForOwn, Starting, BindsOwn, Swept, Reserved
<1> QED
  BY <1>1, <1>2 DEF Serial

LEMMA NextSerial == ASSUME IInv, Serial, [Next]_vars PROVE Serial'
<1>1. CASE UNCHANGED vars
  BY <1>1, TickSerial DEF vars
<1>2. CASE Tick /\ isolation' = isolation
  BY <1>2, TickSerial DEF Tick
<1>3. ASSUME NEW p \in Procs, isolation' = isolation,
             \/ Start(p) \/ Confirm(p) \/ Unbind(p)
             \/ Step(p) \/ Commit(p) \/ Fail(p)
      PROVE  Serial'
  BY <1>3, OpenSerial, StartReadsSerial, ProviderStartSerial, CreateSerial, ExpireSerial,
     WrongCodeSerial, ConfirmReadsSerial, RereadSerial, FindContactSerial, DeleteSerial,
     BindSerial, ConsumeSerial, FindPendingSerial, CancelSerial, CommitSerial, FailSerial
     DEF Step
<1> QED
  BY <1>1, <1>2, <1>3 DEF Next

LEMMA SerialInvariant == Spec => [](IInv /\ Serial)
<1>1. Init => IInv /\ Serial
  BY InitHolds, InitSerial
<1>2. IInv /\ Serial /\ [Next]_vars => (IInv /\ Serial)'
  BY NextHolds, NextSerial
<1> QED
  BY <1>1, <1>2, PTL DEF Spec

\* Only a commit binds or takes a contact.
LEMMA ContactsChangeByCommit ==
    ASSUME Next, contacts' # contacts
    PROVE  \E p \in Procs : Commit(p)
<1>1. ASSUME NEW p \in Procs, Start(p) \/ Confirm(p) \/ Unbind(p) \/ Fail(p)
      PROVE  UNCHANGED contacts
  BY <1>1 DEF Start, Confirm, Unbind, Open, Fail, Tables
<1>2. ASSUME NEW p \in Procs,
             \/ GetUserByContact(p) \/ GetPendingContactVerification(p)
             \/ ProviderStart(p) \/ CreateContactVerification(p)
             \/ ExpireSeen(p) \/ RecordContactVerificationFailure(p)
      PROVE  UNCHANGED contacts
  BY <1>2 DEF GetUserByContact, GetPendingContactVerification, ProviderStart,
     CreateContactVerification, ExpireSeen, RecordContactVerificationFailure, Tables
<1>3. ASSUME NEW p \in Procs,
             GetContactVerification(p) \/ CheckOpen(p) \/ ProviderVerify(p) \/ Reread(p)
      PROVE  UNCHANGED contacts
  BY <1>3 DEF GetContactVerification, CheckOpen, ProviderVerify, Reread, Tables
<1>4. ASSUME NEW p \in Procs,
             \/ FindContact(p) \/ DeleteContact(p) \/ InsertContact(p)
             \/ Consume(p) \/ FindPending(p) \/ CancelPending(p)
      PROVE  UNCHANGED contacts
  BY <1>4 DEF FindContact, DeleteContact, InsertContact, Consume, FindPending,
     CancelPending, Tables
<1> QED
  BY <1>1, <1>2, <1>3, <1>4 DEF Next, Step, Tick

-----------------------------------------------------------------------------
(* What a reader should know.                                              *)

\* Rows, requests and transactions keep their types; no count passes the limit.
THEOREM ContactsTypeCorrect == Spec => []TypeOK
<1>1. IInv => TypeOK
  BY DEF IInv
<1> QED
  BY <1>1, Invariant, PTL

\* ConfirmVerification (service/contact.go): whatever else is started, confirmed,
\* cancelled or expires, under either database a contact is bound only after the
\* provider accepted a code for that user.
THEOREM ContactsWereVerified == Spec => []ContactWasVerified
<1>1. IInv => ContactWasVerified
  BY DEF IInv, Tied, ContactsOK, ContactWasVerified
<1> QED
  BY <1>1, Invariant, PTL

\* RecordContactVerificationFailure counts in the row: requests that guess in
\* parallel get one answer more each, whatever the limit and their number.
THEOREM GuessesStayLimited == Spec => []GuessesAreLimited
<1>1. ASSUME IInv PROVE GuessesAreLimited
  <2> SUFFICES ASSUME NEW i \in Verifications
               PROVE  wrong[i] <= MaxAttempts + Cardinality(Procs) - 1
    BY DEF GuessesAreLimited
  <2>1. wrong[i] + Cardinality(Asking(i)) <= MaxAttempts - 1 + Cardinality(Procs)
    BY <1>1 DEF IInv, GuessesOK
  <2>2. wrong[i] \in Nat /\ MaxAttempts \in Nat
    BY <1>1, Typed, LimitsArePositive DEF IInv
  <2>3. Cardinality(Asking(i)) \in Nat /\ Cardinality(Procs) \in Nat
    BY CountAsking
  <2> DEFINE w == wrong[i]
             asking == Cardinality(Asking(i))
             all == Cardinality(Procs)
  <2>4. /\ w + asking <= MaxAttempts - 1 + all
        /\ w \in Nat /\ MaxAttempts \in Nat /\ asking \in Nat /\ all \in Nat
    BY <2>1, <2>2, <2>3
  <2> HIDE DEF w, asking, all
  <2>5. w <= MaxAttempts + all - 1
    BY <2>4
  <2> QED
    BY <2>5 DEF w, all
<1> QED
  BY <1>1, Invariant, PTL

\* The DELETE of a confirmation is in the transaction of the INSERT that follows: no
\* step but the commit of an unbinding takes a contact away.
THEOREM OnlyUnbindLosesContact == Spec => LosesContactByUnbindOnly
<1>1. ASSUME IInv, Next, NEW u \in Users, contacts[u] # None, contacts'[u] = None
      PROVE  \E p \in Procs : /\ req[p].kind = "unbind" /\ req[p].pc = "commit"
                              /\ req[p].user = u
  <2>1. PICK p \in Procs : Commit(p)
    BY <1>1, ContactsChangeByCommit
  <2>2. /\ contacts'[u] = SeesContact(p, u) /\ req[p].pc = "commit"
    BY <2>1 DEF Commit, At
  <2>3. /\ DraftContactOK(p, u)
        /\ draft[p].contacts[u] \in Verifications \cup {None, "gone"}
    BY <1>1, Typed DEF IInv, Tied, DraftOK, Drafts
  <2>4. draft[p].contacts[u] = "gone"
    BY <1>1, <2>2, <2>3, NoneIsNoContact DEF SeesContact
  <2> QED
    BY <2>2, <2>3, <2>4 DEF DraftContactOK
<1>2. IInv /\ [Next]_vars =>
        [\A u \in Users : contacts[u] # None /\ contacts'[u] = None =>
           \E p \in Procs : /\ req[p].kind = "unbind" /\ req[p].pc = "commit"
                            /\ req[p].user = u]_vars
  BY <1>1
<1> QED
  BY <1>2, Invariant, PTL DEF Spec, LosesContactByUnbindOnly

\* StartVerification (service/contact.go) cancels the pending verification and inserts
\* the new one in one transaction: under SQLite a user never has two codes that are good.
THEOREM StartReplacesPending == Spec => []OnePending
<1>1. Serial => OnePending
  BY DEF Serial
<1> QED
  BY <1>1, SerialInvariant, PTL

\* ConfirmVerification reads the row again in the transaction that binds the contact
\* (service/contact.go): where one transaction writes at a time, a code that was
\* cancelled, used up or failed meanwhile binds nothing, and the commit consumes it.
THEOREM SerializedConfirmationsConsume == Spec => SerializedBindsPendingOnly
<1>1. ASSUME IInv, Serial, Next, isolation = "Serializable" PROVE BindsPending
  <2> SUFFICES ASSUME NEW u \in Users, contacts'[u] \notin {None, contacts[u]}
               PROVE  /\ verifs[contacts'[u]].status = "pending"
                      /\ verifs'[contacts'[u]].status = "consumed"
    BY DEF BindsPending
  <2>1. PICK p \in Procs : Commit(p)
    BY <1>1, ContactsChangeByCommit
  <2>2. /\ req[p].pc = "commit" /\ p \notin stale /\ contacts'[u] = SeesContact(p, u)
        /\ verifs' = [i \in Verifications |-> Sees(p, i)]
    BY <2>1 DEF Commit, At
  <2>3. Holds(p) /\ RequestOK(p)
    BY <1>1 DEF Serial, IInv, Tied
  <2>4. draft[p].contacts[u] \notin {None, "gone"} /\ contacts'[u] = draft[p].contacts[u]
    BY <2>2 DEF SeesContact
  <2>5. contacts'[u] = req[p].id /\ req[p].kind = "confirm"
    BY <2>3, <2>4 DEF Holds, BindsOwn
  <2>6. req[p].id \in Verifications
    BY <2>3, <2>5 DEF RequestOK, ConfirmOK
  <2>7. /\ verifs[req[p].id].status = "pending"
        /\ draft[p].verifs[req[p].id] # None
        /\ draft[p].verifs[req[p].id].status = "consumed"
    BY <1>1, <2>2, <2>3, <2>5 DEF Holds, Reserved
  <2> QED
    BY <2>2, <2>5, <2>6, <2>7 DEF Sees
<1>2. IInv /\ Serial /\ [Next]_vars => [isolation = "Serializable" => BindsPending]_vars
  BY <1>1
<1> QED
  BY <1>2, SerialInvariant, PTL DEF Spec, SerializedBindsPendingOnly
=============================================================================
