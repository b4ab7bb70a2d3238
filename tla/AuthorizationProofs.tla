------------------------- MODULE AuthorizationProofs -------------------------
(***************************************************************************)
(* Facts about the statements of module Authorization for any number of    *)
(* goroutines, users, roles, permissions and codes.  IInv says where each  *)
(* request is and what its transaction has written by then.  On top of it  *)
(* stand three invariants: Keys, which the declared foreign keys keep;     *)
(* Known, that requests and assignments refer to rows that were there; and *)
(* Serial, what a SQLite transaction knows as long as no other request has *)
(* changed the tables behind it.                                           *)
(***************************************************************************)
EXTENDS Authorization, TLAPS

RequestRows ==
    [kind : Kinds, pc : Steps, on : Things \cup {None}, wanted : SUBSET Codes,
     todo : SUBSET Codes, found : SUBSET Entries, picked : SUBSET Links]
DraftRows == [born : SUBSET Users, gone : SUBSET Users,
              added : SUBSET Links, removed : SUBSET Links]

Assigning == {"replace", "provision", "register"}

\* The course of each request.
StepsOf == [idle      |-> {"idle"},
            replace   |-> {"owner", "lookup", "pick", "wipe", "bind", "commit"},
            provision |-> {"lookup", "born", "pick", "wipe", "bind", "commit"},
            register  |-> {"born", "owner", "lookup", "pick", "wipe", "bind",
                           "commit"},
            dropUser  |-> {"owner", "pick", "wipe", "row", "commit"},
            dropEntry |-> {"check", "pick", "wipe", "pickTarget", "wipeTarget",
                           "row"}]

OnCourse(r) ==
    /\ r.pc \in StepsOf[r.kind]
    /\ r.kind = "idle" => r = Idle
    /\ r.kind = "replace" => r.on \in Owners
    /\ r.kind \in {"provision", "register", "dropUser"} => r.on \in Users
    /\ r.kind = "dropEntry" => r.on \in Entries
    /\ r.todo \subseteq r.wanted
    /\ r.kind \in Assigning => r.found \subseteq TargetTable(r.on)
    /\ r.kind \notin Assigning => r.found = {} /\ r.todo = {}
    /\ r.pc \in {"pick", "wipe", "bind", "commit"} => r.todo = {}
    /\ r.kind = "provision" /\ r.pc = "born" => r.todo = {}
    /\ r.kind = "register" /\ r.pc = "born" => r.found = {}
    /\ r.pc = "wipe" => \A l \in r.picked : l[1] = r.on

\* What a request has written by the time it is at a statement.
Born(r) == \/ r.kind = "provision" /\ r.pc \notin {"lookup", "born"}
           \/ r.kind = "register" /\ r.pc # "born"
Written(r, d) ==
    /\ r.kind \notin InTx => d = Blank
    /\ d.born = IF Born(r) THEN {r.on} ELSE {}
    /\ d.gone = IF r.kind = "dropUser" /\ r.pc = "commit" THEN {r.on} ELSE {}
    /\ d.added = IF r.kind \in Assigning /\ r.pc = "commit"
                 THEN LinksOf(r.on, r.found) ELSE {}
    /\ \A l \in d.removed : l[1] = r.on

RequestsOK ==
    /\ req \in [Procs -> RequestRows]
    /\ draft \in [Procs -> DraftRows]
    /\ \A q \in Procs : OnCourse(req[q]) /\ Written(req[q], draft[q])

TablesOK == rows \in [Things -> Rows] /\ links \subseteq Links /\ stale \subseteq Procs

IInv == RequestsOK /\ TablesOK

-----------------------------------------------------------------------------
(* Types.                                                                  *)

LEMMA InvImpliesTypeOK == IInv => TypeOK
  BY DEF IInv, RequestsOK, TablesOK, TypeOK, RequestRows, DraftRows

LEMMA RowTypes ==
  /\ Unborn \in Rows /\ Gone \in Rows /\ UserRow \in Rows
  /\ Idle \in RequestRows /\ Blank \in DraftRows
  /\ OnCourse(Idle) /\ Written(Idle, Blank)
  BY DEF Unborn, Gone, UserRow, Rows, Idle, RequestRows, Kinds, Steps, Blank,
         DraftRows, OnCourse, StepsOf, Assigning, Written, Born, InTx

LEMMA InitInv == Init => IInv
  BY RowTypes DEF Init, IInv, RequestsOK, TablesOK

LEMMA LinksOfType ==
  ASSUME NEW o \in Owners, NEW targets \in SUBSET TargetTable(o)
  PROVE  LinksOf(o, targets) \subseteq Links
  BY TablesAreDisjoint DEF LinksOf, Links, Owners, TargetTable

LEMMA LinkEnds ==
  ASSUME NEW l \in Links
  PROVE  l[1] \in Owners /\ l[2] \in Entries /\ l \in Touching(l[1])
         /\ l \in Touching(l[2]) /\ l = <<l[1], l[2]>>
  BY DEF Links, Owners, Entries, Touching

\* Neither looks at what a DELETE picked.
LEMMA PickedIsFree ==
  ASSUME NEW r, NEW s, NEW d, Written(s, d), r.kind = s.kind, r.pc = s.pc,
         r.on = s.on, r.found = s.found
  PROVE  Written(r, d)
<1>1. Born(r) <=> Born(s)  BY DEF Born
<1>2. r.kind \notin InTx => d = Blank  BY DEF Written
<1>3. d.born = IF Born(r) THEN {r.on} ELSE {}  BY <1>1 DEF Written
<1>4. d.gone = IF r.kind = "dropUser" /\ r.pc = "commit" THEN {r.on} ELSE {}
  BY DEF Written
<1>5. d.added = IF r.kind \in Assigning /\ r.pc = "commit"
                THEN LinksOf(r.on, r.found) ELSE {}
  BY DEF Written
<1>6. \A l \in d.removed : l[1] = r.on  BY DEF Written
<1> QED  BY <1>2, <1>3, <1>4, <1>5, <1>6 DEF Written

\* One goroutine takes a step; the others keep their place.
LEMMA Moves ==
  ASSUME RequestsOK, NEW p \in Procs,
         NEW r \in RequestRows, OnCourse(r), NEW d \in DraftRows, Written(r, d),
         req' = [req EXCEPT ![p] = r], draft' = [draft EXCEPT ![p] = d]
  PROVE  RequestsOK'
  BY DEF RequestsOK

\* The same, where rows that are gone are taken from what others picked.
LEMMA MovesAndUnpicks ==
  ASSUME RequestsOK, NEW p \in Procs, NEW gone,
         NEW r \in RequestRows, OnCourse(r), NEW d \in DraftRows, Written(r, d),
         r.kind = "idle" => r.picked = {},
         req' = Unpick([req EXCEPT ![p] = r], gone),
         draft' = [draft EXCEPT ![p] = d]
  PROVE  RequestsOK'
<1> DEFINE f == [req EXCEPT ![p] = r]
<1>1. f \in [Procs -> RequestRows] /\ \A q \in Procs : OnCourse(f[q])
  BY DEF RequestsOK
<1>2. ASSUME NEW q \in Procs
      PROVE  req'[q] = [f[q] EXCEPT !.picked = @ \ gone]
  BY DEF Unpick
<1>3. ASSUME NEW q \in Procs
      PROVE  /\ req'[q] \in RequestRows
             /\ req'[q].kind = f[q].kind /\ req'[q].pc = f[q].pc
             /\ req'[q].on = f[q].on /\ req'[q].todo = f[q].todo
             /\ req'[q].found = f[q].found /\ req'[q].wanted = f[q].wanted
             /\ req'[q].picked \subseteq f[q].picked
             /\ f[q].picked = {} => req'[q] = f[q]
  <2> HIDE DEF f
  <2>1. f[q] \in RequestRows  BY <1>1
  <2> DEFINE g == [f[q] EXCEPT !.picked = @ \ gone]
  <2>2. /\ g \in RequestRows
        /\ g.kind = f[q].kind /\ g.pc = f[q].pc /\ g.on = f[q].on
        /\ g.todo = f[q].todo /\ g.found = f[q].found /\ g.wanted = f[q].wanted
        /\ g.picked \subseteq f[q].picked
    BY <2>1 DEF RequestRows
  <2>3. f[q].picked = {} => g = f[q]
    BY <2>1 DEF RequestRows
  <2> QED  BY <1>2, <2>2, <2>3
<1>4. ASSUME NEW q \in Procs  PROVE OnCourse(req'[q])
  <2>1. OnCourse(f[q])  BY <1>1
  <2>2. f[q].kind = "idle" => f[q].picked = {}
    BY <1>1 DEF OnCourse, Idle
  <2> HIDE DEF f
  <2>3. CASE f[q].kind = "idle"
    BY <1>3, <2>1, <2>2, <2>3
  <2>4. CASE f[q].kind # "idle"
    <3> DEFINE old == f[q]
               new == req'[q]
    <3>1. /\ OnCourse(old) /\ old.kind # "idle"
          /\ new.kind = old.kind /\ new.pc = old.pc /\ new.on = old.on
          /\ new.todo = old.todo /\ new.found = old.found
          /\ new.wanted = old.wanted /\ new.picked \subseteq old.picked
      BY <1>3, <2>1, <2>4
    <3> HIDE DEF old, new
    <3>2. OnCourse(new)
      BY <3>1 DEF OnCourse
    <3> QED
      BY <3>2 DEF new
  <2> QED  BY <2>3, <2>4
<1>5. \A q \in Procs : draft'[q] \in DraftRows /\ Written(f[q], draft'[q])
  BY DEF RequestsOK
<1>6. ASSUME NEW q \in Procs  PROVE Written(req'[q], draft'[q])
  <2> HIDE DEF f
  <2> QED  BY <1>3, <1>5, PickedIsFree
<1>7. req' = [q \in Procs |-> req'[q]]
  BY DEF Unpick
<1>8. draft' \in [Procs -> DraftRows]
  BY DEF RequestsOK
<1> QED  BY <1>3, <1>4, <1>6, <1>7, <1>8 DEF RequestsOK

\* A step that only moves p to another statement of its course.
LEMMA GoesOn ==
  ASSUME RequestsOK, NEW p \in Procs, NEW pc \in StepsOf[req[p].kind],
         Goto(p, pc), NEW d \in DraftRows, draft' = [draft EXCEPT ![p] = d],
         req[p].kind # "idle",
         pc \in {"pick", "wipe", "bind", "commit"} => req[p].todo = {},
         req[p].kind = "provision" /\ pc = "born" => req[p].todo = {},
         req[p].kind = "register" /\ pc = "born" => req[p].found = {},
         pc # "wipe", Written([req[p] EXCEPT !.pc = pc], d)
  PROVE  RequestsOK'
<1> DEFINE r == [req[p] EXCEPT !.pc = pc]
<1>1. req[p] \in RequestRows /\ OnCourse(req[p])  BY DEF RequestsOK
<1>2. pc \in Steps
  BY <1>1 DEF StepsOf, Steps, RequestRows, Kinds
<1>3. /\ r \in RequestRows /\ r.pc = pc
      /\ r.kind = req[p].kind /\ r.on = req[p].on /\ r.todo = req[p].todo
      /\ r.found = req[p].found /\ r.wanted = req[p].wanted
  BY <1>1, <1>2 DEF RequestRows
<1>4. Written(r, d)  OBVIOUS
<1>5. req' = [req EXCEPT ![p] = r]  BY DEF Goto
<1> HIDE DEF r
<1>6. OnCourse(r)  BY <1>1, <1>3 DEF OnCourse
<1> QED  BY <1>3, <1>4, <1>5, <1>6, Moves

LEMMA GivesUp ==
  ASSUME RequestsOK, NEW p \in Procs, GiveUp(p)
  PROVE  RequestsOK'
  BY Moves, RowTypes DEF GiveUp

LEMMA SameDraft ==
  ASSUME RequestsOK, NEW p \in Procs
  PROVE  draft[p] \in DraftRows /\ draft = [draft EXCEPT ![p] = draft[p]]
  BY DEF RequestsOK

\* Each statement belongs to the requests on whose course it is.
LEMMA KindAt ==
  ASSUME RequestsOK, NEW p \in Procs
  PROVE  /\ req[p].kind \in Kinds /\ req[p].pc \in StepsOf[req[p].kind]
         /\ req[p].pc = "idle" => req[p].kind = "idle"
         /\ req[p].kind = "idle" => req[p] = Idle
         /\ req[p].kind \notin InTx => draft[p] = Blank
<1>1. req[p] \in RequestRows /\ OnCourse(req[p]) /\ Written(req[p], draft[p])
  BY DEF RequestsOK
<1>2. req[p].kind \in Kinds  BY <1>1 DEF RequestRows
<1>3. req[p].pc \in StepsOf[req[p].kind]  BY <1>1 DEF OnCourse
<1>4. req[p].pc = "idle" => req[p].kind = "idle"
  BY <1>2, <1>3 DEF StepsOf, Kinds
<1>5. req[p].kind = "idle" => req[p] = Idle  BY <1>1 DEF OnCourse
<1>6. req[p].kind \notin InTx => draft[p] = Blank  BY <1>1 DEF Written
<1> QED  BY <1>2, <1>3, <1>4, <1>5, <1>6

LEMMA OpenOK ==
  ASSUME RequestsOK, NEW p \in Procs, Begin(p)
  PROVE  RequestsOK'
<1>1. PICK kind \in Kinds \ {"idle"}, pc \in Steps, on \in Things,
           wanted \in SUBSET Codes :
        /\ Open(p, kind, pc, on, wanted)
        /\ pc \in StepsOf[kind]
        /\ kind = "replace" => on \in Owners
        /\ kind \in {"provision", "register", "dropUser"} => on \in Users
        /\ kind = "dropEntry" => on \in Entries
        /\ kind \notin Assigning => wanted = {}
        /\ kind = "provision" => pc = "lookup"
        /\ kind = "register" => pc = "born"
        /\ pc \in {"owner", "lookup", "born", "check"}
  BY DefaultsAreCodes DEF Begin, SetLinks, ProvisionUser, Register, DeleteUser,
     DeleteEntry, Kinds, Steps, StepsOf, Things, Owners, Entries, Assigning, Unclaimed
<1> DEFINE r == [kind |-> kind, pc |-> pc, on |-> on, wanted |-> wanted,
                 todo |-> wanted, found |-> {}, picked |-> {}]
<1>2. req' = [req EXCEPT ![p] = r]  BY <1>1 DEF Open
<1>3. r \in RequestRows  BY DEF RequestRows
<1>4. OnCourse(r)  BY <1>1 DEF OnCourse
<1>5. draft[p] = Blank
  <2>1. req[p].pc = "idle"  BY <1>1 DEF Open
  <2> QED  BY <2>1, KindAt DEF InTx
<1>6. Written(r, Blank)
  BY <1>1 DEF Written, Born, Blank, Assigning
<1>7. draft' = [draft EXCEPT ![p] = Blank]
  BY <1>1, <1>5, SameDraft DEF Open
<1> QED  BY <1>2, <1>3, <1>4, <1>6, <1>7, RowTypes, Moves

LEMMA GetOwnerOK ==
  ASSUME RequestsOK, NEW p \in Procs, GetOwner(p)
  PROVE  RequestsOK'
<1>1. CASE ~Sees(p, req[p].on)
  BY <1>1, GivesUp DEF GetOwner
<1>2. CASE Sees(p, req[p].on)
  <2> DEFINE pc == IF req[p].todo = {} THEN "pick" ELSE "lookup"
  <2>1. /\ req[p].pc = "owner" /\ Goto(p, pc) /\ draft' = draft
    BY <1>2 DEF GetOwner, At
  <2>2. req[p].kind \in {"replace", "register", "dropUser"}
    BY <2>1, KindAt DEF StepsOf, Kinds
  <2>3. req[p].kind = "dropUser" => req[p].todo = {}
    BY DEF RequestsOK, OnCourse, Assigning
  <2>4. pc \in StepsOf[req[p].kind]
    BY <2>2, <2>3 DEF StepsOf
  <2>5. Written([req[p] EXCEPT !.pc = pc], draft[p])
    <3> DEFINE r == [req[p] EXCEPT !.pc = pc]
    <3>1. req[p] \in RequestRows /\ Written(req[p], draft[p])  BY DEF RequestsOK
    <3>2. /\ r.pc = pc /\ r.kind = req[p].kind
          /\ r.on = req[p].on /\ r.found = req[p].found
      BY <3>1 DEF RequestRows
    <3>3. pc # "commit" /\ pc # "born" /\ req[p].pc # "commit" /\ req[p].pc # "born"
      BY <2>1
    <3> HIDE DEF r, pc
    <3> QED  BY <2>2, <3>1, <3>2, <3>3 DEF Written, Born
  <2> QED  BY <2>1, <2>2, <2>4, <2>5, SameDraft, GoesOn
<1> QED  BY <1>1, <1>2

LEMMA GetByCodeOK ==
  ASSUME IInv, NEW p \in Procs, GetByCode(p)
  PROVE  RequestsOK'
<1> USE DEF IInv
<1>1. PICK c \in req[p].todo :
        LET hits == {t \in TargetTable(req[p].on) : Present(t) /\ rows[t].code = c}
            rest == req[p].todo \ {c} IN
        IF hits = {} THEN GiveUp(p)
        ELSE /\ req' = [req EXCEPT ![p].found = @ \cup hits, ![p].todo = rest,
                            ![p].pc = IF rest # {} THEN "lookup"
                                      ELSE IF req[p].kind = "provision" THEN "born"
                                      ELSE "pick"]
             /\ UNCHANGED draft
  BY DEF GetByCode
<1> DEFINE hits == {t \in TargetTable(req[p].on) : Present(t) /\ rows[t].code = c}
           rest == req[p].todo \ {c}
           pc == IF rest # {} THEN "lookup"
                 ELSE IF req[p].kind = "provision" THEN "born" ELSE "pick"
           r == [req[p] EXCEPT !.found = @ \cup hits, !.todo = rest, !.pc = pc]
<1>2. CASE hits = {}
  BY <1>1, <1>2, GivesUp
<1>3. CASE hits # {}
  <2>1. req' = [req EXCEPT ![p] = r] /\ draft' = draft
    BY <1>1, <1>3
  <2>2. req[p] \in RequestRows /\ OnCourse(req[p]) /\ Written(req[p], draft[p])
    BY DEF RequestsOK
  <2>3. req[p].pc = "lookup"  BY DEF GetByCode, At
  <2>4. req[p].kind \in Assigning
    BY <2>3, KindAt DEF StepsOf, Kinds, Assigning
  <2>5. hits \subseteq TargetTable(req[p].on) /\ hits \subseteq Entries
    BY DEF TargetTable, Entries
  <2>6. /\ r.kind = req[p].kind /\ r.on = req[p].on
        /\ r.found = req[p].found \cup hits /\ r.todo = rest /\ r.pc = pc
        /\ r.wanted = req[p].wanted /\ rest \subseteq req[p].todo
    BY <2>2 DEF RequestRows
  <2>7. pc \in {"lookup", "born", "pick"} /\ pc \in Steps
    BY DEF Steps
  <2>8. r \in RequestRows
    BY <2>2, <2>5, <2>7 DEF RequestRows
  <2>9. pc = "born" => req[p].kind = "provision" /\ rest = {}
    OBVIOUS
  <2>10. pc = "pick" => req[p].kind # "provision" /\ rest = {}
    OBVIOUS
  <2> HIDE DEF r, pc, rest, hits
  <2>11. pc \in StepsOf[req[p].kind]
    BY <2>4, <2>7, <2>9 DEF StepsOf, Assigning
  <2>12. OnCourse(r)
    BY <2>2, <2>4, <2>5, <2>6, <2>7, <2>9, <2>10, <2>11 DEF OnCourse, Assigning
  <2>13. Written(r, draft[p])
    BY <2>2, <2>3, <2>4, <2>6, <2>7, <2>9, <2>10 DEF Written, Born, Assigning, InTx
  <2> QED  BY <2>1, <2>8, <2>12, <2>13, SameDraft, Moves
<1> QED  BY <1>2, <1>3

LEMMA CreateUserOK ==
  ASSUME RequestsOK, NEW p \in Procs, CreateUser(p)
  PROVE  RequestsOK'
<1> DEFINE pc == AfterBorn(p)
           d == [draft[p] EXCEPT !.born = {req[p].on}]
           r == [req[p] EXCEPT !.pc = pc]
<1>1. /\ req[p].pc = "born" /\ Goto(p, pc) /\ draft' = [draft EXCEPT ![p] = d]
  BY DEF CreateUser, At, RequestsOK, DraftRows
<1>2. req[p].kind \in {"provision", "register"}
  BY <1>1, KindAt DEF StepsOf, Kinds
<1>3. /\ req[p] \in RequestRows /\ OnCourse(req[p]) /\ Written(req[p], draft[p])
      /\ draft[p] \in DraftRows
  BY DEF RequestsOK
<1>4. /\ req[p].kind = "provision" => pc = "pick" /\ req[p].todo = {}
      /\ req[p].kind = "register" => /\ req[p].found = {}
                                     /\ pc = IF req[p].wanted = {} THEN "commit"
                                             ELSE "owner"
  BY <1>1, <1>2, <1>3 DEF AfterBorn, OnCourse
<1>5. req[p].on \in Users  BY <1>2, <1>3 DEF OnCourse
<1>6. d \in DraftRows /\ d.born = {req[p].on} /\ d.gone = draft[p].gone
      /\ d.added = draft[p].added /\ d.removed = draft[p].removed
  BY <1>3, <1>5 DEF DraftRows
<1>7. r \in RequestRows /\ r.pc = pc /\ r.kind = req[p].kind /\ r.on = req[p].on
      /\ r.found = req[p].found /\ r.todo = req[p].todo /\ r.wanted = req[p].wanted
  BY <1>2, <1>3, <1>4 DEF RequestRows, Steps
<1>8. req' = [req EXCEPT ![p] = r]  BY <1>1 DEF Goto
<1>9. LinksOf(req[p].on, {}) = {}  BY DEF LinksOf
<1>10. Written(r, d)
  <2> HIDE DEF r, d, pc
  <2> QED  BY <1>1, <1>2, <1>3, <1>4, <1>6, <1>7, <1>9
           DEF Written, Born, InTx, Assigning
<1>11. OnCourse(r)
  <2>1. pc = "commit" => req[p].todo = {}  BY <1>3, <1>4, <1>2 DEF OnCourse
  <2> HIDE DEF r, pc
  <2> QED  BY <1>2, <1>3, <1>4, <1>7, <2>1 DEF OnCourse, StepsOf, Assigning
<1> QED  BY <1>1, <1>6, <1>7, <1>8, <1>10, <1>11, Moves

LEMMA CheckSystemOK ==
  ASSUME RequestsOK, NEW p \in Procs, CheckSystem(p)
  PROVE  RequestsOK'
<1>1. req[p].pc = "check" /\ draft' = draft  BY DEF CheckSystem, At
<1>2. req[p].kind = "dropEntry"  BY <1>1, KindAt DEF StepsOf, Kinds
<1>3. draft[p] = Blank /\ req[p].todo = {}
  BY <1>2, KindAt DEF RequestsOK, OnCourse, Assigning, InTx
<1>4. CASE req' = [req EXCEPT ![p] = Idle]
  BY <1>1, <1>3, <1>4, SameDraft, RowTypes, Moves
<1>5. ASSUME NEW pc \in {"pick", "pickTarget"}, Goto(p, pc)
      PROVE  RequestsOK'
  <2>1. pc \in StepsOf[req[p].kind]  BY <1>2 DEF StepsOf
  <2>2. Written([req[p] EXCEPT !.pc = pc], draft[p])
    <3>1. req[p] \in RequestRows  BY DEF RequestsOK
    <3>2. [req[p] EXCEPT !.pc = pc].kind = "dropEntry"
      BY <1>2, <3>1 DEF RequestRows
    <3> QED  BY <1>3, <3>2 DEF Written, Born, Blank, Assigning
  <2> QED  BY <1>1, <1>2, <1>3, <1>5, <2>1, <2>2, SameDraft, GoesOn
<1> QED  BY <1>4, <1>5 DEF CheckSystem

LEMMA MatchingType ==
  ASSUME IInv, NEW p \in Procs
  PROVE  /\ SeesLinks(p) \subseteq Links /\ Matching(p) \subseteq SeesLinks(p)
         /\ Doomed(p) \subseteq Links
         /\ req[p].pc \in {"pick", "wipe"} =>
               \A l \in Matching(p) : l[1] = req[p].on
  BY DEF IInv, RequestsOK, TablesOK, RequestRows, DraftRows, SeesLinks, Matching,
         Doomed, Side

LEMMA StartDeleteOK ==
  ASSUME IInv, NEW p \in Procs, StartDelete(p)
  PROVE  RequestsOK'
<1> DEFINE pc == IF req[p].pc = "pick" THEN "wipe" ELSE "wipeTarget"
           r == [req[p] EXCEPT !.picked = Matching(p), !.pc = pc]
<1>1. /\ req' = [req EXCEPT ![p] = r] /\ draft' = draft
      /\ req[p].pc \in {"pick", "pickTarget"}
  BY DEF StartDelete, At, IInv, RequestsOK
<1>2. /\ req[p] \in RequestRows /\ OnCourse(req[p]) /\ Written(req[p], draft[p])
      /\ RequestsOK
  BY DEF IInv, RequestsOK
<1>3. Matching(p) \subseteq Links  BY MatchingType
<1>4. r \in RequestRows /\ r.pc = pc /\ r.kind = req[p].kind /\ r.on = req[p].on
      /\ r.found = req[p].found /\ r.todo = req[p].todo /\ r.wanted = req[p].wanted
  BY <1>2, <1>3 DEF RequestRows, Steps
<1>5. pc \in StepsOf[req[p].kind] /\ (pc = "wipe" <=> req[p].pc = "pick")
  BY <1>1, <1>2, KindAt DEF StepsOf, Kinds
<1>6. req[p].kind # "idle"  BY <1>1, <1>2, KindAt DEF StepsOf
<1>7. pc \notin {"lookup", "born", "commit"} /\ pc \in {"wipe", "wipeTarget"}
  OBVIOUS
<1>10. r.picked = Matching(p)  BY <1>2 DEF RequestRows
<1> HIDE DEF r, pc
<1>8. OnCourse(r)
  <2>1. pc = "wipe" => \A l \in r.picked : l[1] = r.on
    BY <1>4, <1>5, <1>10, MatchingType
  <2> QED  BY <1>2, <1>4, <1>5, <1>6, <1>7, <2>1 DEF OnCourse
<1>9. Written(r, draft[p])
  BY <1>1, <1>2, <1>4, <1>7 DEF Written, Born
<1> QED  BY <1>1, <1>2, <1>4, <1>8, <1>9, SameDraft, Moves

\* DELETE of links: where it leads, and what it leaves in the transaction.
LEMMA DeleteLinksOK ==
  ASSUME IInv, NEW p \in Procs, DeleteLinks(p)
  PROVE  RequestsOK'
<1> DEFINE pc == AfterWipe(p)
           r == [req[p] EXCEPT !.pc = pc, !.picked = {}]
           d == [draft[p] EXCEPT !.removed = @ \cup Doomed(p)]
<1>1. /\ req[p].pc \in {"wipe", "wipeTarget"}
      /\ req[p].kind \in InTx => /\ req' = [req EXCEPT ![p] = r]
                                 /\ draft' = [draft EXCEPT ![p] = d]
      /\ req[p].kind \notin InTx =>
            /\ req' = Unpick([req EXCEPT ![p] = r], Doomed(p))
            /\ draft' = draft
  BY DEF DeleteLinks, At, IInv, RequestsOK, DraftRows
<1>2. /\ req[p] \in RequestRows /\ OnCourse(req[p]) /\ Written(req[p], draft[p])
      /\ draft[p] \in DraftRows /\ RequestsOK
  BY DEF IInv, RequestsOK
<1>3. req[p].kind \in Assigning \cup {"dropUser", "dropEntry"}
  BY <1>1, KindAt, <1>2 DEF StepsOf, Kinds, Assigning
<1>4. /\ req[p].kind = "dropUser" => pc = "row"
      /\ req[p].kind = "dropEntry" =>
            pc = IF req[p].pc = "wipe" THEN "pickTarget" ELSE "row"
      /\ req[p].kind \in Assigning =>
            pc = IF req[p].found = {} THEN "commit" ELSE "bind"
  BY DEF AfterWipe, Assigning
<1>5. /\ req[p].kind \in InTx => req[p].pc = "wipe"
      /\ req[p].kind \in InTx <=> req[p].kind # "dropEntry"
      /\ pc \in StepsOf[req[p].kind]
  BY <1>1, <1>2, <1>3, <1>4, KindAt DEF StepsOf, InTx, Assigning
<1>6. pc \in {"row", "pickTarget", "commit", "bind"} /\ pc \in Steps
  BY <1>3, <1>4 DEF Steps
<1>7. r \in RequestRows /\ r.pc = pc /\ r.kind = req[p].kind /\ r.on = req[p].on
      /\ r.found = req[p].found /\ r.todo = req[p].todo /\ r.wanted = req[p].wanted
  BY <1>2, <1>6 DEF RequestRows
<1>8. d \in DraftRows /\ d.born = draft[p].born /\ d.gone = draft[p].gone
      /\ d.added = draft[p].added /\ d.removed = draft[p].removed \cup Doomed(p)
  BY <1>2, MatchingType DEF DraftRows
<1>9. OnCourse(r)
  <2>1. req[p].kind \in InTx => req[p].todo = {}
    BY <1>2, <1>5 DEF OnCourse
  <2>2. pc \in {"commit", "bind"} => req[p].kind \in InTx
    BY <1>3, <1>4, <1>5
  <2> HIDE DEF r, pc
  <2>3. r.pc \in {"commit", "bind"} => r.todo = {}  BY <1>7, <2>1, <2>2
  <2>4. r.kind # "idle" /\ r.pc \notin {"pick", "wipe", "born"}
    BY <1>3, <1>6, <1>7 DEF Assigning
  <2> QED  BY <1>2, <1>5, <1>7, <2>3, <2>4 DEF OnCourse
<1>10. CASE req[p].kind \in InTx
  <2>1. \A l \in Doomed(p) : l[1] = req[p].on
    BY <1>2, <1>5, <1>10, MatchingType DEF Doomed, OnCourse
  <2>2. LinksOf(req[p].on, {}) = {}  BY DEF LinksOf
  <2>3. Written(r, d)
    <3> HIDE DEF r, d, pc
    <3>1. Born(r) <=> Born(req[p])
      BY <1>1, <1>5, <1>6, <1>7, <1>10 DEF Born
    <3>2. d.gone = {} /\ ~(r.kind = "dropUser" /\ r.pc = "commit")
      BY <1>2, <1>3, <1>4, <1>5, <1>7, <1>8, <1>10 DEF Written, Assigning
    <3>3. d.added = {}
      BY <1>2, <1>5, <1>8, <1>10 DEF Written
    <3>4. r.kind \in Assigning /\ r.pc = "commit" => r.found = {}
      BY <1>4, <1>7
    <3>5. d.born = IF Born(r) THEN {r.on} ELSE {}
      BY <1>2, <1>7, <1>8, <3>1 DEF Written
    <3>6. \A l \in d.removed : l[1] = r.on
      BY <1>2, <1>7, <1>8, <2>1 DEF Written
    <3>7. r.kind \in InTx  BY <1>7, <1>10
    <3>8. d.added = IF r.kind \in Assigning /\ r.pc = "commit"
                    THEN LinksOf(r.on, r.found) ELSE {}
      BY <1>7, <2>2, <3>3, <3>4
    <3> HIDE DEF r, d
    <3> QED  BY <3>2, <3>5, <3>6, <3>7, <3>8 DEF Written
  <2>4. RequestsOK /\ draft' = [draft EXCEPT ![p] = d]
        /\ r \in RequestRows /\ d \in DraftRows
    BY <1>1, <1>2, <1>7, <1>8, <1>10
  <2>5. req' = [req EXCEPT ![p] = r]
    BY <1>1, <1>2, <1>10
  <2> HIDE DEF r, d
  <2> QED  BY <1>9, <2>3, <2>4, <2>5, Moves
<1>11. CASE req[p].kind \notin InTx
  <2>1. draft[p] = Blank  BY <1>2, <1>11, KindAt
  <2>2. r.kind = "dropEntry"  BY <1>5, <1>7, <1>11
  <2>3. Written(r, draft[p])
    BY <2>1, <2>2 DEF Written, Born, Blank, Assigning
  <2>4. req' = Unpick([req EXCEPT ![p] = r], Doomed(p))
        /\ draft' = [draft EXCEPT ![p] = draft[p]]
    BY <1>1, <1>2, <1>11, SameDraft
  <2> HIDE DEF r
  <2> QED  BY <1>2, <1>7, <1>9, <2>2, <2>3, <2>4, MovesAndUnpicks
<1> QED  BY <1>10, <1>11

LEMMA InsertLinksOK ==
  ASSUME RequestsOK, NEW p \in Procs, InsertLinks(p)
  PROVE  RequestsOK'
<1> DEFINE new == LinksOf(req[p].on, req[p].found)
           d == [draft[p] EXCEPT !.added = new]
           r == [req[p] EXCEPT !.pc = "commit"]
<1>1. CASE GiveUp(p)
  BY <1>1, GivesUp
<1>2. CASE ~GiveUp(p)
  <2>1. /\ req[p].pc = "bind" /\ Goto(p, "commit")
        /\ draft' = [draft EXCEPT ![p] = d]
    BY <1>2 DEF InsertLinks, At, RequestsOK, DraftRows
  <2>2. req[p].kind \in Assigning
    BY <2>1, KindAt DEF StepsOf, Kinds, Assigning
  <2>3. /\ req[p] \in RequestRows /\ OnCourse(req[p]) /\ Written(req[p], draft[p])
        /\ draft[p] \in DraftRows
    BY DEF RequestsOK
  <2>4. new \subseteq Links
    <3>1. req[p].on \in Owners /\ req[p].found \subseteq TargetTable(req[p].on)
      BY <2>2, <2>3 DEF OnCourse, Assigning, Owners
    <3> QED  BY <3>1, LinksOfType
  <2>5. d \in DraftRows /\ d.born = draft[p].born /\ d.gone = draft[p].gone
        /\ d.removed = draft[p].removed /\ d.added = new
    BY <2>3, <2>4 DEF DraftRows
  <2>6. r.pc = "commit" /\ r.kind = req[p].kind /\ r.on = req[p].on
        /\ r.found = req[p].found
    BY <2>3 DEF RequestRows
  <2>7. Written(r, d)
    <3> HIDE DEF r, d
    <3> QED  BY <2>1, <2>2, <2>3, <2>5, <2>6 DEF Written, Born, Assigning, InTx
  <2>8. "commit" \in StepsOf[req[p].kind]  BY <2>2 DEF StepsOf, Assigning
  <2>9. req[p].todo = {}  BY <2>1, <2>3 DEF OnCourse
  <2> QED  BY <2>1, <2>2, <2>5, <2>7, <2>8, <2>9, GoesOn DEF Assigning
<1> QED  BY <1>1, <1>2

LEMMA DeleteEntryRowOK ==
  ASSUME RequestsOK, NEW p \in Procs, DeleteEntryRow(p)
  PROVE  RequestsOK'
<1>1. draft[p] = Blank /\ draft' = draft
  BY KindAt DEF DeleteEntryRow, InTx
<1>2. CASE req' = [req EXCEPT ![p] = Idle]
  BY <1>1, <1>2, SameDraft, RowTypes, Moves
<1>3. CASE req' = Unpick([req EXCEPT ![p] = Idle], Cascade(p, req[p].on))
  BY <1>1, <1>3, SameDraft, RowTypes, MovesAndUnpicks DEF Idle
<1> QED  BY <1>2, <1>3 DEF DeleteEntryRow

LEMMA DeleteUserRowOK ==
  ASSUME IInv, NEW p \in Procs, DeleteUserRow(p)
  PROVE  RequestsOK'
<1> DEFINE u == req[p].on
           d == [draft[p] EXCEPT !.gone = {u}, !.removed = @ \cup Cascade(p, u)]
           r == [req[p] EXCEPT !.pc = "commit"]
<1> USE DEF IInv
<1>1. CASE GiveUp(p)
  BY <1>1, GivesUp
<1>2. CASE ~GiveUp(p)
  <2>1. /\ req[p].pc = "row" /\ Goto(p, "commit") /\ req[p].kind = "dropUser"
        /\ draft' = [draft EXCEPT ![p] = d]
    BY <1>2 DEF DeleteUserRow, At, RequestsOK, DraftRows
  <2>2. /\ req[p] \in RequestRows /\ OnCourse(req[p]) /\ Written(req[p], draft[p])
        /\ draft[p] \in DraftRows
    BY DEF RequestsOK
  <2>3. u \in Users /\ req[p].todo = {}
    BY <2>1, <2>2 DEF OnCourse, Assigning
  <2>4. Cascade(p, u) \subseteq Links /\ \A l \in Cascade(p, u) : l[1] = u
    BY <2>3, MatchingType, TablesAreDisjoint DEF Cascade, Touching, Links
  <2>5. d \in DraftRows /\ d.born = draft[p].born /\ d.gone = {u}
        /\ d.removed = draft[p].removed \cup Cascade(p, u)
        /\ d.added = draft[p].added
    BY <2>2, <2>3, <2>4 DEF DraftRows
  <2>6. r.pc = "commit" /\ r.kind = req[p].kind /\ r.on = u
        /\ r.found = req[p].found
    BY <2>2 DEF RequestRows
  <2>7. Written(r, d)
    <3> HIDE DEF r, d
    <3>1. /\ d.born = IF Born(r) THEN {r.on} ELSE {}
          /\ d.added = IF r.kind \in Assigning /\ r.pc = "commit"
                       THEN LinksOf(r.on, r.found) ELSE {}
      BY <2>1, <2>2, <2>5, <2>6 DEF Written, Born, Assigning
    <3>2. d.gone = IF r.kind = "dropUser" /\ r.pc = "commit" THEN {r.on} ELSE {}
      BY <2>1, <2>5, <2>6
    <3>3. \A l \in d.removed : l[1] = r.on
      BY <2>2, <2>4, <2>5, <2>6 DEF Written
    <3> QED  BY <2>1, <2>6, <3>1, <3>2, <3>3 DEF Written, InTx
  <2>8. "commit" \in StepsOf[req[p].kind]  BY <2>1 DEF StepsOf
  <2> QED  BY <2>1, <2>3, <2>5, <2>7, <2>8, GoesOn
<1> QED  BY <1>1, <1>2

LEMMA CommitOK ==
  ASSUME RequestsOK, NEW p \in Procs, Commit(p)
  PROVE  RequestsOK'
  BY RowTypes, MovesAndUnpicks DEF Commit, Idle

LEMMA RequestsStep ==
  ASSUME IInv, [Next]_vars
  PROVE  RequestsOK'
<1>1. RequestsOK  BY DEF IInv
<1>2. CASE UNCHANGED vars  BY <1>1, <1>2 DEF vars, RequestsOK
<1>3. ASSUME NEW p \in Procs, Change(p)  PROVE RequestsOK'
  BY <1>1, <1>3 DEF Change, CreateEntry, EnsureEntry, RenameEntry, Statement, RequestsOK
<1>4. ASSUME NEW p \in Procs, Begin(p)  PROVE RequestsOK'
  BY <1>1, <1>4, OpenOK
<1>5. ASSUME NEW p \in Procs, Advance(p)  PROVE RequestsOK'
  BY <1>1, <1>5, GetOwnerOK, GetByCodeOK, CreateUserOK, CheckSystemOK, StartDeleteOK,
     DeleteLinksOK, InsertLinksOK, DeleteEntryRowOK, DeleteUserRowOK, CommitOK DEF Advance
<1>6. ASSUME NEW p \in Procs, Fail(p)  PROVE RequestsOK'
  BY <1>1, <1>6, GivesUp DEF Fail
<1> QED  BY <1>2, <1>3, <1>4, <1>5, <1>6 DEF Next

\* The committed rows stay rows of their tables.
LEMMA TablesStep ==
  ASSUME IInv, [Next]_vars
  PROVE  TablesOK'
<1> USE DEF IInv, TablesOK
<1>1. CASE UNCHANGED vars  BY <1>1 DEF vars
<1>2. ASSUME NEW p \in Procs  PROVE Outdated(p) \subseteq Procs
  BY DEF Outdated
<1>3. ASSUME NEW p \in Procs, Change(p)  PROVE TablesOK'
  <2>1. links' = links /\ stale' \subseteq Procs
    BY <1>2, <1>3 DEF Change, CreateEntry, EnsureEntry, RenameEntry, Statement
  <2>2. rows' \in [Things -> Rows]
    BY <1>3 DEF Change, CreateEntry, EnsureEntry, RenameEntry, Rows
  <2> QED  BY <2>1, <2>2
<1>4. ASSUME NEW p \in Procs, Commit(p)  PROVE TablesOK'
  <2>1. rows' \in [Things -> Rows]  BY <1>4, RowTypes DEF Commit
  <2>2. links' \subseteq Links  BY <1>4, MatchingType DEF Commit
  <2> QED  BY <1>2, <1>4, <2>1, <2>2 DEF Commit
<1>5. ASSUME NEW p \in Procs, DeleteLinks(p) \/ DeleteEntryRow(p)  PROVE TablesOK'
  BY <1>2, <1>5, RowTypes DEF DeleteLinks, DeleteEntryRow
<1>6. ASSUME NEW p \in Procs, Begin(p)  PROVE TablesOK'
  BY <1>6 DEF Begin, SetLinks, ProvisionUser, Register, DeleteUser, DeleteEntry, Open
<1>7. ASSUME NEW p \in Procs,
             \/ GetOwner(p) \/ GetByCode(p) \/ CreateUser(p) \/ CheckSystem(p)
             \/ StartDelete(p) \/ InsertLinks(p) \/ DeleteUserRow(p) \/ Fail(p)
      PROVE  TablesOK'
  BY <1>7 DEF GetOwner, GetByCode, CreateUser, CheckSystem, StartDelete,
     InsertLinks, DeleteUserRow, Fail
<1> QED  BY <1>1, <1>3, <1>4, <1>5, <1>6, <1>7 DEF Next, Advance

LEMMA Invariant == Spec => []IInv
<1>1. IInv /\ [Next]_vars => IInv'
  BY RequestsStep, TablesStep DEF IInv
<1> QED  BY InitInv, <1>1, PTL DEF Spec

\* Whatever the requests do and however many there are, the tables and the
\* open transactions hold what their types say.
THEOREM TypeCorrect == Spec => []TypeOK
  BY Invariant, InvImpliesTypeOK, PTL

-----------------------------------------------------------------------------
(* What the steps of p do, in the words of the invariants below.           *)

\* The others keep their place, but for the rows their running DELETE picked.
Alike(p) ==
    \A q \in Procs \ {p} :
        /\ req'[q].kind = req[q].kind /\ req'[q].pc = req[q].pc
        /\ req'[q].on = req[q].on /\ req'[q].wanted = req[q].wanted
        /\ req'[q].todo = req[q].todo /\ req'[q].found = req[q].found
        /\ draft'[q] = draft[q]

\* p stays with its request, and is at another statement of it.
Proceeds(p, pc) ==
    /\ req'[p].kind = req[p].kind /\ req'[p].on = req[p].on
    /\ req'[p].wanted = req[p].wanted /\ req'[p].todo = req[p].todo
    /\ req'[p].found = req[p].found /\ req'[p].pc = pc

Quiet == UNCHANGED <<rows, links, stale>>
Over(p) == req'[p] = Idle /\ draft'[p] = Blank

LEMMA Typed ==
  ASSUME IInv
  PROVE  /\ req \in [Procs -> RequestRows] /\ draft \in [Procs -> DraftRows]
         /\ rows \in [Things -> Rows] /\ links \subseteq Links /\ stale \subseteq Procs
         /\ \A p \in Procs : /\ OnCourse(req[p]) /\ Written(req[p], draft[p])
                             /\ req[p] \in RequestRows /\ draft[p] \in DraftRows
  BY DEF IInv, RequestsOK, TablesOK

LEMMA UnpickedAlike ==
  ASSUME IInv, NEW p \in Procs, NEW gone, NEW r \in RequestRows,
         req' = Unpick([req EXCEPT ![p] = r], gone),
         NEW d, draft' = [draft EXCEPT ![p] = d]
  PROVE  /\ Alike(p) /\ req'[p] = [r EXCEPT !.picked = @ \ gone]
<1> DEFINE f == [req EXCEPT ![p] = r]
<1>1. f \in [Procs -> RequestRows] /\ \A q \in Procs \ {p} : f[q] = req[q]
  BY Typed
<1>2. f[p] = r
  BY Typed
<1>3. \A q \in Procs : req'[q] = [f[q] EXCEPT !.picked = @ \ gone]
  BY DEF Unpick
<1>4. \A q \in Procs \ {p} : draft'[q] = draft[q]
  BY Typed
<1> HIDE DEF f
<1>5. ASSUME NEW q \in Procs \ {p}
      PROVE  /\ req'[q].kind = req[q].kind /\ req'[q].pc = req[q].pc
             /\ req'[q].on = req[q].on /\ req'[q].wanted = req[q].wanted
             /\ req'[q].todo = req[q].todo /\ req'[q].found = req[q].found
  <2>1. req'[q] = [req[q] EXCEPT !.picked = @ \ gone] /\ req[q] \in RequestRows
    BY <1>1, <1>3
  <2> QED
    BY <2>1 DEF RequestRows
<1> QED
  BY <1>2, <1>3, <1>4, <1>5 DEF Alike

LEMMA UnpickedIdle ==
  ASSUME IInv, NEW p \in Procs, NEW gone, req' = Unpick([req EXCEPT ![p] = Idle], gone),
         NEW d, draft' = [draft EXCEPT ![p] = d]
  PROVE  Alike(p) /\ req'[p] = Idle
<1>1. Idle \in RequestRows
  BY RowTypes
<1>2. Alike(p) /\ req'[p] = [Idle EXCEPT !.picked = @ \ gone]
  BY <1>1, UnpickedAlike
<1> QED
  BY <1>2 DEF Idle

LEMMA MovedAlike ==
  ASSUME IInv, NEW p \in Procs, NEW r, req' = [req EXCEPT ![p] = r],
         NEW d, draft' = [draft EXCEPT ![p] = d]
  PROVE  Alike(p) /\ req'[p] = r /\ draft'[p] = d
  BY Typed DEF Alike

LEMMA GotoFacts ==
  ASSUME IInv, NEW p \in Procs, NEW pc, Goto(p, pc),
         NEW d, draft' = [draft EXCEPT ![p] = d]
  PROVE  Alike(p) /\ Proceeds(p, pc) /\ draft'[p] = d
<1>1. req' = [req EXCEPT ![p] = [req[p] EXCEPT !.pc = pc]]
  BY DEF Goto
<1>2. Alike(p) /\ req'[p] = [req[p] EXCEPT !.pc = pc] /\ draft'[p] = d
  BY <1>1, MovedAlike
<1>3. Proceeds(p, pc)
  BY <1>2, Typed DEF Proceeds, RequestRows
<1> QED
  BY <1>2, <1>3

LEMMA GiveUpFacts ==
  ASSUME IInv, NEW p \in Procs, GiveUp(p)
  PROVE  Alike(p) /\ Over(p)
  BY MovedAlike DEF GiveUp, Over

LEMMA StillDraft ==
  ASSUME IInv, NEW p \in Procs, draft' = draft
  PROVE  draft' = [draft EXCEPT ![p] = draft[p]]
  BY Typed

LEMMA ChangeFacts ==
  ASSUME IInv, NEW p \in Procs, Change(p)
  PROVE  /\ req[p].kind = "idle" /\ UNCHANGED <<req, draft, links>>
         /\ stale' = Outdated(p) /\ Alike(p)
         /\ \/ \E e \in Entries, c \in Codes, system \in BOOLEAN :
                  CreateEntry(p, e, c, system)
            \/ \E e \in Entries, system \in BOOLEAN : EnsureEntry(p, e, system)
            \/ \E e \in Entries, c \in Codes : RenameEntry(p, e, c)
<1>1. /\ req[p].pc = "idle" /\ UNCHANGED <<req, draft, links>> /\ stale' = Outdated(p)
  BY DEF Change, CreateEntry, EnsureEntry, RenameEntry, Statement
<1>2. req[p].kind = "idle"
  BY <1>1, KindAt DEF IInv
<1> QED
  BY <1>1, <1>2 DEF Alike, Change

LEMMA OpenFacts ==
  ASSUME IInv, NEW p \in Procs, Begin(p)
  PROVE  /\ Quiet /\ Alike(p) /\ draft[p] = Blank /\ draft'[p] = Blank
         /\ req[p] = Idle /\ req'[p].kind # "idle"
         /\ req'[p].todo = req'[p].wanted /\ req'[p].found = {}
         /\ req'[p].pc \in {"owner", "lookup", "born", "check"}
         /\ req'[p].kind \in {"replace", "dropUser"} => req'[p].pc = "owner"
         /\ req'[p].kind \in {"provision", "register"} => req'[p].on \in Unclaimed
         /\ \/ req'[p].kind = "replace" /\ req'[p].on \in Owners
               /\ req'[p].wanted \in SUBSET Codes
            \/ req'[p].kind = "provision" /\ req'[p].on \in Users
               /\ req'[p].wanted \in SUBSET Codes
            \/ req'[p].kind = "register" /\ req'[p].on \in Users
               /\ req'[p].wanted = DefaultCodes
            \/ req'[p].kind = "dropUser" /\ req'[p].on \in Users /\ req'[p].wanted = {}
            \/ req'[p].kind = "dropEntry" /\ req'[p].on \in Entries
               /\ req'[p].wanted = {}
<1>1. \E kind, pc, on, wanted :
        /\ Open(p, kind, pc, on, wanted)
        /\ \/ kind = "replace" /\ pc = "owner" /\ on \in Owners
              /\ wanted \in SUBSET Codes
           \/ kind = "provision" /\ pc = "lookup" /\ on \in Unclaimed
              /\ wanted \in SUBSET Codes
           \/ kind = "register" /\ pc = "born" /\ on \in Unclaimed
              /\ wanted = DefaultCodes
           \/ kind = "dropUser" /\ pc = "owner" /\ on \in Users /\ wanted = {}
           \/ kind = "dropEntry" /\ pc = "check" /\ on \in Entries /\ wanted = {}
  BY DEF Begin, SetLinks, ProvisionUser, Register, DeleteUser, DeleteEntry
<1>2. PICK kind, pc, on, wanted :
        /\ Open(p, kind, pc, on, wanted)
        /\ \/ kind = "replace" /\ pc = "owner" /\ on \in Owners
              /\ wanted \in SUBSET Codes
           \/ kind = "provision" /\ pc = "lookup" /\ on \in Unclaimed
              /\ wanted \in SUBSET Codes
           \/ kind = "register" /\ pc = "born" /\ on \in Unclaimed
              /\ wanted = DefaultCodes
           \/ kind = "dropUser" /\ pc = "owner" /\ on \in Users /\ wanted = {}
           \/ kind = "dropEntry" /\ pc = "check" /\ on \in Entries /\ wanted = {}
  BY <1>1
<1> DEFINE r == [kind |-> kind, pc |-> pc, on |-> on, wanted |-> wanted,
                 todo |-> wanted, found |-> {}, picked |-> {}]
<1>3. /\ req[p].pc = "idle" /\ req' = [req EXCEPT ![p] = r] /\ Quiet /\ draft' = draft
  BY <1>2 DEF Open, Quiet
<1>4. req[p] = Idle /\ draft[p] = Blank
  <2>1. RequestsOK  BY DEF IInv
  <2>2. req[p].kind = "idle" /\ req[p] = Idle  BY <1>3, <2>1, KindAt
  <2> QED  BY <2>1, <2>2, KindAt DEF InTx
<1>6. Unclaimed \subseteq Users
  BY DEF Unclaimed
<1>9. /\ r.kind = kind /\ r.pc = pc /\ r.on = on
      /\ r.wanted = wanted /\ r.todo = wanted /\ r.found = {}
  OBVIOUS
<1> HIDE DEF r
<1>5. Alike(p) /\ req'[p] = r /\ draft'[p] = Blank
  <2>1. draft' = [draft EXCEPT ![p] = draft[p]]
    BY <1>3, StillDraft
  <2> QED
    BY <1>3, <1>4, <2>1, MovedAlike
<1>7. /\ req'[p].kind = kind /\ req'[p].pc = pc /\ req'[p].on = on
      /\ req'[p].wanted = wanted /\ req'[p].todo = wanted /\ req'[p].found = {}
  BY <1>5, <1>9
<1>8. /\ req'[p].kind # "idle"
      /\ req'[p].pc \in {"owner", "lookup", "born", "check"}
      /\ req'[p].kind \in {"replace", "dropUser"} => req'[p].pc = "owner"
      /\ req'[p].kind \in {"provision", "register"} => req'[p].on \in Unclaimed
  BY <1>2, <1>7
<1>10. \/ kind = "replace" /\ on \in Owners /\ wanted \in SUBSET Codes
       \/ kind = "provision" /\ on \in Users /\ wanted \in SUBSET Codes
       \/ kind = "register" /\ on \in Users /\ wanted = DefaultCodes
       \/ kind = "dropUser" /\ on \in Users /\ wanted = {}
       \/ kind = "dropEntry" /\ on \in Entries /\ wanted = {}
  BY <1>2, <1>6
<1> QED
  BY <1>3, <1>4, <1>5, <1>7, <1>8, <1>10

\* p writes the fields of its draft that a statement names.
Keeps(p, fields) ==
    /\ "born" \in fields => draft'[p].born = draft[p].born
    /\ "gone" \in fields => draft'[p].gone = draft[p].gone
    /\ "added" \in fields => draft'[p].added = draft[p].added
    /\ "removed" \in fields => draft'[p].removed = draft[p].removed

LEMMA GetOwnerFacts ==
  ASSUME IInv, NEW p \in Procs, GetOwner(p)
  PROVE  /\ Quiet /\ Alike(p) /\ req[p].pc = "owner" /\ p \notin stale
         /\ \/ Over(p)
            \/ /\ Sees(p, req[p].on) /\ draft'[p] = draft[p]
               /\ \E pc \in {"pick", "lookup"} : Proceeds(p, pc)
<1>1. Quiet /\ req[p].pc = "owner" /\ p \notin stale
  BY DEF GetOwner, At, Quiet
<1>2. CASE GiveUp(p)
  BY <1>1, <1>2, GiveUpFacts
<1>3. CASE ~GiveUp(p)
  <2>1. Sees(p, req[p].on) /\ draft' = draft /\ \E pc \in {"pick", "lookup"} : Goto(p, pc)
    BY <1>3 DEF GetOwner
  <2> QED
    BY <1>1, <2>1, GotoFacts, StillDraft
<1> QED
  BY <1>2, <1>3

Hits(p, c) == {t \in TargetTable(req[p].on) : Present(t) /\ rows[t].code = c}

LEMMA GetByCodeFacts ==
  ASSUME IInv, NEW p \in Procs, GetByCode(p)
  PROVE  /\ Quiet /\ Alike(p) /\ req[p].pc = "lookup" /\ req[p].kind \in Assigning
         /\ p \notin stale
         /\ \/ Over(p)
            \/ /\ draft'[p] = draft[p] /\ req'[p].kind = req[p].kind
               /\ req'[p].on = req[p].on /\ req'[p].wanted = req[p].wanted
               /\ req'[p].pc \in {"lookup", "born", "pick"}
               /\ \E c \in req[p].todo :
                     /\ Hits(p, c) # {} /\ req'[p].todo = req[p].todo \ {c}
                     /\ req'[p].found = req[p].found \cup Hits(p, c)
<1>1. Quiet /\ req[p].pc = "lookup" /\ p \notin stale
  BY DEF GetByCode, At, Quiet
<1>2. req[p].kind \in Assigning
  <2>1. RequestsOK  BY DEF IInv
  <2> QED  BY <1>1, <2>1, KindAt DEF StepsOf, Kinds, Assigning
<1>3. PICK c \in req[p].todo :
        LET rest == req[p].todo \ {c} IN
        IF Hits(p, c) = {} THEN GiveUp(p)
        ELSE /\ req' = [req EXCEPT ![p].found = @ \cup Hits(p, c), ![p].todo = rest,
                            ![p].pc = IF rest # {} THEN "lookup"
                                      ELSE IF req[p].kind = "provision" THEN "born"
                                      ELSE "pick"]
             /\ UNCHANGED draft
  BY DEF GetByCode, Hits
<1>4. CASE Hits(p, c) = {}
  BY <1>1, <1>2, <1>3, <1>4, GiveUpFacts
<1>5. CASE Hits(p, c) # {}
  <2> DEFINE rest == req[p].todo \ {c}
             pc == IF rest # {} THEN "lookup"
                   ELSE IF req[p].kind = "provision" THEN "born" ELSE "pick"
             r == [req[p] EXCEPT !.found = @ \cup Hits(p, c), !.todo = rest, !.pc = pc]
  <2>1. req' = [req EXCEPT ![p] = r] /\ draft' = draft
    BY <1>3, <1>5
  <2>2. pc \in {"lookup", "born", "pick"}
    OBVIOUS
  <2>3. /\ r.kind = req[p].kind /\ r.on = req[p].on /\ r.wanted = req[p].wanted
        /\ r.pc = pc /\ r.todo = rest /\ r.found = req[p].found \cup Hits(p, c)
    BY Typed DEF RequestRows
  <2> HIDE DEF r, pc
  <2>4. draft' = [draft EXCEPT ![p] = draft[p]]
    BY <2>1, StillDraft
  <2>5. Alike(p) /\ req'[p] = r /\ draft'[p] = draft[p]
    BY <2>1, <2>4, MovedAlike
  <2> QED
    BY <1>1, <1>2, <1>5, <2>2, <2>3, <2>5
<1> QED
  BY <1>4, <1>5

LEMMA CreateUserFacts ==
  ASSUME IInv, NEW p \in Procs, CreateUser(p)
  PROVE  /\ Quiet /\ Alike(p) /\ req[p].kind \in {"provision", "register"}
         /\ req[p].pc = "born"
         /\ Proceeds(p, AfterBorn(p)) /\ AfterBorn(p) \in {"pick", "commit", "owner"}
         /\ draft'[p].born = {req[p].on} /\ Keeps(p, {"gone", "added", "removed"})
<1> DEFINE d == [draft[p] EXCEPT !.born = {req[p].on}]
<1>1. /\ Quiet /\ req[p].pc = "born" /\ Goto(p, AfterBorn(p))
      /\ draft' = [draft EXCEPT ![p] = d]
  BY Typed DEF CreateUser, At, Quiet
<1>2. req[p].kind \in {"provision", "register"}
  <2>1. RequestsOK  BY DEF IInv
  <2> QED  BY <1>1, <2>1, KindAt DEF StepsOf, Kinds
<1>3. d.born = {req[p].on} /\ d.gone = draft[p].gone /\ d.added = draft[p].added
      /\ d.removed = draft[p].removed
  BY Typed DEF DraftRows
<1> HIDE DEF d
<1>4. Alike(p) /\ Proceeds(p, AfterBorn(p)) /\ draft'[p] = d
  BY <1>1, GotoFacts
<1>5. AfterBorn(p) \in {"pick", "commit", "owner"}
  BY DEF AfterBorn
<1> QED
  BY <1>1, <1>2, <1>3, <1>4, <1>5 DEF Keeps

LEMMA CheckFacts ==
  ASSUME IInv, NEW p \in Procs, CheckSystem(p)
  PROVE  /\ Quiet /\ Alike(p) /\ req[p].kind = "dropEntry" /\ draft[p] = Blank
         /\ draft'[p] = Blank
         /\ \/ req'[p] = Idle
            \/ \E pc \in {"pick", "pickTarget"} : Proceeds(p, pc)
<1>1. Quiet /\ req[p].pc = "check" /\ draft' = draft
  BY DEF CheckSystem, At, Quiet
<1>2. req[p].kind = "dropEntry" /\ draft[p] = Blank
  <2>1. RequestsOK  BY DEF IInv
  <2>2. req[p].kind = "dropEntry"  BY <1>1, <2>1, KindAt DEF StepsOf, Kinds
  <2> QED  BY <2>1, <2>2, KindAt DEF InTx
<1>3. \/ req' = [req EXCEPT ![p] = Idle]
      \/ \E pc \in {"pick", "pickTarget"} : Goto(p, pc)
  BY DEF CheckSystem
<1>4. draft' = [draft EXCEPT ![p] = draft[p]]
  BY <1>1, StillDraft
<1>5. CASE req' = [req EXCEPT ![p] = Idle]
  <2>1. Alike(p) /\ req'[p] = Idle /\ draft'[p] = draft[p]
    BY <1>4, <1>5, MovedAlike
  <2> QED
    BY <1>1, <1>2, <2>1
<1>6. ASSUME NEW pc \in {"pick", "pickTarget"}, Goto(p, pc)
      PROVE  Alike(p) /\ Proceeds(p, pc) /\ draft'[p] = draft[p]
  BY <1>4, <1>6, GotoFacts
<1> QED
  BY <1>1, <1>2, <1>3, <1>5, <1>6

LEMMA StartDeleteFacts ==
  ASSUME IInv, NEW p \in Procs, StartDelete(p)
  PROVE  /\ Quiet /\ Alike(p) /\ draft'[p] = draft[p] /\ p \notin stale
         /\ req[p].pc \in {"pick", "pickTarget"}
         /\ Proceeds(p, IF req[p].pc = "pick" THEN "wipe" ELSE "wipeTarget")
<1> DEFINE pc == IF req[p].pc = "pick" THEN "wipe" ELSE "wipeTarget"
           r == [req[p] EXCEPT !.picked = Matching(p), !.pc = pc]
<1>1. /\ req' = [req EXCEPT ![p] = r] /\ draft' = draft /\ Quiet
      /\ req[p].pc \in {"pick", "pickTarget"} /\ p \notin stale
  BY Typed DEF StartDelete, At, Quiet
<1>2. /\ r.kind = req[p].kind /\ r.on = req[p].on /\ r.wanted = req[p].wanted
      /\ r.todo = req[p].todo /\ r.found = req[p].found /\ r.pc = pc
  BY Typed DEF RequestRows
<1> HIDE DEF r
<1>3. draft' = [draft EXCEPT ![p] = draft[p]]
  BY <1>1, StillDraft
<1>4. Alike(p) /\ req'[p] = r /\ draft'[p] = draft[p]
  BY <1>1, <1>3, MovedAlike
<1> QED
  BY <1>1, <1>2, <1>4 DEF Proceeds

LEMMA DeleteLinksFacts ==
  ASSUME IInv, NEW p \in Procs, DeleteLinks(p)
  PROVE  /\ Alike(p) /\ p \notin stale /\ rows' = rows /\ Proceeds(p, AfterWipe(p))
         /\ \/ /\ req[p].kind \in InTx /\ req[p].pc = "wipe" /\ Quiet
               /\ draft'[p].removed = draft[p].removed \cup Doomed(p)
               /\ Keeps(p, {"born", "gone", "added"})
            \/ /\ req[p].kind = "dropEntry" /\ req[p].pc \in {"wipe", "wipeTarget"}
               /\ draft[p] = Blank /\ draft'[p] = Blank
               /\ links' = links \ Doomed(p) /\ stale' = Outdated(p)
<1> DEFINE pc == AfterWipe(p)
           r == [req[p] EXCEPT !.pc = pc, !.picked = {}]
           d == [draft[p] EXCEPT !.removed = @ \cup Doomed(p)]
<1>1. /\ req[p].pc \in {"wipe", "wipeTarget"} /\ p \notin stale /\ rows' = rows
      /\ req[p].kind \in InTx => /\ req' = [req EXCEPT ![p] = r]
                                 /\ draft' = [draft EXCEPT ![p] = d]
                                 /\ UNCHANGED <<links, stale>>
      /\ req[p].kind \notin InTx =>
            /\ req' = Unpick([req EXCEPT ![p] = r], Doomed(p))
            /\ draft' = draft /\ links' = links \ Doomed(p) /\ stale' = Outdated(p)
  BY Typed DEF DeleteLinks, At
<1>2. /\ req[p].kind \in InTx => req[p].pc = "wipe"
      /\ req[p].kind \notin InTx => req[p].kind = "dropEntry" /\ draft[p] = Blank
  <2>1. RequestsOK  BY DEF IInv
  <2> QED  BY <1>1, <2>1, KindAt DEF StepsOf, Kinds, InTx
<1>3. /\ r.kind = req[p].kind /\ r.on = req[p].on /\ r.wanted = req[p].wanted
      /\ r.todo = req[p].todo /\ r.found = req[p].found /\ r.pc = pc
  BY Typed DEF RequestRows
<1>4. /\ d.born = draft[p].born /\ d.gone = draft[p].gone
      /\ d.added = draft[p].added /\ d.removed = draft[p].removed \cup Doomed(p)
  BY Typed DEF DraftRows
<1>5. CASE req[p].kind \in InTx
  <2> HIDE DEF r, d, pc
  <2>1. Alike(p) /\ req'[p] = r /\ draft'[p] = d
    BY <1>1, <1>5, MovedAlike
  <2>2. Proceeds(p, pc)
    BY <1>3, <2>1 DEF Proceeds
  <2> QED
    BY <1>1, <1>2, <1>4, <1>5, <2>1, <2>2 DEF Keeps, Quiet, pc
<1>6. CASE req[p].kind \notin InTx
  <2>1. r \in RequestRows
    <3>1. pc \in Steps
      BY <1>1, <1>2, <1>6 DEF AfterWipe, Steps
    <3> HIDE DEF pc
    <3> QED
      BY <3>1, Typed DEF RequestRows
  <2> HIDE DEF r, d, pc
  <2>2. draft' = [draft EXCEPT ![p] = draft[p]]
    BY <1>1, <1>6, StillDraft
  <2>3. Alike(p) /\ req'[p] = [r EXCEPT !.picked = @ \ Doomed(p)]
    BY <1>1, <1>6, <2>1, <2>2, UnpickedAlike
  <2>4. Proceeds(p, pc)
    BY <1>3, <2>1, <2>3 DEF Proceeds, RequestRows
  <2> QED
    BY <1>1, <1>2, <1>6, <2>3, <2>4 DEF pc
<1> QED
  BY <1>5, <1>6

LEMMA InsertLinksFacts ==
  ASSUME IInv, NEW p \in Procs, InsertLinks(p)
  PROVE  /\ Quiet /\ Alike(p) /\ req[p].kind \in Assigning /\ req[p].pc = "bind"
         /\ p \notin stale
         /\ \/ Over(p)
            \/ /\ Proceeds(p, "commit") /\ Keeps(p, {"born", "gone", "removed"})
               /\ draft'[p].added = LinksOf(req[p].on, req[p].found)
               /\ Deleters(p, req[p].on) = {}
               /\ ForeignKeys => \A x \in {req[p].on} \cup req[p].found : Sees(p, x)
<1> DEFINE new == LinksOf(req[p].on, req[p].found)
           d == [draft[p] EXCEPT !.added = new]
<1>1. Quiet /\ req[p].pc = "bind" /\ p \notin stale
  BY DEF InsertLinks, At, Quiet
<1>2. req[p].kind \in Assigning
  <2>1. RequestsOK  BY DEF IInv
  <2> QED  BY <1>1, <2>1, KindAt DEF StepsOf, Kinds, Assigning
<1>3. CASE GiveUp(p)
  BY <1>1, <1>2, <1>3, GiveUpFacts
<1>4. CASE ~GiveUp(p)
  <2>1. /\ Goto(p, "commit") /\ draft' = [draft EXCEPT ![p] = d]
        /\ Deleters(p, req[p].on) = {}
        /\ ForeignKeys => \A x \in {req[p].on} \cup req[p].found : Sees(p, x)
    BY <1>4, Typed DEF InsertLinks
  <2>2. /\ d.born = draft[p].born /\ d.gone = draft[p].gone
        /\ d.added = new /\ d.removed = draft[p].removed
    BY Typed DEF DraftRows
  <2> HIDE DEF d, new
  <2>3. Alike(p) /\ Proceeds(p, "commit") /\ draft'[p] = d
    BY <2>1, GotoFacts
  <2> QED
    BY <1>1, <1>2, <2>1, <2>2, <2>3 DEF Keeps, new
<1> QED
  BY <1>3, <1>4

LEMMA DeleteEntryRowFacts ==
  ASSUME IInv, NEW p \in Procs, DeleteEntryRow(p)
  PROVE  /\ Alike(p) /\ req[p].kind = "dropEntry" /\ RowIsFree(p)
         /\ req[p].on \in Entries /\ draft[p] = Blank /\ draft'[p] = Blank
         /\ req'[p] = Idle /\ p \notin stale
         /\ \/ /\ Present(req[p].on) /\ rows' = [rows EXCEPT ![req[p].on] = Gone]
               /\ links' = links \ Cascade(p, req[p].on) /\ stale' = Outdated(p)
            \/ ~Present(req[p].on) /\ Quiet
<1>1. /\ req[p].kind = "dropEntry" /\ RowIsFree(p) /\ draft' = draft /\ p \notin stale
  BY DEF DeleteEntryRow, At
<1>2. req[p].on \in Entries
  BY <1>1, Typed DEF OnCourse
<1>3. draft[p] = Blank
  BY <1>1, KindAt DEF IInv, InTx
<1>4. draft' = [draft EXCEPT ![p] = draft[p]]
  BY <1>1, StillDraft
<1>5. CASE Present(req[p].on)
  <2>1. /\ rows' = [rows EXCEPT ![req[p].on] = Gone]
        /\ links' = links \ Cascade(p, req[p].on) /\ stale' = Outdated(p)
        /\ req' = Unpick([req EXCEPT ![p] = Idle], Cascade(p, req[p].on))
    BY <1>5 DEF DeleteEntryRow
  <2>2. Alike(p) /\ req'[p] = Idle
    BY <1>4, <2>1, UnpickedIdle
  <2>3. draft'[p] = Blank
    BY <1>1, <1>3
  <2> QED
    BY <1>1, <1>2, <1>3, <1>5, <2>1, <2>2, <2>3
<1>6. CASE ~Present(req[p].on)
  <2>1. req' = [req EXCEPT ![p] = Idle] /\ Quiet
    BY <1>6 DEF DeleteEntryRow, Quiet
  <2>2. Alike(p) /\ req'[p] = Idle /\ draft'[p] = draft[p]
    BY <1>4, <2>1, MovedAlike
  <2> QED
    BY <1>1, <1>2, <1>3, <1>6, <2>1, <2>2
<1> QED
  BY <1>5, <1>6

LEMMA DeleteUserRowFacts ==
  ASSUME IInv, NEW p \in Procs, DeleteUserRow(p)
  PROVE  /\ Quiet /\ Alike(p) /\ req[p].kind = "dropUser" /\ req[p].pc = "row"
         /\ RowIsFree(p) /\ p \notin stale
         /\ \/ Over(p)
            \/ /\ Proceeds(p, "commit") /\ Keeps(p, {"born", "added"})
               /\ Sees(p, req[p].on) /\ draft'[p].gone = {req[p].on}
               /\ draft'[p].removed = draft[p].removed \cup Cascade(p, req[p].on)
<1> DEFINE d == [draft[p] EXCEPT !.gone = {req[p].on},
                                 !.removed = @ \cup Cascade(p, req[p].on)]
<1>1. /\ Quiet /\ req[p].pc = "row" /\ p \notin stale /\ req[p].kind = "dropUser"
      /\ RowIsFree(p)
  BY DEF DeleteUserRow, At, Quiet
<1>3. CASE GiveUp(p)
  BY <1>1, <1>3, GiveUpFacts
<1>4. CASE ~GiveUp(p)
  <2>1. /\ Goto(p, "commit") /\ draft' = [draft EXCEPT ![p] = d]
        /\ Sees(p, req[p].on)
    BY <1>4, Typed DEF DeleteUserRow
  <2>2. /\ d.born = draft[p].born /\ d.gone = {req[p].on} /\ d.added = draft[p].added
        /\ d.removed = draft[p].removed \cup Cascade(p, req[p].on)
    BY Typed DEF DraftRows
  <2> HIDE DEF d
  <2>3. Alike(p) /\ Proceeds(p, "commit") /\ draft'[p] = d
    BY <2>1, GotoFacts
  <2> QED
    BY <1>1, <2>1, <2>2, <2>3 DEF Keeps
<1> QED
  BY <1>3, <1>4

LEMMA CommitFacts ==
  ASSUME IInv, NEW p \in Procs, Commit(p)
  PROVE  /\ Alike(p) /\ Over(p) /\ req[p].kind \in InTx /\ req[p].pc = "commit"
         /\ p \notin stale
         /\ rows' = [x \in Things |-> CASE x \in draft[p].gone -> Gone
                                        [] x \in draft[p].born -> UserRow
                                        [] OTHER -> rows[x]]
         /\ links' = SeesLinks(p)
         /\ stale' = IF draft[p] = Blank THEN stale ELSE Outdated(p)
<1>1. /\ req[p].pc = "commit" /\ p \notin stale
      /\ rows' = [x \in Things |-> CASE x \in draft[p].gone -> Gone
                                     [] x \in draft[p].born -> UserRow
                                     [] OTHER -> rows[x]]
      /\ links' = SeesLinks(p)
      /\ stale' = IF draft[p] = Blank THEN stale ELSE Outdated(p)
      /\ req' = Unpick([req EXCEPT ![p] = Idle], draft[p].removed)
      /\ draft' = [draft EXCEPT ![p] = Blank]
  BY DEF Commit, At
<1>2. req[p].kind \in InTx
  <2>1. RequestsOK  BY DEF IInv
  <2> QED  BY <1>1, <2>1, KindAt DEF StepsOf, Kinds, InTx
<1>3. Alike(p) /\ req'[p] = Idle
  BY <1>1, UnpickedIdle
<1>4. draft'[p] = Blank
  BY <1>1, Typed
<1> QED
  BY <1>1, <1>2, <1>3, <1>4 DEF Over

LEMMA FailFacts ==
  ASSUME IInv, NEW p \in Procs, Fail(p)
  PROVE  Alike(p) /\ Over(p) /\ UNCHANGED <<rows, links>> /\ stale' = stale \ {p}
         /\ req[p].pc # "idle"
  BY GiveUpFacts DEF Fail

-----------------------------------------------------------------------------
(* The declared keys.                                                      *)

\* What a transaction has added refers to rows that are there, or to its own user;
\* and nobody holds or adds what refers to a user whose deletion is about to commit.
Keyed(p) ==
    /\ \A l \in draft[p].added : /\ Present(l[1]) \/ l[1] \in draft[p].born
                                 /\ Present(l[2])
    /\ \A x \in draft[p].gone :
          /\ \A l \in links : l[1] = x => l \in draft[p].removed
          /\ \A q \in Procs : draft[q].added \cap Touching(x) = {}
Keys == NoDanglingLinks /\ \A p \in Procs : Keyed(p)

LEMMA QuietKeys ==
  ASSUME Keys, NEW p \in Procs, UNCHANGED <<rows, links>>, Alike(p),
         draft'[p].added \subseteq draft[p].added, draft'[p].gone \subseteq draft[p].gone,
         draft'[p].added = {} \/ draft[p].born \subseteq draft'[p].born,
         draft'[p].gone = {} \/ draft[p].removed \subseteq draft'[p].removed
  PROVE  Keys'
<1>1. \A q \in Procs : draft'[q].added \subseteq draft[q].added
  BY DEF Alike
<1>2. NoDanglingLinks'
  BY DEF Keys, NoDanglingLinks, Present
<1>3. Keyed(p)'
  BY <1>1 DEF Keys, Keyed, Present
<1>4. ASSUME NEW q \in Procs \ {p} PROVE Keyed(q)'
  <2>1. Keyed(q) /\ draft'[q] = draft[q]
    BY DEF Keys, Alike
  <2> QED
    BY <1>1, <2>1 DEF Keyed, Present
<1> QED
  BY <1>2, <1>3, <1>4 DEF Keys

LEMMA SameKeys ==
  ASSUME Keys, NEW p \in Procs, UNCHANGED <<rows, links>>, Alike(p),
         draft'[p] = draft[p] \/ draft'[p] = Blank
  PROVE  Keys'
  BY QuietKeys DEF Blank

\* A step that changes the tables leaves p without a draft.
LEMMA TableKeys ==
  ASSUME Keys, NEW p \in Procs, Alike(p), draft'[p] = Blank, NoDanglingLinks',
         \A q \in Procs \ {p} : \A l \in draft[q].added :
            /\ Present(l[1]) => Present(l[1])'
            /\ Present(l[2]) => Present(l[2])',
         \A q \in Procs \ {p} : \A x \in draft[q].gone, l \in links' \ links : l[1] # x
  PROVE  Keys'
<1>1. draft'[p].added = {} /\ draft'[p].gone = {}
  BY DEF Blank
<1>2. Keyed(p)'
  BY <1>1 DEF Keyed
<1>3. ASSUME NEW q \in Procs \ {p} PROVE Keyed(q)'
  <2>1. Keyed(q) /\ draft'[q] = draft[q]
    BY DEF Keys, Alike
  <2>2. \A o \in Procs : draft'[o].added \subseteq draft[o].added
    BY <1>1 DEF Alike
  <2>3. \A l \in draft'[q].added : /\ Present(l[1])' \/ l[1] \in draft'[q].born
                                   /\ Present(l[2])'
    BY <2>1 DEF Keyed
  <2>4. ASSUME NEW x \in draft'[q].gone
        PROVE  /\ \A l \in links' : l[1] = x => l \in draft'[q].removed
               /\ \A o \in Procs : draft'[o].added \cap Touching(x) = {}
    BY <2>1, <2>2, <2>4 DEF Keyed
  <2> QED
    BY <2>3, <2>4 DEF Keyed
<1> QED
  BY <1>2, <1>3 DEF Keys

\* What a request that commits has written.
LEMMA CommitWrites ==
  ASSUME IInv, NEW p \in Procs, req[p].pc = "commit"
  PROVE  /\ req[p].kind \in Assigning =>
              /\ draft[p].added = LinksOf(req[p].on, req[p].found)
              /\ draft[p].gone = {} /\ req[p].todo = {}
         /\ req[p].kind = "replace" => draft[p].born = {} /\ req[p].on \in Owners
         /\ req[p].kind \in {"provision", "register"} =>
              draft[p].born = {req[p].on} /\ req[p].on \in Users
         /\ req[p].kind = "dropUser" =>
              /\ draft[p].added = {} /\ draft[p].born = {} /\ draft[p].gone = {req[p].on}
              /\ req[p].on \in Users
         /\ req[p].kind \in Assigning \cup {"dropUser"}
<1>1. req[p].kind \in Assigning \cup {"dropUser"}
  <2>1. RequestsOK  BY DEF IInv
  <2> QED  BY <2>1, KindAt DEF StepsOf, Kinds, Assigning
<1>2. OnCourse(req[p]) /\ Written(req[p], draft[p])
  BY Typed
<1>3. req[p].kind \in Assigning => req[p].todo = {}
  BY <1>2 DEF OnCourse
<1>4. req[p].kind \in {"provision", "register"} => Born(req[p])
  BY DEF Born
<1>5. req[p].kind \in {"replace", "dropUser"} => ~Born(req[p])
  BY DEF Born
<1>6. /\ req[p].kind = "replace" => req[p].on \in Owners
      /\ req[p].kind \in {"provision", "register", "dropUser"} => req[p].on \in Users
  BY <1>2 DEF OnCourse
<1> QED
  BY <1>1, <1>2, <1>3, <1>4, <1>5, <1>6 DEF Written, Assigning

LEMMA InsertKeys ==
  ASSUME IInv, Keys, ForeignKeys, NEW p \in Procs, InsertLinks(p)
  PROVE  Keys'
<1>1. CASE Over(p)
  BY <1>1, InsertLinksFacts, SameKeys DEF Over, Quiet
<1>2. CASE ~Over(p)
  <2> DEFINE new == LinksOf(req[p].on, req[p].found)
  <2>1. /\ UNCHANGED <<rows, links>> /\ Alike(p) /\ req[p].kind \in Assigning
        /\ Keeps(p, {"born", "gone", "removed"}) /\ draft'[p].added = new
        /\ Deleters(p, req[p].on) = {}
        /\ \A x \in {req[p].on} \cup req[p].found : Sees(p, x)
    BY <1>2, InsertLinksFacts DEF Quiet
  <2>2. /\ draft'[p].born = draft[p].born /\ draft'[p].gone = draft[p].gone
        /\ draft'[p].removed = draft[p].removed
    BY <2>1 DEF Keeps
  <2>3. /\ draft[p].born \subseteq Users /\ draft[p].gone = {}
        /\ req[p].found \subseteq Entries
    BY <2>1, Typed DEF Written, DraftRows, RequestRows, Assigning
  <2>4. \A l \in new : l[1] = req[p].on /\ l[2] \in req[p].found
    BY DEF LinksOf
  <2>5. NoDanglingLinks'
    BY <2>1 DEF Keys, NoDanglingLinks, Present
  <2>6. Keyed(p)'
    <3>1. \A l \in new : /\ Present(l[1]) \/ l[1] \in draft[p].born
                         /\ Present(l[2])
      BY <2>1, <2>3, <2>4, TablesAreDisjoint DEF Sees, Entries
    <3> QED
      BY <2>1, <2>2, <2>3, <3>1 DEF Keyed, Present
  <2>7. ASSUME NEW q \in Procs \ {p} PROVE Keyed(q)'
    <3>1. Keyed(q) /\ draft'[q] = draft[q] /\ draft[q].gone \subseteq Users
      BY <2>1, Typed DEF Keys, Alike, DraftRows
    <3>2. ASSUME NEW x \in draft[q].gone PROVE new \cap Touching(x) = {}
      <4>1. x # req[p].on /\ x \notin Entries
        BY <2>1, <3>1, <3>2, TablesAreDisjoint DEF Deleters, Entries
      <4> QED
        BY <2>3, <2>4, <4>1 DEF Touching
    <3>3. ASSUME NEW x \in draft[q].gone, NEW o \in Procs
          PROVE  draft'[o].added \cap Touching(x) = {}
      BY <2>1, <3>1, <3>2, <3>3 DEF Keyed, Alike
    <3> QED
      BY <2>1, <3>1, <3>3 DEF Keyed, Present
  <2> QED
    BY <2>5, <2>6, <2>7 DEF Keys
<1> QED
  BY <1>1, <1>2

LEMMA DeleteUserRowKeys ==
  ASSUME IInv, Keys, ForeignKeys, NEW p \in Procs, DeleteUserRow(p)
  PROVE  Keys'
<1>1. CASE Over(p)
  BY <1>1, DeleteUserRowFacts, SameKeys DEF Over, Quiet
<1>2. CASE ~Over(p)
  <2> DEFINE u == req[p].on
  <2>1. /\ UNCHANGED <<rows, links>> /\ Alike(p) /\ req[p].kind = "dropUser"
        /\ Keeps(p, {"born", "added"}) /\ draft'[p].gone = {u}
        /\ draft'[p].removed = draft[p].removed \cup Cascade(p, u)
        /\ KeySharers(p, u) = {}
    BY <1>2, DeleteUserRowFacts DEF Quiet, RowIsFree
  <2>2. draft[p].added = {} /\ draft'[p].added = {}
    BY <2>1, Typed DEF Written, Keeps, Assigning
  <2>3. links \subseteq Links
    BY Typed
  <2>4. ASSUME NEW l \in links, l[1] = u PROVE l \in draft'[p].removed
    <3>1. l \in Touching(u)
      BY <2>3, <2>4 DEF Touching
    <3> QED
      BY <2>1, <2>4, <3>1 DEF Cascade, SeesLinks
  <2>5. \A q \in Procs : draft'[q].added \cap Touching(u) = {}
    BY <2>1, <2>2 DEF KeySharers, Alike
  <2>6. NoDanglingLinks'
    BY <2>1 DEF Keys, NoDanglingLinks, Present
  <2>7. Keyed(p)'
    BY <2>1, <2>2, <2>4, <2>5 DEF Keyed
  <2>8. ASSUME NEW q \in Procs \ {p} PROVE Keyed(q)'
    <3>1. Keyed(q) /\ draft'[q] = draft[q]
      BY <2>1 DEF Keys, Alike
    <3>2. \A o \in Procs : draft'[o].added = draft[o].added
      BY <2>1, <2>2 DEF Alike
    <3> QED
      BY <2>1, <3>1, <3>2 DEF Keyed, Present
  <2> QED
    BY <2>6, <2>7, <2>8 DEF Keys
<1> QED
  BY <1>1, <1>2

LEMMA CommitKeys ==
  ASSUME IInv, Keys, NEW p \in Procs, Commit(p)
  PROVE  Keys'
<1>0. /\ Alike(p) /\ draft'[p] = Blank /\ req[p].pc = "commit"
      /\ rows' = [x \in Things |-> CASE x \in draft[p].gone -> Gone
                                     [] x \in draft[p].born -> UserRow
                                     [] OTHER -> rows[x]]
      /\ links' = SeesLinks(p) /\ links \subseteq Links
      /\ draft[p] \in DraftRows
  BY CommitFacts, Typed DEF Over
<1>1. links' = (links \ draft[p].removed) \cup draft[p].added
  BY <1>0 DEF SeesLinks
<1>2. draft[p].gone \subseteq Users /\ draft[p].born \subseteq Users
      /\ draft[p].added \subseteq Links
  BY <1>0 DEF DraftRows
<1>3. ASSUME NEW x \in Things, x \notin draft[p].gone, Present(x) \/ x \in draft[p].born
      PROVE  Present(x)'
  BY <1>0, <1>3 DEF Present, UserRow
<1>4. \A l \in Links : /\ l[1] \in Things /\ l[2] \in Things
                       /\ l[2] \notin draft[p].gone
  BY <1>2, LinkEnds, TablesAreDisjoint DEF Things, Owners, Entries
<1>5. NoDanglingLinks'
  <2> SUFFICES ASSUME NEW l \in links' PROVE Present(l[1])' /\ Present(l[2])'
    BY DEF NoDanglingLinks
  <2>1. CASE l \in draft[p].added
    <3>1. l[1] \notin draft[p].gone
      BY <1>0, <2>1, CommitWrites
    <3> QED
      BY <1>2, <1>3, <1>4, <2>1, <3>1 DEF Keys, Keyed
  <2>2. CASE l \in links /\ l \notin draft[p].removed
    <3>1. l[1] \notin draft[p].gone
      BY <2>2 DEF Keys, Keyed
    <3> QED
      BY <1>0, <1>3, <1>4, <2>2, <3>1 DEF Keys, NoDanglingLinks
  <2> QED
    BY <1>1, <2>1, <2>2
<1>6. ASSUME NEW q \in Procs \ {p}, NEW l \in draft[q].added
      PROVE  /\ Present(l[1]) => Present(l[1])'
             /\ Present(l[2]) => Present(l[2])'
  <2>1. l \in Links
    BY <1>6, Typed DEF DraftRows
  <2>2. l[1] \notin draft[p].gone
    BY <1>6, <2>1, LinkEnds DEF Keys, Keyed
  <2> QED
    BY <1>3, <1>4, <2>1, <2>2
<1>7. ASSUME NEW q \in Procs \ {p}, NEW x \in draft[q].gone, NEW l \in links' \ links
      PROVE  l[1] # x
  <2>1. l \in draft[p].added /\ l \in Links
    BY <1>1, <1>2, <1>7
  <2> QED
    BY <1>7, <2>1, LinkEnds DEF Keys, Keyed
<1> QED
  BY <1>0, <1>5, <1>6, <1>7, TableKeys

LEMMA ChangeKeys ==
  ASSUME IInv, Keys, NEW p \in Procs, Change(p)
  PROVE  Keys'
<1>1. /\ Alike(p) /\ links' = links /\ draft'[p] = Blank
  BY ChangeFacts, KindAt DEF IInv, InTx
<1>2. \A x : Present(x) => Present(x)'
  <2> SUFFICES ASSUME NEW x, Present(x) PROVE Present(x)'
    OBVIOUS
  <2>0. rows \in [Things -> Rows]
    BY Typed
  <2>1. CASE \E e \in Entries, c \in Codes, system \in BOOLEAN : CreateEntry(p, e, c, system)
    BY <2>0, <2>1 DEF CreateEntry, Present, Things
  <2>2. CASE \E e \in Entries, system \in BOOLEAN : EnsureEntry(p, e, system)
    BY <2>0, <2>2 DEF EnsureEntry, Present, Things, Rows
  <2>3. CASE \E e \in Entries, c \in Codes : RenameEntry(p, e, c)
    BY <2>0, <2>3 DEF RenameEntry, Present, Things, Rows
  <2> QED
    BY <2>1, <2>2, <2>3, ChangeFacts
<1>3. NoDanglingLinks'
  BY <1>1, <1>2 DEF Keys, NoDanglingLinks
<1> QED
  BY <1>1, <1>2, <1>3, TableKeys

LEMMA DeleteEntryRowKeys ==
  ASSUME IInv, Keys, ForeignKeys, NEW p \in Procs, DeleteEntryRow(p)
  PROVE  Keys'
<1> DEFINE e == req[p].on
<1>1. /\ Alike(p) /\ draft[p] = Blank /\ draft'[p] = Blank /\ KeySharers(p, e) = {}
      /\ e \in Entries /\ rows \in [Things -> Rows] /\ links \subseteq Links
  BY DeleteEntryRowFacts, Typed DEF RowIsFree
<1>2. CASE Quiet
  BY <1>1, <1>2, SameKeys DEF Quiet
<1>3. CASE /\ rows' = [rows EXCEPT ![e] = Gone]
           /\ links' = links \ Cascade(p, e)
  <2>1. \A x : x # e /\ Present(x) => Present(x)'
    BY <1>1, <1>3 DEF Present
  <2>2. Cascade(p, e) = links \cap Touching(e)
    BY <1>1 DEF Cascade, SeesLinks, Blank
  <2>3. NoDanglingLinks'
    <3> SUFFICES ASSUME NEW l \in links' PROVE Present(l[1])' /\ Present(l[2])'
      BY DEF NoDanglingLinks
    <3>1. l \in links /\ l[1] # e /\ l[2] # e
      BY <1>1, <1>3, <2>2 DEF Touching
    <3> QED
      BY <2>1, <3>1 DEF Keys, NoDanglingLinks
  <2>4. ASSUME NEW q \in Procs \ {p}, NEW l \in draft[q].added
        PROVE  l[1] # e /\ l[2] # e
    <3>1. l \in Links
      BY <2>4, Typed DEF DraftRows
    <3> QED
      BY <1>1, <2>4, <3>1 DEF KeySharers, Touching
  <2> QED
    BY <1>1, <1>3, <2>1, <2>3, <2>4, TableKeys
<1> QED
  BY <1>2, <1>3, DeleteEntryRowFacts

LEMMA DeleteLinksKeys ==
  ASSUME IInv, Keys, NEW p \in Procs, DeleteLinks(p)
  PROVE  Keys'
<1>1. CASE req[p].kind \in InTx
  <2>1. /\ UNCHANGED <<rows, links>> /\ Alike(p) /\ Keeps(p, {"born", "gone", "added"})
        /\ draft'[p].removed = draft[p].removed \cup Doomed(p)
    BY <1>1, DeleteLinksFacts DEF Quiet, InTx
  <2> QED
    BY <2>1, QuietKeys DEF Keeps
<1>2. CASE req[p].kind \notin InTx
  <2>1. Alike(p) /\ rows' = rows /\ draft'[p] = Blank /\ links' = links \ Doomed(p)
    BY <1>2, DeleteLinksFacts
  <2>2. NoDanglingLinks'
    BY <2>1 DEF Keys, NoDanglingLinks, Present
  <2> QED
    BY <2>1, <2>2, TableKeys DEF Present
<1> QED
  BY <1>1, <1>2

LEMMA KeysStep ==
  ASSUME IInv, Keys, ForeignKeys, [Next]_vars
  PROVE  Keys'
<1>1. CASE UNCHANGED vars
  BY <1>1 DEF vars, Keys, Keyed, NoDanglingLinks, Present
<1>2. ASSUME NEW p \in Procs, Begin(p) PROVE Keys'
  BY <1>2, OpenFacts, SameKeys DEF Quiet
<1>3. ASSUME NEW p \in Procs, GetOwner(p) \/ GetByCode(p) \/ CheckSystem(p) \/ StartDelete(p)
      PROVE  Keys'
  BY <1>3, GetOwnerFacts, GetByCodeFacts, CheckFacts, StartDeleteFacts, SameKeys
     DEF Quiet, Over
<1>4. ASSUME NEW p \in Procs, CreateUser(p) PROVE Keys'
  <2>1. draft[p].born = {}
    BY <1>4, CreateUserFacts, Typed DEF Written, Born
  <2> QED
    BY <1>4, <2>1, CreateUserFacts, QuietKeys DEF Keeps, Quiet
<1>5. ASSUME NEW p \in Procs, Fail(p) PROVE Keys'
  BY <1>5, FailFacts, SameKeys DEF Over
<1> QED
  BY <1>1, <1>2, <1>3, <1>4, <1>5, ChangeKeys, InsertKeys, DeleteUserRowKeys, CommitKeys,
     DeleteEntryRowKeys, DeleteLinksKeys DEF Next, Advance

\* DeleteRole, DeletePermission and DeleteUsers (service/authorization.go,
\* repository/authorization_store.go) beside SetUserRoles, SetRolePermissions and the
\* registrations: with the declared keys in force no assignment is left behind, whatever
\* the isolation and however many requests there are.
THEOREM KeysLeaveNoDanglingLinks ==
  ASSUME ForeignKeys
  PROVE  Spec => []NoDanglingLinks
<1>1. Init => Keys
  BY DEF Init, Keys, Keyed, NoDanglingLinks, Blank
<1>2. IInv /\ Keys /\ [Next]_vars => Keys'
  BY KeysStep
<1>3. Keys => NoDanglingLinks
  BY DEF Keys
<1> QED
  BY <1>1, <1>2, <1>3, Invariant, PTL DEF Spec

\* SetUserRoles, SetRolePermissions, ProvisionUser and Register insert one assignment for
\* each entry they looked up, or roll back: the commit leaves none of them out.
THEOREM AssignmentsAreComplete == Spec => AssignmentIsComplete
<1>1. ASSUME IInv, NEW p \in Procs, Commit(p), req[p].kind # "dropUser"
      PROVE  LinksOf(req[p].on, req[p].found) \subseteq links'
  <2>1. req[p].pc = "commit" /\ links' = SeesLinks(p)
    BY <1>1, CommitFacts
  <2> QED
    BY <1>1, <2>1, CommitWrites DEF SeesLinks
<1>2. IInv /\ [Next]_vars =>
        [\A p \in Procs : Commit(p) /\ req[p].kind # "dropUser" =>
            LinksOf(req[p].on, req[p].found) \subseteq links']_vars
  BY <1>1
<1> QED
  BY <1>2, Invariant, PTL DEF Spec, AssignmentIsComplete

-----------------------------------------------------------------------------
(* What the requests know.                                                 *)

\* Only rows that were there once are found, owned or deleted; the user of a
\* registration is new, and no other registration has taken it.
Adding == {"provision", "register"}
Used(x) == rows[x].state # "unborn"
KnownRequest(p) ==
    /\ \A t \in req[p].found \cup draft[p].gone : Used(t)
    /\ req[p].kind = "replace" /\ req[p].pc # "owner" => Used(req[p].on)
    /\ req[p].kind \in Adding =>
          /\ rows[req[p].on] = Unborn
          /\ \A q \in Procs \ {p} : req[q].kind \in Adding => req[q].on # req[p].on
Known == /\ \A l \in links : Used(l[1]) /\ Used(l[2])
         /\ \A p \in Procs : KnownRequest(p)

\* Rows are used up, and only a registration that commits starts one of a user.
UsedNow(x) == rows'[x].state # "unborn"
Ageing == /\ \A x \in Things : Used(x) => UsedNow(x)
          /\ \A q \in Procs : req'[q].kind \in Adding /\ req'[q].kind = req[q].kind
                              /\ req'[q].on = req[q].on
                              /\ rows[req[q].on] = Unborn
                => rows'[req[q].on] = Unborn

LEMMA KnownByAgeing ==
  ASSUME IInv, Known, NEW p \in Procs, Alike(p), Ageing, KnownRequest(p)',
         \A l \in links' \ links : UsedNow(l[1]) /\ UsedNow(l[2]),
         req'[p].kind \in Adding =>
            \A q \in Procs \ {p} : req[q].kind \in Adding => req[q].on # req'[p].on
  PROVE  Known'
<1>0. ASSUME NEW l \in links PROVE l[1] \in Things /\ l[2] \in Things
  <2>1. l \in Links
    BY Typed
  <2> QED
    BY <2>1, LinkEnds DEF Owners, Things, Entries
<1>1. \A l \in links' : UsedNow(l[1]) /\ UsedNow(l[2])
  <2>1. \A l \in links : UsedNow(l[1]) /\ UsedNow(l[2])
    BY <1>0 DEF Known, Ageing
  <2> QED
    BY <2>1
<1>2. ASSUME NEW q \in Procs \ {p} PROVE KnownRequest(q)'
  <2>1. /\ req'[q].kind = req[q].kind /\ req'[q].pc = req[q].pc
        /\ req'[q].on = req[q].on /\ req'[q].found = req[q].found
        /\ draft'[q] = draft[q] /\ KnownRequest(q)
    BY DEF Alike, Known
  <2>7. req[q].found \cup draft[q].gone \subseteq Things
    BY Typed DEF RequestRows, DraftRows, Things
  <2>8. req[q].kind = "replace" => req[q].on \in Things
    BY Typed DEF OnCourse, Things, Owners, Entries
  <2>2. \A t \in req'[q].found \cup draft'[q].gone : UsedNow(t)
    BY <2>1, <2>7 DEF KnownRequest, Ageing
  <2>3. req'[q].kind = "replace" /\ req'[q].pc # "owner" => UsedNow(req'[q].on)
    BY <2>1, <2>8 DEF KnownRequest, Ageing
  <2>4. req'[q].kind \in Adding => rows'[req'[q].on] = Unborn
    BY <2>1 DEF KnownRequest, Ageing
  <2>5. req'[q].kind \in Adding =>
           \A o \in Procs \ {q} : req'[o].kind \in Adding => req'[o].on # req'[q].on
    BY <2>1 DEF KnownRequest, Alike
  <2>6. KnownRequest(q)' <=>
           /\ \A t \in req'[q].found \cup draft'[q].gone : UsedNow(t)
           /\ req'[q].kind = "replace" /\ req'[q].pc # "owner" => UsedNow(req'[q].on)
           /\ req'[q].kind \in Adding =>
                 /\ rows'[req'[q].on] = Unborn
                 /\ \A o \in Procs \ {q} :
                       req'[o].kind \in Adding => req'[o].on # req'[q].on
    BY DEF KnownRequest, Used, UsedNow
  <2> QED
    BY <2>2, <2>3, <2>4, <2>5, <2>6
<1> QED
  BY <1>1, <1>2 DEF Known, Used, UsedNow

\* A statement that leaves the tables alone.
LEMMA QuietAgeing ==
  ASSUME rows' = rows
  PROVE  Ageing
  BY DEF Ageing, Used, UsedNow

LEMMA OverKnown ==
  ASSUME IInv, Known, NEW p \in Procs, Alike(p), rows' = rows, links' \subseteq links,
         req'[p] = Idle, draft'[p].gone = {}
  PROVE  Known'
<1>1. KnownRequest(p)'
  BY DEF KnownRequest, Idle, Adding
<1> QED
  BY <1>1, QuietAgeing, KnownByAgeing DEF Idle, Adding

\* p goes on with what it knew, or what it now sees.
LEMMA ProceedsKnown ==
  ASSUME IInv, Known, NEW p \in Procs, Alike(p), rows' = rows, links' \subseteq links,
         req'[p].kind = req[p].kind, req'[p].on = req[p].on,
         \A t \in req'[p].found \cup draft'[p].gone :
            t \in req[p].found \cup draft[p].gone \/ Used(t),
         req[p].kind = "replace" /\ req[p].pc = "owner" => Used(req[p].on)
  PROVE  Known'
<1>1. KnownRequest(p)
  BY DEF Known
<1>2. KnownRequest(p)'
  BY <1>1 DEF KnownRequest, Alike, Used
<1> QED
  BY <1>1, <1>2, QuietAgeing, KnownByAgeing DEF KnownRequest

LEMMA OpenKnown ==
  ASSUME IInv, Known, NEW p \in Procs, Begin(p)
  PROVE  Known'
<1>1. /\ rows' = rows /\ links' = links /\ Alike(p) /\ req'[p].found = {}
      /\ draft'[p] = Blank
      /\ req'[p].kind = "replace" => req'[p].pc = "owner"
      /\ req'[p].kind \in Adding => req'[p].on \in Unclaimed
  BY OpenFacts DEF Quiet, Adding
<1>2. req'[p].kind \in Adding =>
        /\ rows[req'[p].on] = Unborn
        /\ \A q \in Procs \ {p} : req[q].kind \in Adding => req[q].on # req'[p].on
  BY <1>1 DEF Unclaimed, Adding
<1>3. KnownRequest(p)'
  BY <1>1, <1>2 DEF KnownRequest, Blank, Alike
<1> QED
  BY <1>1, <1>2, <1>3, QuietAgeing, KnownByAgeing

LEMMA ChangeKnown ==
  ASSUME IInv, Known, NEW p \in Procs, Change(p)
  PROVE  Known'
<1>1. /\ Alike(p) /\ UNCHANGED <<req, draft, links>> /\ req[p].kind = "idle"
      /\ rows \in [Things -> Rows] /\ KnownRequest(p)
      /\ \A q \in Procs : req[q].kind \in Adding => req[q].on \in Users
  BY ChangeFacts, Typed DEF OnCourse, Adding, Known
<1>2. Entries \subseteq Things /\ Users \cap Entries = {}
  BY TablesAreDisjoint DEF Things, Entries
<1>3. \E e \in Entries : /\ \A x \in Things : x # e => rows'[x] = rows[x]
                         /\ UsedNow(e) /\ rows' \in [Things -> Rows]
  <2>1. ASSUME NEW e \in Entries, NEW c \in Codes, NEW system \in BOOLEAN,
               CreateEntry(p, e, c, system)
        PROVE  /\ \A x \in Things : x # e => rows'[x] = rows[x]
               /\ UsedNow(e) /\ rows' \in [Things -> Rows]
    BY <1>1, <1>2, <2>1 DEF CreateEntry, UsedNow, Rows
  <2>2. ASSUME NEW e \in Entries, NEW system \in BOOLEAN, EnsureEntry(p, e, system)
        PROVE  /\ \A x \in Things : x # e => rows'[x] = rows[x]
               /\ UsedNow(e) /\ rows' \in [Things -> Rows]
    BY <1>1, <1>2, <2>2 DEF EnsureEntry, Present, UsedNow, Rows
  <2>3. ASSUME NEW e \in Entries, NEW c \in Codes, RenameEntry(p, e, c)
        PROVE  /\ \A x \in Things : x # e => rows'[x] = rows[x]
               /\ UsedNow(e) /\ rows' \in [Things -> Rows]
    BY <1>1, <1>2, <2>3 DEF RenameEntry, Present, UsedNow, Rows
  <2> QED
    BY <2>1, <2>2, <2>3, ChangeFacts
<1>4. Ageing
  <2>1. PICK e \in Entries : /\ \A x \in Things : x # e => rows'[x] = rows[x]
                             /\ UsedNow(e) /\ rows' \in [Things -> Rows]
    BY <1>3
  <2>2. \A x \in Things : Used(x) => UsedNow(x)
    BY <2>1 DEF Used, UsedNow
  <2>3. \A q \in Procs : req[q].kind \in Adding => rows'[req[q].on] = rows[req[q].on]
    BY <1>1, <1>2, <2>1 DEF Things
  <2> QED
    BY <1>1, <2>2, <2>3 DEF Ageing
<1>5. KnownRequest(p)'
  <2>1. req[p] = Idle /\ draft[p] = Blank
    BY <1>1, KindAt DEF IInv, InTx
  <2> QED
    BY <1>1, <2>1 DEF KnownRequest, Idle, Blank, Adding
<1> QED
  BY <1>1, <1>4, <1>5, KnownByAgeing DEF Adding

LEMMA CommitKnown ==
  ASSUME IInv, Known, NEW p \in Procs, Commit(p)
  PROVE  Known'
<1>0. /\ Alike(p) /\ req'[p] = Idle /\ draft'[p] = Blank /\ req[p].pc = "commit"
      /\ rows' = [x \in Things |-> CASE x \in draft[p].gone -> Gone
                                     [] x \in draft[p].born -> UserRow
                                     [] OTHER -> rows[x]]
      /\ links' = (links \ draft[p].removed) \cup draft[p].added
      /\ rows \in [Things -> Rows] /\ KnownRequest(p)
  BY CommitFacts, Typed DEF Over, Known, SeesLinks
<1>1. \A x \in Things : /\ Used(x) => UsedNow(x)
                        /\ x \in draft[p].born => UsedNow(x)
                        /\ x \notin draft[p].born \cup draft[p].gone => rows'[x] = rows[x]
  BY <1>0 DEF Used, UsedNow, Gone, UserRow
<1>2. ASSUME NEW q \in Procs, req'[q].kind \in Adding, req'[q].on = req[q].on,
             req'[q].kind = req[q].kind, rows[req[q].on] = Unborn
      PROVE  rows'[req[q].on] = Unborn
  <2>1. q # p
    BY <1>0, <1>2 DEF Idle, Adding
  <2>2. req[q].on \in Things
    BY <1>2, Typed DEF OnCourse, Adding, Things
  <2>3. req[q].on \notin draft[p].gone
    BY <1>0, <1>2 DEF KnownRequest, Used, Unborn
  <2>4. req[q].on \notin draft[p].born
    BY <1>0, <1>2, <2>1, CommitWrites DEF KnownRequest, Adding, Assigning
  <2> QED
    BY <1>1, <1>2, <2>2, <2>3, <2>4
<1>3. Ageing
  BY <1>1, <1>2 DEF Ageing
<1>4. ASSUME NEW l \in draft[p].added PROVE UsedNow(l[1]) /\ UsedNow(l[2])
  <2>1. req[p].kind \in Assigning /\ l[1] = req[p].on /\ l[2] \in req[p].found
    BY <1>0, <1>4, CommitWrites DEF LinksOf, Assigning
  <2>2. l[1] \in Things /\ l[2] \in Things
    <3>1. l \in Links
      BY <1>4, Typed DEF DraftRows
    <3> QED
      BY <3>1, LinkEnds DEF Owners, Things, Entries
  <2>3. req[p].kind = "replace" => Used(l[1])
    BY <1>0, <2>1 DEF KnownRequest
  <2>4. req[p].kind # "replace" => l[1] \in draft[p].born
    BY <1>0, <2>1, CommitWrites DEF Assigning
  <2> QED
    BY <1>0, <1>1, <2>1, <2>2, <2>3, <2>4 DEF KnownRequest
<1>5. KnownRequest(p)'
  BY <1>0 DEF KnownRequest, Idle, Blank, Adding
<1> QED
  BY <1>0, <1>3, <1>4, <1>5, KnownByAgeing DEF Idle, Adding

LEMMA DeleteEntryRowKnown ==
  ASSUME IInv, Known, NEW p \in Procs, DeleteEntryRow(p)
  PROVE  Known'
<1> DEFINE e == req[p].on
<1>1. /\ Alike(p) /\ e \in Entries /\ draft'[p] = Blank /\ req'[p] = Idle
      /\ rows \in [Things -> Rows]
  BY DeleteEntryRowFacts, Typed
<1>2. CASE Quiet
  BY <1>1, <1>2, OverKnown DEF Quiet, Blank
<1>3. CASE rows' = [rows EXCEPT ![e] = Gone] /\ links' = links \ Cascade(p, e)
  <2>1. \A q \in Procs : req[q].kind \in Adding => req[q].on \in Users
    BY Typed DEF OnCourse, Adding
  <2>2. \A q \in Procs : req[q].kind \in Adding => rows'[req[q].on] = rows[req[q].on]
    BY <1>1, <1>3, <2>1, TablesAreDisjoint DEF Entries, Things
  <2>3. Ageing
    BY <1>1, <1>3, <2>2 DEF Ageing, Used, UsedNow, Gone
  <2>4. KnownRequest(p)'
    BY <1>1 DEF KnownRequest, Idle, Blank, Adding
  <2> QED
    BY <1>1, <1>3, <2>3, <2>4, KnownByAgeing DEF Idle, Adding
<1> QED
  BY <1>2, <1>3, DeleteEntryRowFacts

LEMMA LookupKnown ==
  ASSUME IInv, Known, NEW p \in Procs, GetByCode(p)
  PROVE  Known'
<1>1. rows' = rows /\ links' = links /\ Alike(p) /\ req[p].pc = "lookup"
  BY GetByCodeFacts DEF Quiet
<1>2. CASE Over(p)
  BY <1>1, <1>2, OverKnown DEF Over, Blank
<1>3. CASE ~Over(p)
  <2>1. /\ draft'[p] = draft[p] /\ req'[p].kind = req[p].kind /\ req'[p].on = req[p].on
        /\ \E c \in req[p].todo : req'[p].found = req[p].found \cup Hits(p, c)
    BY <1>3, GetByCodeFacts
  <2>2. \A t \in req'[p].found \cup draft'[p].gone :
            t \in req[p].found \cup draft[p].gone \/ Used(t)
    BY <2>1 DEF Hits, Present, Used
  <2> QED
    BY <1>1, <2>1, <2>2, ProceedsKnown
<1> QED
  BY <1>2, <1>3

LEMMA GetOwnerKnown ==
  ASSUME IInv, Known, NEW p \in Procs, GetOwner(p)
  PROVE  Known'
<1>1. rows' = rows /\ links' = links /\ Alike(p)
  BY GetOwnerFacts DEF Quiet
<1>2. CASE Over(p)
  BY <1>1, <1>2, OverKnown DEF Over, Blank
<1>3. CASE ~Over(p)
  <2>1. /\ Sees(p, req[p].on) /\ draft'[p] = draft[p]
        /\ \E pc \in {"pick", "lookup"} : Proceeds(p, pc)
    BY <1>3, GetOwnerFacts
  <2>2. req[p].kind = "replace" => Used(req[p].on)
    BY <2>1, Typed DEF Written, Born, Sees, Present, Used
  <2> QED
    BY <1>1, <2>1, <2>2, ProceedsKnown DEF Proceeds
<1> QED
  BY <1>2, <1>3

LEMMA DeleteUserRowKnown ==
  ASSUME IInv, Known, NEW p \in Procs, DeleteUserRow(p)
  PROVE  Known'
<1>1. rows' = rows /\ links' = links /\ Alike(p) /\ req[p].kind = "dropUser"
  BY DeleteUserRowFacts DEF Quiet
<1>2. CASE Over(p)
  BY <1>1, <1>2, OverKnown DEF Over, Blank
<1>3. CASE ~Over(p)
  <2>1. Proceeds(p, "commit") /\ Sees(p, req[p].on) /\ draft'[p].gone = {req[p].on}
    BY <1>3, DeleteUserRowFacts
  <2>2. Used(req[p].on)
    BY <1>1, <2>1, Typed DEF Written, Born, Sees, Present, Used
  <2> QED
    BY <1>1, <2>1, <2>2, ProceedsKnown DEF Proceeds
<1> QED
  BY <1>2, <1>3

LEMMA KnownStep ==
  ASSUME IInv, Known, [Next]_vars
  PROVE  Known'
<1>1. CASE UNCHANGED vars
  BY <1>1 DEF vars, Known, KnownRequest, Used
<1>2. ASSUME NEW p \in Procs, CreateUser(p) PROVE Known'
  <2>1. /\ rows' = rows /\ links' = links /\ Alike(p) /\ Proceeds(p, AfterBorn(p))
        /\ draft'[p].gone = draft[p].gone /\ req[p].kind # "replace"
    BY <1>2, CreateUserFacts DEF Quiet, Keeps
  <2> QED
    BY <2>1, ProceedsKnown DEF Proceeds
<1>3. ASSUME NEW p \in Procs, CheckSystem(p) PROVE Known'
  <2>1. /\ rows' = rows /\ links' = links /\ Alike(p) /\ draft'[p] = Blank
        /\ req'[p] = Idle \/ \E pc : Proceeds(p, pc)
        /\ req[p].kind # "replace"
    BY <1>3, CheckFacts DEF Quiet
  <2> QED
    BY <2>1, OverKnown, ProceedsKnown DEF Proceeds, Blank
<1>4. ASSUME NEW p \in Procs, StartDelete(p) PROVE Known'
  <2>1. /\ rows' = rows /\ links' = links /\ Alike(p) /\ draft'[p] = draft[p]
        /\ \E pc : Proceeds(p, pc)
        /\ req[p].pc # "owner"
    BY <1>4, StartDeleteFacts DEF Quiet
  <2> QED
    BY <2>1, ProceedsKnown DEF Proceeds
<1>5. ASSUME NEW p \in Procs, DeleteLinks(p) PROVE Known'
  <2>1. /\ rows' = rows /\ links' \subseteq links /\ Alike(p)
        /\ draft'[p].gone = draft[p].gone /\ Proceeds(p, AfterWipe(p))
        /\ req[p].pc # "owner"
    BY <1>5, DeleteLinksFacts DEF Quiet, Keeps
  <2> QED
    BY <2>1, ProceedsKnown DEF Proceeds
<1>6. ASSUME NEW p \in Procs, InsertLinks(p) PROVE Known'
  <2>1. rows' = rows /\ links' = links /\ Alike(p) /\ req[p].pc = "bind"
    BY <1>6, InsertLinksFacts DEF Quiet
  <2>2. \/ Over(p)
        \/ Proceeds(p, "commit") /\ draft'[p].gone = draft[p].gone
    BY <1>6, InsertLinksFacts DEF Keeps
  <2> QED
    BY <2>1, <2>2, OverKnown, ProceedsKnown DEF Over, Blank, Proceeds
<1>7. ASSUME NEW p \in Procs, Fail(p) PROVE Known'
  BY <1>7, FailFacts, OverKnown DEF Over, Blank
<1> QED
  BY <1>1, <1>2, <1>3, <1>4, <1>5, <1>6, <1>7, ChangeKnown, OpenKnown, GetOwnerKnown,
     LookupKnown, DeleteUserRowKnown, DeleteEntryRowKnown, CommitKnown DEF Next, Advance

LEMMA KnownInvariant == Spec => []Known
<1>1. Init => Known
  BY DEF Init, Known, KnownRequest, Idle, Blank, Adding
<1>2. IInv /\ Known /\ [Next]_vars => Known'
  BY KnownStep
<1> QED
  BY <1>1, <1>2, Invariant, PTL DEF Spec

-----------------------------------------------------------------------------
(* Claims.                                                                 *)

\* A user gains nothing where no assignment it can reach is added, and what an
\* assignment refers to neither appears nor gets another code.
LEMMA NothingGained ==
  ASSUME NEW u \in Users,
         \A r \in Roles : Present(r)' /\ <<u, r>> \in links' =>
            /\ Present(r) /\ <<u, r>> \in links /\ rows'[r].code = rows[r].code
            /\ \A q \in Perms : Present(q)' /\ <<r, q>> \in links' =>
                  Present(q) /\ <<r, q>> \in links /\ rows'[q].code = rows[q].code
  PROVE  ~Grew(u)
<1> DEFINE held == {r \in Roles : Present(r) /\ <<u, r>> \in links}
           granted == {q \in Perms : Present(q) /\ \E r \in held : <<r, q>> \in links}
           held2 == {r \in Roles : Present(r)' /\ <<u, r>> \in links'}
           granted2 == {q \in Perms : Present(q)' /\ \E r \in held2 : <<r, q>> \in links'}
<1>1. /\ \A r \in held2 : r \in held /\ rows'[r].code = rows[r].code
      /\ \A q \in granted2 : q \in granted /\ rows'[q].code = rows[q].code
  OBVIOUS
<1>2. /\ Claims(u).roles = {rows[r].code : r \in held}
      /\ Claims(u).permissions = {rows[q].code : q \in granted}
  BY DEF Claims
<1>3. /\ Claims(u).roles' = {rows'[r].code : r \in held2}
      /\ Claims(u).permissions' = {rows'[q].code : q \in granted2}
  BY DEF Claims
<1> HIDE DEF held, granted, held2, granted2
<1> QED
  BY <1>1, <1>2, <1>3 DEF Grew

\* Statements that take assignments and rows away, or add rows that no assignment
\* refers to.
LEMMA NothingAdded ==
  ASSUME Known, NEW u \in Users, links' \subseteq links,
         \A x \in Entries : Present(x)' /\ Used(x) =>
            Present(x) /\ rows'[x].code = rows[x].code
  PROVE  ~Grew(u)
<1>1. \A l \in links : Used(l[1]) /\ Used(l[2])
  BY DEF Known
<1>2. \A o, t : <<o, t>> \in links => Used(o) /\ Used(t)
  <2> SUFFICES ASSUME NEW o, NEW t, <<o, t>> \in links PROVE Used(o) /\ Used(t)
    OBVIOUS
  <2> QED
    BY <1>1
<1>3. ASSUME NEW r \in Roles, Present(r)', <<u, r>> \in links'
      PROVE  /\ Present(r) /\ <<u, r>> \in links /\ rows'[r].code = rows[r].code
             /\ \A q \in Perms : Present(q)' /\ <<r, q>> \in links' =>
                   Present(q) /\ <<r, q>> \in links /\ rows'[q].code = rows[q].code
  BY <1>2, <1>3 DEF Entries
<1> QED
  BY <1>3, NothingGained

LEMMA ChangeGrows ==
  ASSUME IInv, Known, NEW p \in Procs, Change(p), NEW u \in Users,
         ~\E e \in Entries, c \in Codes : RenameEntry(p, e, c)
  PROVE  ~Grew(u)
<1>1. links' = links /\ rows \in [Things -> Rows] /\ Entries \subseteq Things
  BY ChangeFacts, Typed DEF Things
<1>2. ASSUME NEW e \in Entries, NEW c \in Codes, NEW system \in BOOLEAN,
             CreateEntry(p, e, c, system), NEW x \in Entries, Used(x)
      PROVE  rows'[x] = rows[x]
  BY <1>1, <1>2 DEF CreateEntry, Used, Unborn
<1>3. ASSUME NEW e \in Entries, NEW system \in BOOLEAN, EnsureEntry(p, e, system),
             NEW x \in Entries
      PROVE  rows'[x].code = rows[x].code /\ rows'[x].state = rows[x].state
  BY <1>1, <1>3 DEF EnsureEntry, Rows
<1> QED
  BY <1>1, <1>2, <1>3, ChangeFacts, NothingAdded DEF Present

LEMMA CommitGrows ==
  ASSUME IInv, NEW p \in Procs, Commit(p), NEW u \in Users,
         req[p].on # u, <<u, req[p].on>> \notin links
  PROVE  ~Grew(u)
<1>0. /\ req[p].pc = "commit" /\ links' = SeesLinks(p)
      /\ rows' = [x \in Things |-> CASE x \in draft[p].gone -> Gone
                                     [] x \in draft[p].born -> UserRow
                                     [] OTHER -> rows[x]]
      /\ draft[p].gone \subseteq Users /\ draft[p].born \subseteq Users
  BY CommitFacts, Typed DEF DraftRows
<1>1. \A x \in Entries : rows'[x] = rows[x]
  BY <1>0, TablesAreDisjoint DEF Entries, Things
<1>2. \A o, t : <<o, t>> \in links' => <<o, t>> \in links \/ o = req[p].on
  <2>1. \A l \in draft[p].added : l[1] = req[p].on
    BY <1>0, CommitWrites DEF LinksOf
  <2> QED
    BY <1>0, <2>1 DEF SeesLinks
<1> QED
  BY <1>1, <1>2, NothingGained DEF Present, Entries

LEMMA GrowthStep ==
  ASSUME IInv, Known, [Next]_vars, NEW u \in Users, Grew(u)
  PROVE  \E p \in Procs :
             \/ Commit(p) /\ (req[p].on = u \/ <<u, req[p].on>> \in links)
             \/ \E e \in Entries, c \in Codes : RenameEntry(p, e, c)
<1>1. ~UNCHANGED <<rows, links>>
  <2>1. UNCHANGED <<rows, links>> => links' \subseteq links /\ rows' = rows
    OBVIOUS
  <2> QED
    BY <2>1, NothingAdded DEF Present
<1>2. PICK p \in Procs : Change(p) \/ Commit(p) \/ DeleteLinks(p) \/ DeleteEntryRow(p)
  <2>1. PICK p \in Procs : Change(p) \/ Begin(p) \/ Advance(p) \/ Fail(p)
    BY <1>1 DEF Next, vars
  <2>2. ~Begin(p) /\ ~Fail(p)
    BY <1>1, OpenFacts, FailFacts DEF Quiet
  <2>3. ~GetOwner(p) /\ ~GetByCode(p) /\ ~CreateUser(p) /\ ~CheckSystem(p)
    BY <1>1, GetOwnerFacts, GetByCodeFacts, CreateUserFacts, CheckFacts DEF Quiet
  <2>4. ~StartDelete(p) /\ ~InsertLinks(p) /\ ~DeleteUserRow(p)
    BY <1>1, StartDeleteFacts, InsertLinksFacts, DeleteUserRowFacts DEF Quiet
  <2> QED
    BY <2>1, <2>2, <2>3, <2>4 DEF Advance
<1>3. ~DeleteLinks(p)
  <2>1. DeleteLinks(p) => links' \subseteq links /\ rows' = rows
    BY DeleteLinksFacts DEF Quiet
  <2> QED
    BY <2>1, NothingAdded DEF Present
<1>4. ~DeleteEntryRow(p)
  <2>1. ASSUME rows' = [rows EXCEPT ![req[p].on] = Gone], req[p].on \in Entries,
               NEW x \in Entries, Present(x)'
        PROVE  rows'[x] = rows[x]
    BY <2>1, Typed DEF Present, Gone, Things
  <2>2. DeleteEntryRow(p) =>
          /\ links' \subseteq links /\ req[p].on \in Entries
          /\ rows' = rows \/ rows' = [rows EXCEPT ![req[p].on] = Gone]
    BY DeleteEntryRowFacts DEF Quiet
  <2> QED
    BY <2>1, <2>2, NothingAdded DEF Present
<1> QED
  BY <1>2, <1>3, <1>4, ChangeGrows, CommitGrows

\* ListUserClaims (repository/authorization_store.go) beside every request that
\* changes what it reads: a role or a permission that is deleted and made again does
\* not come back to its holders, and nothing else hands out claims by the way.
THEOREM ClaimsGrowByAssignment == Spec => ClaimsGrowOnlyByAssignment
<1>1. IInv /\ Known /\ [Next]_vars =>
        [\A u \in Users : Grew(u) =>
            \E p \in Procs :
               \/ Commit(p) /\ (req[p].on = u \/ <<u, req[p].on>> \in links)
               \/ \E e \in Entries, c \in Codes : RenameEntry(p, e, c)]_vars
  BY GrowthStep
<1> QED
  BY <1>1, Invariant, KnownInvariant, PTL DEF Spec, ClaimsGrowOnlyByAssignment

-----------------------------------------------------------------------------
(* What a SQLite transaction knows until it is marked stale.               *)

\* Found are the entries that have the codes looked up so far.
Looked(p) ==
    LET o == req[p].on  known == req[p].wanted \ req[p].todo IN
    req[p].kind \in Assigning =>
        /\ req[p].found = {t \in TargetTable(o) : Present(t) /\ rows[t].code \in known}
        /\ {rows[t].code : t \in req[p].found} = known
\* The owner it checked is still there.
OwnerThere(p) ==
    req[p].kind \in {"replace", "dropUser"} /\ req[p].pc # "owner" => Present(req[p].on)
\* Its DELETE has met everything the owner holds.
Wiped(p) ==
    req[p].kind \in InTx /\ req[p].pc \in {"bind", "row", "commit"} =>
        \A l \in links : l[1] = req[p].on => l \in draft[p].removed
Sure(p) == Looked(p) /\ OwnerThere(p) /\ Wiped(p)
Serial == \A p \in Procs \ stale : Sure(p)

\* Who is not in a transaction knows nothing.
LEMMA SureOutside ==
  ASSUME NEW q \in Procs, req'[q].kind \notin InTx
  PROVE  Sure(q)'
  BY DEF Sure, Looked, OwnerThere, Wiped, Assigning, InTx

\* A step of p that leaves the tables alone, or that ends a request without changes.
LEMMA SerialByOne ==
  ASSUME Serial, NEW p \in Procs, UNCHANGED <<rows, links>>, Alike(p),
         stale \ {p} \subseteq stale', Sure(p)'
  PROVE  Serial'
<1>1. ASSUME NEW q \in Procs \ {p}, q \notin stale' PROVE Sure(q)'
  <2>1. /\ req'[q].kind = req[q].kind /\ req'[q].pc = req[q].pc
        /\ req'[q].on = req[q].on /\ req'[q].wanted = req[q].wanted
        /\ req'[q].todo = req[q].todo /\ req'[q].found = req[q].found
        /\ draft'[q] = draft[q] /\ Sure(q)
    BY <1>1 DEF Alike, Serial
  <2>2. Looked(q)'
    BY <2>1 DEF Sure, Looked, Present
  <2>3. OwnerThere(q)'
    BY <2>1 DEF Sure, OwnerThere, Present
  <2>4. Wiped(q)'
    BY <2>1 DEF Sure, Wiped
  <2> QED
    BY <2>2, <2>3, <2>4 DEF Sure
<1> QED
  BY <1>1 DEF Serial

LEMMA SerialOver ==
  ASSUME Serial, NEW p \in Procs, UNCHANGED <<rows, links>>, Alike(p),
         stale \ {p} \subseteq stale', req'[p] = Idle
  PROVE  Serial'
<1>1. Sure(p)'
  BY SureOutside DEF Idle, InTx
<1> QED
  BY <1>1, SerialByOne

\* A step of p that changes the tables marks every other transaction.
LEMMA SerialByMark ==
  ASSUME Isolation = "Serializable", NEW p \in Procs, Alike(p),
         stale' = Outdated(p), req'[p].kind \notin InTx
  PROVE  Serial'
<1>1. ASSUME NEW q \in Procs \ stale' PROVE req'[q].kind \notin InTx
  BY <1>1 DEF Outdated, Alike
<1> QED
  BY <1>1, SureOutside DEF Serial

\* The place in a request where nothing is looked up any more.
LEMMA SureOnward ==
  ASSUME NEW p \in Procs, Sure(p), UNCHANGED <<rows, links>>,
         NEW pc, Proceeds(p, pc),
         OwnerThere(p)', Wiped(p)'
  PROVE  Sure(p)'
<1>1. Looked(p)'
  BY DEF Sure, Looked, Present, Proceeds
<1> QED
  BY <1>1 DEF Sure

LEMMA OpenSure ==
  ASSUME IInv, Serial, NEW p \in Procs, Begin(p)
  PROVE  Serial'
<1>1. /\ UNCHANGED <<rows, links, stale>> /\ Alike(p) /\ req'[p].todo = req'[p].wanted
      /\ req'[p].found = {} /\ req'[p].pc \in {"owner", "lookup", "born", "check"}
      /\ req'[p].kind \in {"replace", "dropUser"} => req'[p].pc = "owner"
  BY OpenFacts DEF Quiet
<1>2. Looked(p)'
  BY <1>1 DEF Looked
<1>3. OwnerThere(p)' /\ Wiped(p)'
  BY <1>1 DEF OwnerThere, Wiped
<1> QED
  BY <1>1, <1>2, <1>3, SerialByOne DEF Sure

LEMMA GetOwnerSure ==
  ASSUME IInv, Serial, NEW p \in Procs, GetOwner(p)
  PROVE  Serial'
<1>1. UNCHANGED <<rows, links, stale>> /\ Alike(p) /\ p \notin stale
  BY GetOwnerFacts DEF Quiet
<1>2. CASE Over(p)
  BY <1>1, <1>2, SerialOver DEF Over
<1>3. CASE ~Over(p)
  <2>1. PICK pc \in {"pick", "lookup"} : Sees(p, req[p].on) /\ Proceeds(p, pc)
    BY <1>3, GetOwnerFacts
  <2>2. req[p].kind \in {"replace", "dropUser"} => Present(req[p].on)
    BY <2>1, Typed DEF Written, Born, Sees
  <2>3. OwnerThere(p)' /\ Wiped(p)'
    BY <1>1, <2>1, <2>2 DEF OwnerThere, Wiped, Present, Proceeds
  <2>4. Sure(p)'
    BY <1>1, <2>1, <2>3, SureOnward DEF Serial
  <2> QED
    BY <1>1, <2>4, SerialByOne
<1> QED
  BY <1>2, <1>3

LEMMA LookupSure ==
  ASSUME IInv, Serial, NEW p \in Procs, GetByCode(p)
  PROVE  Serial'
<1>1. /\ UNCHANGED <<rows, links, stale>> /\ Alike(p) /\ p \notin stale
      /\ req[p].pc = "lookup"
  BY GetByCodeFacts DEF Quiet
<1>2. CASE Over(p)
  BY <1>1, <1>2, SerialOver DEF Over
<1>3. CASE ~Over(p)
  <2>1. PICK c \in req[p].todo :
          /\ Hits(p, c) # {} /\ req'[p].todo = req[p].todo \ {c}
          /\ req'[p].found = req[p].found \cup Hits(p, c)
    BY <1>3, GetByCodeFacts
  <2>2. /\ req'[p].kind = req[p].kind /\ req'[p].on = req[p].on
        /\ req'[p].wanted = req[p].wanted /\ req'[p].pc \in {"lookup", "born", "pick"}
        /\ req[p].kind \in Assigning
    BY <1>3, GetByCodeFacts
  <2>3. Sure(p) /\ req[p].todo \subseteq req[p].wanted
    BY <1>1, Typed DEF Serial, OnCourse
  <2> DEFINE T == TargetTable(req[p].on)
             known == req[p].wanted \ req[p].todo
             now == req'[p].wanted \ req'[p].todo
  <2>4. now = known \cup {c}
    BY <2>1, <2>2, <2>3
  <2>5. /\ req[p].found = {t \in T : Present(t) /\ rows[t].code \in known}
        /\ {rows[t].code : t \in req[p].found} = known
    BY <2>2, <2>3 DEF Sure, Looked
  <2>6. req'[p].found = {t \in T : Present(t) /\ rows[t].code \in now}
    BY <2>1, <2>4, <2>5 DEF Hits
  <2>7. {rows[t].code : t \in req'[p].found} = now
    BY <2>1, <2>4, <2>5 DEF Hits
  <2>8. Looked(p)'
    BY <1>1, <2>2, <2>6, <2>7 DEF Looked, Present
  <2>9. OwnerThere(p)' /\ Wiped(p)'
    BY <1>1, <2>2, <2>3 DEF Sure, OwnerThere, Wiped, Present
  <2> QED
    BY <1>1, <2>8, <2>9, SerialByOne DEF Sure
<1> QED
  BY <1>2, <1>3

LEMMA CreateUserSure ==
  ASSUME IInv, Known, Serial, NEW p \in Procs, CreateUser(p)
  PROVE  Serial'
<1>1. /\ UNCHANGED <<rows, links, stale>> /\ Alike(p) /\ Proceeds(p, AfterBorn(p))
      /\ req[p].kind \in Adding
  BY CreateUserFacts DEF Quiet, Adding
<1>2. \A l \in links : l[1] # req[p].on
  BY <1>1 DEF Known, KnownRequest, Used, Unborn
<1>3. OwnerThere(p)' /\ Wiped(p)'
  BY <1>1, <1>2 DEF OwnerThere, Wiped, Proceeds, Adding
<1>4. p \notin stale
  BY DEF CreateUser, At
<1>5. Sure(p)'
  BY <1>1, <1>3, <1>4, SureOnward DEF Serial
<1> QED
  BY <1>1, <1>5, SerialByOne

LEMMA StartDeleteSure ==
  ASSUME IInv, Serial, NEW p \in Procs, StartDelete(p)
  PROVE  Serial'
<1>1. /\ UNCHANGED <<rows, links, stale>> /\ Alike(p) /\ p \notin stale
      /\ req[p].pc \in {"pick", "pickTarget"}
      /\ Proceeds(p, IF req[p].pc = "pick" THEN "wipe" ELSE "wipeTarget")
  BY StartDeleteFacts DEF Quiet
<1>2. OwnerThere(p)' /\ Wiped(p)'
  BY <1>1 DEF Serial, Sure, OwnerThere, Wiped, Proceeds, Present
<1>3. Sure(p)'
  BY <1>1, <1>2, SureOnward DEF Serial
<1> QED
  BY <1>1, <1>3, SerialByOne

LEMMA DeleteLinksSure ==
  ASSUME Isolation = "Serializable", IInv, Serial, NEW p \in Procs, DeleteLinks(p)
  PROVE  Serial'
<1>1. Alike(p) /\ p \notin stale /\ rows' = rows /\ Proceeds(p, AfterWipe(p))
  BY DeleteLinksFacts
<1>2. CASE req[p].kind \notin InTx
  <2>1. stale' = Outdated(p) /\ req'[p].kind \notin InTx
    BY <1>1, <1>2, DeleteLinksFacts DEF Proceeds
  <2> QED
    BY <1>1, <2>1, SerialByMark
<1>3. CASE req[p].kind \in InTx
  <2>1. /\ UNCHANGED <<links, stale>> /\ req[p].pc = "wipe"
        /\ draft'[p].removed = draft[p].removed \cup Doomed(p)
    BY <1>3, DeleteLinksFacts DEF Quiet, InTx
  <2>2. Doomed(p) = {l \in SeesLinks(p) : l[1] = req[p].on}
    BY <2>1 DEF Doomed, Matching, Side
  <2>3. \A l \in links : l[1] = req[p].on => l \in draft'[p].removed
    BY <2>1, <2>2 DEF SeesLinks
  <2>4. OwnerThere(p)' /\ Wiped(p)'
    BY <1>1, <2>1, <2>3 DEF Serial, Sure, OwnerThere, Wiped, Proceeds, Present
  <2>5. Sure(p)'
    BY <1>1, <2>1, <2>4, SureOnward DEF Serial
  <2> QED
    BY <1>1, <2>1, <2>5, SerialByOne
<1> QED
  BY <1>2, <1>3

LEMMA InsertSure ==
  ASSUME IInv, Serial, NEW p \in Procs, InsertLinks(p)
  PROVE  Serial'
<1>1. /\ UNCHANGED <<rows, links, stale>> /\ Alike(p) /\ p \notin stale
      /\ req[p].kind \in Assigning /\ req[p].pc = "bind"
  BY InsertLinksFacts DEF Quiet
<1>2. CASE Over(p)
  BY <1>1, <1>2, SerialOver DEF Over
<1>3. CASE ~Over(p)
  <2>1. Proceeds(p, "commit") /\ draft'[p].removed = draft[p].removed
    BY <1>3, InsertLinksFacts DEF Keeps
  <2>2. OwnerThere(p)' /\ Wiped(p)'
    BY <1>1, <2>1 DEF Serial, Sure, OwnerThere, Wiped, Proceeds, Present
  <2>3. Sure(p)'
    BY <1>1, <2>1, <2>2, SureOnward DEF Serial
  <2> QED
    BY <1>1, <2>3, SerialByOne
<1> QED
  BY <1>2, <1>3

LEMMA DeleteUserRowSure ==
  ASSUME IInv, Serial, NEW p \in Procs, DeleteUserRow(p)
  PROVE  Serial'
<1>1. /\ UNCHANGED <<rows, links, stale>> /\ Alike(p) /\ p \notin stale
      /\ req[p].kind = "dropUser" /\ req[p].pc = "row"
  BY DeleteUserRowFacts DEF Quiet
<1>2. CASE Over(p)
  BY <1>1, <1>2, SerialOver DEF Over
<1>3. CASE ~Over(p)
  <2>1. Proceeds(p, "commit") /\ draft[p].removed \subseteq draft'[p].removed
    BY <1>3, DeleteUserRowFacts
  <2>2. OwnerThere(p)' /\ Wiped(p)'
    BY <1>1, <2>1 DEF Serial, Sure, OwnerThere, Wiped, Proceeds, Present
  <2>3. Sure(p)'
    BY <1>1, <2>1, <2>2, SureOnward DEF Serial
  <2> QED
    BY <1>1, <2>3, SerialByOne
<1> QED
  BY <1>2, <1>3

\* A transaction that wrote nothing leaves the tables as they are.
LEMMA BlankCommit ==
  ASSUME IInv, NEW p \in Procs, Commit(p), draft[p] = Blank
  PROVE  UNCHANGED <<rows, links, stale>>
<1>1. /\ rows' = [x \in Things |-> CASE x \in draft[p].gone -> Gone
                                     [] x \in draft[p].born -> UserRow
                                     [] OTHER -> rows[x]]
      /\ links' = SeesLinks(p) /\ stale' = stale /\ rows \in [Things -> Rows]
  BY CommitFacts, Typed
<1>2. rows' = [x \in Things |-> rows[x]]
  BY <1>1 DEF Blank
<1> QED
  BY <1>1, <1>2 DEF SeesLinks, Blank

LEMMA SerialStep ==
  ASSUME Isolation = "Serializable", IInv, Known, Serial, [Next]_vars
  PROVE  Serial'
<1>1. CASE UNCHANGED vars
  BY <1>1 DEF vars, Serial, Sure, Looked, OwnerThere, Wiped, Present
<1>2. ASSUME NEW p \in Procs, Change(p) PROVE Serial'
  BY <1>2, ChangeFacts, SerialByMark DEF InTx
<1>3. ASSUME NEW p \in Procs, CheckSystem(p) PROVE Serial'
  <2>1. UNCHANGED <<rows, links, stale>> /\ Alike(p) /\ req'[p].kind \notin InTx
    BY <1>3, CheckFacts DEF Quiet, Proceeds, InTx, Idle
  <2> QED
    BY <2>1, SureOutside, SerialByOne
<1>4. ASSUME NEW p \in Procs, DeleteEntryRow(p) PROVE Serial'
  <2>1. /\ Alike(p) /\ req'[p] = Idle
        /\ stale' = Outdated(p) \/ UNCHANGED <<rows, links, stale>>
    BY <1>4, DeleteEntryRowFacts DEF Quiet
  <2> QED
    BY <2>1, SerialOver, SerialByMark DEF Idle, InTx
<1>5. ASSUME NEW p \in Procs, Commit(p) PROVE Serial'
  <2>1. /\ Alike(p) /\ req'[p] = Idle
        /\ stale' = Outdated(p) \/ UNCHANGED <<rows, links, stale>>
    BY <1>5, CommitFacts, BlankCommit DEF Over
  <2> QED
    BY <2>1, SerialOver, SerialByMark DEF Idle, InTx
<1>6. ASSUME NEW p \in Procs, Fail(p) PROVE Serial'
  BY <1>6, FailFacts, SerialOver DEF Over
<1> QED
  BY <1>1, <1>2, <1>3, <1>4, <1>5, <1>6, OpenSure, GetOwnerSure, LookupSure,
     CreateUserSure, StartDeleteSure, DeleteLinksSure, InsertSure, DeleteUserRowSure
     DEF Next, Advance

LEMMA SerialInvariant ==
  ASSUME Isolation = "Serializable"
  PROVE  Spec => [](IInv /\ Known /\ Serial)
<1>1. Init => Serial
  BY DEF Init, Serial, Sure, Looked, OwnerThere, Wiped, Idle, Assigning, InTx
<1>2. IInv /\ Known /\ Serial /\ [Next]_vars => Serial'
  BY SerialStep
<1> QED
  BY <1>1, <1>2, Invariant, KnownInvariant, PTL DEF Spec

-----------------------------------------------------------------------------
(* Whole requests.                                                         *)

\* What a request that commits makes of the tables.
LEMMA CommitExactly ==
  ASSUME IInv, Known, Serial, NEW p \in Procs, Commit(p)
  PROVE  /\ {l \in links' : l[1] = req[p].on} =
              IF req[p].kind = "dropUser" THEN {} ELSE LinksOf(req[p].on, req[p].found)
         /\ {l \in links' : l[1] # req[p].on} = {l \in links : l[1] # req[p].on}
         /\ rows' = IF req[p].kind = "dropUser" THEN [rows EXCEPT ![req[p].on] = Gone]
                    ELSE IF req[p].kind = "replace" THEN rows
                    ELSE [rows EXCEPT ![req[p].on] = UserRow]
<1>1. /\ req[p].pc = "commit" /\ p \notin stale /\ req[p].kind \in InTx
      /\ links' = (links \ draft[p].removed) \cup draft[p].added
      /\ rows' = [x \in Things |-> CASE x \in draft[p].gone -> Gone
                                     [] x \in draft[p].born -> UserRow
                                     [] OTHER -> rows[x]]
      /\ rows \in [Things -> Rows]
  BY CommitFacts, Typed DEF SeesLinks
<1>2. \A l \in links : l[1] = req[p].on => l \in draft[p].removed
  BY <1>1 DEF Serial, Sure, Wiped
<1>3. \A l \in draft[p].removed : l[1] = req[p].on
  BY Typed DEF Written
<1>4. /\ req[p].kind = "dropUser" => draft[p].added = {}
      /\ req[p].kind # "dropUser" => draft[p].added = LinksOf(req[p].on, req[p].found)
  BY <1>1, CommitWrites
<1>5. \A l \in LinksOf(req[p].on, req[p].found) : l[1] = req[p].on
  BY DEF LinksOf
<1>6. CASE req[p].kind = "dropUser"
  <2>1. draft[p].gone = {req[p].on} /\ draft[p].born = {} /\ draft[p].added = {}
    BY <1>1, <1>6, CommitWrites
  <2>2. rows' = [rows EXCEPT ![req[p].on] = Gone]
    BY <1>1, <2>1
  <2> QED
    BY <1>1, <1>2, <1>3, <1>6, <2>1, <2>2
<1>7. CASE req[p].kind = "replace"
  <2>1. draft[p].gone = {} /\ draft[p].born = {}
    BY <1>1, <1>7, CommitWrites DEF Assigning
  <2>2. rows' = rows
    BY <1>1, <2>1
  <2> QED
    BY <1>1, <1>2, <1>3, <1>4, <1>5, <1>7, <2>2
<1>8. CASE req[p].kind \in Adding
  <2>1. draft[p].gone = {} /\ draft[p].born = {req[p].on}
    BY <1>1, <1>8, CommitWrites DEF Assigning, Adding
  <2>2. rows' = [rows EXCEPT ![req[p].on] = UserRow]
    BY <1>1, <2>1
  <2>3. req[p].kind # "dropUser" /\ req[p].kind # "replace"
    BY <1>8 DEF Adding
  <2>4. {l \in links' : l[1] = req[p].on} = LinksOf(req[p].on, req[p].found)
    BY <1>1, <1>2, <1>4, <1>5, <2>3
  <2>5. {l \in links' : l[1] # req[p].on} = {l \in links : l[1] # req[p].on}
    BY <1>1, <1>3, <1>4, <1>5, <2>3
  <2> QED
    BY <2>2, <2>3, <2>4, <2>5
<1> QED
  BY <1>1, <1>6, <1>7, <1>8 DEF InTx, Adding

LEMMA CommitIsExact ==
  ASSUME IInv, Known, Serial, NEW p \in Procs, Commit(p), req[p].kind # "dropUser"
  PROVE  CodesHeld(req[p].on) = req[p].wanted
<1> DEFINE o == req[p].on
<1>1. {l \in links' : l[1] = o} = LinksOf(o, req[p].found)
  BY CommitExactly
<1>2. /\ req[p].kind \in Assigning /\ req[p].todo = {} /\ p \notin stale
      /\ req[p].found \subseteq Entries
  BY CommitFacts, CommitWrites, Typed DEF Assigning, RequestRows
<1>3. {rows[t].code : t \in req[p].found} = req[p].wanted
  BY <1>2 DEF Serial, Sure, Looked
<1>4. \A t \in req[p].found : rows'[t] = rows[t]
  <2>1. req[p].kind # "replace" => o \in Users
    BY <1>2, Typed DEF OnCourse, Assigning
  <2>2. rows \in [Things -> Rows]
    BY Typed
  <2> QED
    BY <1>2, <2>1, <2>2, CommitExactly, TablesAreDisjoint DEF Entries, Things
<1>5. CodesHeld(o) = {rows'[l[2]].code : l \in LinksOf(o, req[p].found)}
  BY <1>1 DEF CodesHeld
<1>6. {l[2] : l \in LinksOf(o, req[p].found)} = req[p].found
  <2>1. \A l \in LinksOf(o, req[p].found) : l[2] \in req[p].found
    BY DEF LinksOf
  <2>2. ASSUME NEW t \in req[p].found
        PROVE  \E l \in LinksOf(o, req[p].found) : l[2] = t
    <3>1. <<o, t>> \in LinksOf(o, req[p].found) /\ <<o, t>>[2] = t
      BY <2>2 DEF LinksOf
    <3> QED
      BY <3>1
  <2> QED
    BY <2>1, <2>2
<1>7. CodesHeld(o) = {rows'[t].code : t \in req[p].found}
  BY <1>5, <1>6
<1> QED
  BY <1>3, <1>4, <1>7

\* SetUserRoles, SetRolePermissions, ProvisionUser and Register on SQLite: what the
\* owner holds after the commit is what was asked for, whatever else ran meanwhile.
\* (The server's READ COMMITTED breaks it: see run postgres_provision_race.)
THEOREM SerializableAssignmentsAreExact ==
  ASSUME Isolation = "Serializable"
  PROVE  Spec => AssignmentIsExact
<1>1. IInv /\ Known /\ Serial /\ [Next]_vars =>
        [\A p \in Procs : Commit(p) /\ req[p].kind # "dropUser" =>
            CodesHeld(req[p].on) = req[p].wanted]_vars
  BY CommitIsExact
<1> QED
  BY <1>1, SerialInvariant, PTL DEF Spec, AssignmentIsExact

-----------------------------------------------------------------------------
(* Every request is atomic.                                                *)

LEMMA AtomicTables ==
  /\ Atomic!Things = Things /\ Atomic!Entries = Entries /\ Atomic!Owners = Owners
  /\ Atomic!Unborn = Unborn /\ Atomic!Gone = Gone /\ Atomic!UserRow = UserRow
  /\ \A x : Atomic!Present(x) <=> Present(x)
  /\ \A x : Atomic!Table(x) = Table(x) /\ Atomic!TargetTable(x) = TargetTable(x)
  /\ \A e, c : Atomic!Taken(e, c) <=> Taken(e, c)
  /\ \A x : Atomic!Touching(x) = Touching(x)
  /\ \A o, ts : Atomic!LinksOf(o, ts) = LinksOf(o, ts)
<1>1. Atomic!Entries = Entries /\ Atomic!Owners = Owners
  BY DEF Atomic!Entries, Entries, Atomic!Owners, Owners
<1>2. Atomic!Things = Things
  BY <1>1 DEF Atomic!Things, Things
<1>3. Atomic!Unborn = Unborn /\ Atomic!Gone = Gone /\ Atomic!UserRow = UserRow
  BY DEF Atomic!Unborn, Unborn, Atomic!Gone, Gone, Atomic!UserRow, UserRow
<1>4. \A x : Atomic!Present(x) <=> Present(x)
  BY DEF Atomic!Present, Present
<1>5. \A x : Atomic!Table(x) = Table(x) /\ Atomic!TargetTable(x) = TargetTable(x)
  BY DEF Atomic!Table, Table, Atomic!TargetTable, TargetTable
<1>6. \A e, c : Atomic!Taken(e, c) <=> Taken(e, c)
  BY <1>4, <1>5 DEF Atomic!Taken, Taken
<1>7. \A x : Atomic!Touching(x) = Touching(x)
  BY DEF Atomic!Touching, Touching, Atomic!Links, Links
<1>8. \A o, ts : Atomic!LinksOf(o, ts) = LinksOf(o, ts)
  BY DEF Atomic!LinksOf, LinksOf
<1> QED
  BY <1>1, <1>2, <1>3, <1>4, <1>5, <1>6, <1>7, <1>8

AskedBy(r) == [kind |-> r.kind, on |-> r.on, wanted |-> r.wanted]

LEMMA AskedMoves ==
  ASSUME NEW p \in Procs, Alike(p)
  PROVE  /\ Asked' = [Asked EXCEPT ![p] = AskedBy(req'[p])]
         /\ Asked[p] = AskedBy(req[p])
<1>1. /\ Asked = [q \in Procs |-> AskedBy(req[q])]
      /\ Asked' = [q \in Procs |-> AskedBy(req'[q])]
  BY DEF Asked, AskedBy
<1>2. \A q \in Procs \ {p} : AskedBy(req'[q]) = AskedBy(req[q])
  BY DEF Alike, AskedBy
<1> QED
  BY <1>1, <1>2

LEMMA AskedStays ==
  ASSUME NEW p \in Procs, Alike(p), NEW pc, Proceeds(p, pc)
  PROVE  Asked' = Asked
<1>1. AskedBy(req'[p]) = AskedBy(req[p])
  BY DEF Proceeds, AskedBy
<1>2. Asked = [q \in Procs |-> AskedBy(req[q])]
  BY DEF Asked, AskedBy
<1>3. Asked' = [Asked EXCEPT ![p] = Asked[p]]
  BY <1>1, AskedMoves
<1> QED
  BY <1>2, <1>3

LEMMA AskedEnds ==
  ASSUME NEW p \in Procs, Alike(p), req'[p] = Idle
  PROVE  Asked' = [Asked EXCEPT ![p] = Atomic!NoRequest]
<1>1. AskedBy(Idle) = Atomic!NoRequest
  BY DEF AskedBy, Idle, Atomic!NoRequest
<1> QED
  BY <1>1, AskedMoves

\* A request that ends without a trace is refused, or was none.
LEMMA RefuseStep ==
  ASSUME NEW p \in Procs, Alike(p), req'[p] = Idle, UNCHANGED <<rows, links>>
  PROVE  Atomic!Next \/ UNCHANGED <<rows, links, Asked>>
<1>1. Asked' = [Asked EXCEPT ![p] = Atomic!NoRequest]
  BY AskedEnds
<1>2. CASE Asked[p] = Atomic!NoRequest
  <2>1. Asked = [q \in Procs |-> AskedBy(req[q])]
    BY DEF Asked, AskedBy
  <2> QED
    BY <1>1, <1>2, <2>1
<1>3. CASE Asked[p] # Atomic!NoRequest
  <2>1. Atomic!Refuse(p)
    BY <1>1, <1>3 DEF Atomic!Refuse
  <2> QED
    BY <2>1 DEF Atomic!Next
<1> QED
  BY <1>2, <1>3

\* What a commit finds is what the abstract request names.
LEMMA FoundIsNamed ==
  ASSUME IInv, Serial, NEW p \in Procs, Commit(p), req[p].kind # "dropUser"
  PROVE  /\ Atomic!Named(req[p].on, req[p].wanted) = req[p].found
         /\ Atomic!AllNamed(req[p].on, req[p].wanted)
<1>1. req[p].kind \in Assigning /\ req[p].todo = {} /\ p \notin stale
  BY CommitFacts, CommitWrites DEF Assigning
<1>2. /\ req[p].found =
             {t \in TargetTable(req[p].on) : Present(t) /\ rows[t].code \in req[p].wanted}
      /\ {rows[t].code : t \in req[p].found} = req[p].wanted
  BY <1>1 DEF Serial, Sure, Looked
<1>3. Atomic!Named(req[p].on, req[p].wanted) = req[p].found
  BY <1>2, AtomicTables DEF Atomic!Named
<1> QED
  BY <1>2, <1>3 DEF Atomic!AllNamed

LEMMA AtomicCommit ==
  ASSUME IInv, Known, Serial, NEW p \in Procs, Commit(p)
  PROVE  Atomic!Next
<1> DEFINE o == req[p].on
           new == LinksOf(o, req[p].found)
<1>1. /\ Alike(p) /\ req'[p] = Idle /\ req[p].kind \in InTx /\ p \notin stale
      /\ req[p].pc = "commit"
  BY CommitFacts DEF Over
<1>2. /\ Asked' = [Asked EXCEPT ![p] = Atomic!NoRequest]
      /\ Asked[p].kind = req[p].kind /\ Asked[p].on = o
      /\ Asked[p].wanted = req[p].wanted
  <2>1. Asked' = [Asked EXCEPT ![p] = Atomic!NoRequest]
    BY <1>1, AskedEnds
  <2>2. Asked[p] = AskedBy(req[p])
    BY <1>1, AskedMoves
  <2> QED
    BY <2>1, <2>2 DEF AskedBy
<1>3. /\ {l \in links' : l[1] = o} = IF req[p].kind = "dropUser" THEN {} ELSE new
      /\ {l \in links' : l[1] # o} = {l \in links : l[1] # o}
  BY CommitExactly
<1>4. links' = (links \ Atomic!Holding(o))
                 \cup (IF req[p].kind = "dropUser" THEN {} ELSE new)
  <2>1. \A l \in links \ Atomic!Holding(o) : l[1] # o
    BY DEF Atomic!Holding
  <2>2. \A l \in links : l[1] # o => l \notin Atomic!Holding(o)
    BY DEF Atomic!Holding
  <2> HIDE DEF new, o
  <2>3. CASE req[p].kind = "dropUser"
    BY <1>3, <2>1, <2>2, <2>3
  <2>4. CASE req[p].kind # "dropUser"
    BY <1>3, <2>1, <2>2, <2>4
  <2> QED
    BY <2>3, <2>4
<1>5. req[p].kind # "dropUser" =>
        /\ Atomic!AllNamed(o, req[p].wanted)
        /\ Atomic!LinksOf(o, Atomic!Named(o, req[p].wanted)) = new
  <2>1. LinksOf(o, req[p].found) = Atomic!LinksOf(o, req[p].found)
    BY AtomicTables
  <2> QED
    BY <2>1, FoundIsNamed
<1>6. req[p].kind \in {"replace", "dropUser"} => Atomic!Present(o)
  BY <1>1, AtomicTables DEF Serial, Sure, OwnerThere
<1>7. CASE req[p].kind = "replace"
  <2>1. rows' = rows
    BY <1>7, CommitExactly
  <2>2. links' = (links \ Atomic!Holding(o)) \cup new
    BY <1>4, <1>7
  <2> HIDE DEF o, new
  <2>3. Atomic!SetLinks(p)
    BY <1>2, <1>5, <1>6, <1>7, <2>1, <2>2 DEF Atomic!SetLinks, Atomic!Serves
  <2> QED
    BY <2>3 DEF Atomic!Next
<1>8. CASE req[p].kind = "dropUser"
  <2>1. rows' = [rows EXCEPT ![o] = Atomic!Gone]
    BY <1>8, CommitExactly, AtomicTables
  <2>2. links' = links \ Atomic!Holding(o)
    BY <1>4, <1>8
  <2> HIDE DEF o, new
  <2>3. Atomic!DeleteUser(p)
    BY <1>2, <1>6, <1>8, <2>1, <2>2 DEF Atomic!DeleteUser, Atomic!Serves
  <2> QED
    BY <2>3 DEF Atomic!Next
<1>9. CASE req[p].kind \in Adding
  <2>1. rows' = [rows EXCEPT ![o] = Atomic!UserRow] /\ rows[o] = Atomic!Unborn
    BY <1>9, CommitExactly, AtomicTables DEF Adding, Known, KnownRequest
  <2>2. \A l \in links : l[1] # o
    BY <1>9 DEF Known, KnownRequest, Used, Unborn
  <2>3. links' = links \cup new
    BY <1>4, <1>9, <2>2 DEF Adding, Atomic!Holding
  <2>4. Asked[p].kind = "provision" \/ Asked[p].kind = "register"
    BY <1>2, <1>9 DEF Adding
  <2>5. /\ Atomic!AllNamed(o, req[p].wanted)
        /\ Atomic!LinksOf(o, Atomic!Named(o, req[p].wanted)) = new
    BY <1>5, <1>9 DEF Adding
  <2> HIDE DEF o, new
  <2>6. Atomic!AddUser(p)
    BY <1>2, <2>1, <2>3, <2>4, <2>5 DEF Atomic!AddUser, Atomic!Serves
  <2> QED
    BY <2>6 DEF Atomic!Next
<1> QED
  BY <1>1, <1>7, <1>8, <1>9 DEF InTx, Adding

LEMMA AtomicChange ==
  ASSUME IInv, NEW p \in Procs, Change(p)
  PROVE  Atomic!Next
<1>1. links' = links /\ Asked' = Asked
  BY ChangeFacts DEF Asked
<1>2. ASSUME NEW e \in Entries, NEW c \in Codes, NEW system \in BOOLEAN,
             CreateEntry(p, e, c, system)
      PROVE  Atomic!CreateEntry(e, c, system)
  BY <1>1, <1>2, AtomicTables DEF CreateEntry, Atomic!CreateEntry
<1>3. ASSUME NEW e \in Entries, NEW system \in BOOLEAN, EnsureEntry(p, e, system)
      PROVE  Atomic!EnsureEntry(e, system)
  BY <1>1, <1>3, AtomicTables DEF EnsureEntry, Atomic!EnsureEntry
<1>4. ASSUME NEW e \in Entries, NEW c \in Codes, RenameEntry(p, e, c)
      PROVE  Atomic!RenameEntry(e, c)
  BY <1>1, <1>4, AtomicTables DEF RenameEntry, Atomic!RenameEntry
<1>5. Atomic!Entries = Entries
  BY AtomicTables
<1> QED
  BY <1>2, <1>3, <1>4, <1>5, ChangeFacts DEF Atomic!Next

LEMMA AtomicAsk ==
  ASSUME IInv, NEW p \in Procs, Begin(p)
  PROVE  Atomic!Next
<1>1. /\ rows' = rows /\ links' = links /\ Alike(p) /\ req[p] = Idle
  BY OpenFacts DEF Quiet
<1>2. /\ Asked' = [Asked EXCEPT ![p] = AskedBy(req'[p])]
      /\ Asked[p] = AskedBy(req[p])
  BY <1>1, AskedMoves
<1>3. Asked[p] = Atomic!NoRequest
  BY <1>1, <1>2 DEF AskedBy, Idle, Atomic!NoRequest
<1> DEFINE r == req'[p]
<1>4. Atomic!Ask(p, r.kind, r.on, r.wanted)
  BY <1>1, <1>2, <1>3 DEF Atomic!Ask, AskedBy
<1>5. \/ r.kind = "replace" /\ r.on \in Owners /\ r.wanted \in SUBSET Codes
      \/ r.kind = "provision" /\ r.on \in Users /\ r.wanted \in SUBSET Codes
      \/ r.kind = "register" /\ r.on \in Users /\ r.wanted = DefaultCodes
      \/ r.kind = "dropUser" /\ r.on \in Users /\ r.wanted = {}
      \/ r.kind = "dropEntry" /\ r.on \in Entries /\ r.wanted = {}
  BY OpenFacts
<1>6. Atomic!Owners = Owners /\ Atomic!Entries = Entries
  BY AtomicTables
<1> HIDE DEF r
<1>7. Atomic!AskAny(p)
  BY <1>4, <1>5, <1>6 DEF Atomic!AskAny
<1> QED
  BY <1>7 DEF Atomic!Next

LEMMA AtomicDeleteLinks ==
  ASSUME Isolation = "Serializable", IInv, NEW p \in Procs, DeleteLinks(p)
  PROVE  Atomic!Next \/ UNCHANGED <<rows, links, Asked>>
<1>1. Alike(p) /\ rows' = rows /\ Asked' = Asked /\ Asked[p] = AskedBy(req[p])
  BY DeleteLinksFacts, AskedStays, AskedMoves
<1>2. CASE req[p].kind \in InTx
  BY <1>1, <1>2, DeleteLinksFacts DEF Quiet, InTx
<1>3. CASE req[p].kind \notin InTx
  <2>1. /\ req[p].kind = "dropEntry" /\ draft[p] = Blank
        /\ links' = links \ Doomed(p)
    BY <1>3, DeleteLinksFacts
  <2>2. PICK side \in {1, 2} : side = Side(p)
    BY DEF Side
  <2>3. Doomed(p) = {l \in links : l[side] = req[p].on}
    BY <2>1, <2>2 DEF Doomed, Matching, SeesLinks, Blank
  <2>4. links' = {l \in links : l[side] # Asked[p].on}
    BY <1>1, <2>1, <2>3 DEF AskedBy
  <2>5. Atomic!Unlink(p)
    BY <1>1, <2>1, <2>4 DEF Atomic!Unlink, AskedBy
  <2> QED
    BY <2>5 DEF Atomic!Next
<1> QED
  BY <1>2, <1>3

LEMMA AtomicDeleteEntryRow ==
  ASSUME IInv, NEW p \in Procs, DeleteEntryRow(p)
  PROVE  Atomic!Next \/ UNCHANGED <<rows, links, Asked>>
<1> DEFINE e == req[p].on
<1>1. /\ Alike(p) /\ req'[p] = Idle /\ req[p].kind = "dropEntry" /\ draft[p] = Blank
      /\ Asked[p] = AskedBy(req[p])
  BY DeleteEntryRowFacts, AskedMoves
<1>2. CASE rows' = rows /\ links' = links
  BY <1>1, <1>2, RefuseStep
<1>3. CASE ~(rows' = rows /\ links' = links)
  <2>1. /\ Present(e) /\ rows' = [rows EXCEPT ![e] = Gone]
        /\ links' = links \ Cascade(p, e)
    BY <1>3, DeleteEntryRowFacts DEF Quiet
  <2>2. Asked' = [Asked EXCEPT ![p] = Atomic!NoRequest]
    BY <1>1, AskedEnds
  <2>3. links' = IF ForeignKeys THEN links \ Touching(e) ELSE links
    BY <1>1, <2>1 DEF Cascade, SeesLinks, Blank
  <2>4. Asked[p].kind = "dropEntry" /\ Asked[p].on = e
    BY <1>1 DEF AskedBy
  <2>5. Atomic!DeleteEntry(p)
    BY <2>1, <2>2, <2>3, <2>4, AtomicTables DEF Atomic!DeleteEntry, Atomic!Serves
  <2> QED
    BY <2>5 DEF Atomic!Next
<1> QED
  BY <1>2, <1>3

LEMMA AtomicStep ==
  ASSUME Isolation = "Serializable", IInv, Known, Serial, [Next]_vars
  PROVE  [Atomic!Next]_Atomic!vars
<1> USE DEF Atomic!vars
<1>1. CASE UNCHANGED vars
  BY <1>1 DEF vars, Asked
<1>2. ASSUME NEW p \in Procs, Alike(p), UNCHANGED <<rows, links>>,
             req'[p] = Idle \/ \E pc : Proceeds(p, pc)
      PROVE  Atomic!Next \/ UNCHANGED <<rows, links, Asked>>
  BY <1>2, RefuseStep, AskedStays
<1>3. ASSUME NEW p \in Procs, GetOwner(p) \/ CreateUser(p) \/ CheckSystem(p)
      PROVE  Atomic!Next \/ UNCHANGED <<rows, links, Asked>>
  BY <1>2, <1>3, GetOwnerFacts, CreateUserFacts, CheckFacts DEF Quiet, Over
<1>4. ASSUME NEW p \in Procs, StartDelete(p) \/ InsertLinks(p) \/ DeleteUserRow(p)
      PROVE  Atomic!Next \/ UNCHANGED <<rows, links, Asked>>
  BY <1>2, <1>4, StartDeleteFacts, InsertLinksFacts, DeleteUserRowFacts DEF Quiet, Over
<1>5. ASSUME NEW p \in Procs, GetByCode(p)
      PROVE  Atomic!Next \/ UNCHANGED <<rows, links, Asked>>
  <2>1. Alike(p) /\ UNCHANGED <<rows, links>>
    BY <1>5, GetByCodeFacts DEF Quiet
  <2>2. CASE Over(p)
    BY <2>1, <2>2, RefuseStep DEF Over
  <2>3. CASE ~Over(p)
    <3>1. AskedBy(req'[p]) = AskedBy(req[p])
      BY <1>5, <2>3, GetByCodeFacts DEF AskedBy
    <3>2. Asked = [q \in Procs |-> AskedBy(req[q])]
      BY DEF Asked, AskedBy
    <3>3. Asked' = [Asked EXCEPT ![p] = Asked[p]]
      BY <2>1, <3>1, AskedMoves
    <3> QED
      BY <2>1, <3>2, <3>3
  <2> QED
    BY <2>2, <2>3
<1>6. ASSUME NEW p \in Procs, Fail(p)
      PROVE  Atomic!Next \/ UNCHANGED <<rows, links, Asked>>
  BY <1>2, <1>6, FailFacts DEF Over
<1> QED
  BY <1>1, <1>3, <1>4, <1>5, <1>6, AtomicChange, AtomicAsk, AtomicDeleteLinks,
     AtomicDeleteEntryRow, AtomicCommit DEF Next, Advance

\* AuthorizationService and the account requests that assign roles, on SQLite: each
\* takes effect in the one step that ends it, except that a deletion of an entry takes
\* its assignments away first.
THEOREM SerializableIsAtomic ==
  ASSUME Isolation = "Serializable"
  PROVE  Spec => EveryRequestIsAtomic
<1>1. ASSUME Init PROVE Atomic!Init
  <2>1. Asked = [p \in Procs |-> Atomic!NoRequest]
    BY <1>1 DEF Init, Asked, Idle, Atomic!NoRequest
  <2>2. /\ \E there \in SUBSET Users :
              rows = [x \in Atomic!Things |->
                        IF x \in there THEN Atomic!UserRow ELSE Atomic!Unborn]
        /\ links = {}
    BY <1>1, AtomicTables DEF Init
  <2> QED
    BY <2>1, <2>2 DEF Atomic!Init
<1>2. IInv /\ Known /\ Serial /\ [Next]_vars => [Atomic!Next]_Atomic!vars
  BY AtomicStep
<1> QED
  BY <1>1, <1>2, SerialInvariant, PTL DEF Spec, EveryRequestIsAtomic, Atomic!Spec
=============================================================================
