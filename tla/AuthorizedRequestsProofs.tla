----------------------- MODULE AuthorizedRequestsProofs -----------------------
(***************************************************************************)
(* What module AuthorizedRequests promises of the routes behind the        *)
(* session middleware, for any number of goroutines, accounts and grants.  *)
(***************************************************************************)
EXTENDS AuthorizedRequests, TLAPS

\* What a request has by the time it is at a step, and what was true meanwhile.
Served(p) ==
    /\ req[p].pc # "idle" => /\ req[p].user \in Users
                             /\ req[p].op \in Actions \cup {"logout_all", "patch"}
                             /\ req[p].op \in Actions => req[p].target \in Users
                             /\ req[p].tries \in {1, 2}
    /\ req[p].pc \in {"user", "claims", "act"} => seen[p].usable
    /\ req[p].pc \in {"claims", "act"} => req[p].known \in seen[p].names
    /\ req[p].pc = "act" => req[p].claims \subseteq seen[p].permitted

\* Whoever disables or deletes an account ends its session in the same step.
LiveIsActive == \A u \in Users : session[u] = "live" => state[u] = "active"

IInv == TypeOK /\ LiveIsActive /\ \A p \in Procs : Served(p)

RequestRows ==
    [pc : {"idle", "session", "user", "claims", "act"},
     op : Actions \cup {"logout_all", "patch", "none"},
     user : Users \cup {None}, tries : 0..2,
     target : Users \cup {None}, name : Names \cup {None},
     claims : SUBSET Actions, known : Names \cup {None}]
SeenRows == [usable : BOOLEAN, permitted : SUBSET Actions, names : SUBSET Names]
RowTypes == /\ session \in [Users -> {"live", "revoked"}]
            /\ state \in [Users -> {"active", "disabled", "gone"}]
            /\ granted \in [Users -> SUBSET Actions]
            /\ profile \in [Users -> Names]

LEMMA Types == TypeOK <=> /\ RowTypes /\ req \in [Procs -> RequestRows]
                          /\ seen \in [Procs -> SeenRows]
  BY DEF TypeOK, RowTypes, RequestRows, SeenRows

\* What the history of p holds after a step that leaves p a request.
SeesNow(p) ==
    LET u == req'[p].user IN
    /\ seen[p].usable => seen'[p].usable
    /\ session'[u] = "live" /\ state'[u] = "active" => seen'[p].usable
    /\ seen[p].permitted \subseteq seen'[p].permitted
    /\ granted'[u] \subseteq seen'[p].permitted
    /\ seen[p].names \subseteq seen'[p].names
    /\ profile'[u] \in seen'[p].names

LEMMA Watching ==
    ASSUME TypeOK, RowTypes', Watch,
           \A p \in Procs : req'[p].pc # "idle" => req'[p].user \in Users
    PROVE  /\ seen' \in [Procs -> SeenRows]
           /\ \A p \in Procs : req'[p].pc # "idle" => SeesNow(p)
<1>1. /\ seen \in [Procs -> SeenRows]
      /\ seen' = [p \in Procs |-> IF req'[p].pc = "idle" THEN Unseen
                                  ELSE SeenBy(p, req'[p].user)]
  BY Types DEF Watch
<1>2. Unseen \in SeenRows
  BY DEF Unseen, SeenRows
<1>3. ASSUME NEW p \in Procs, req'[p].pc # "idle"
      PROVE  seen'[p] \in SeenRows /\ SeesNow(p)
  <2> DEFINE u == req'[p].user
             was == seen[p]
  <2>1. /\ u \in Users /\ was \in SeenRows
        /\ session'[u] \in {"live", "revoked"}
        /\ granted'[u] \in SUBSET Actions /\ profile'[u] \in Names
    BY <1>1, <1>3 DEF RowTypes
  <2>2. seen'[p] = [usable |-> was.usable \/ (session'[u] = "live" /\ state'[u] = "active"),
                    permitted |-> was.permitted \cup granted'[u],
                    names |-> was.names \cup {profile'[u]}]
    BY <1>1, <1>3 DEF SeenBy
  <2>3. seen'[p] \in SeenRows
    BY <2>1, <2>2 DEF SeenRows
  <2>4. /\ seen'[p].permitted = was.permitted \cup granted'[u]
        /\ seen'[p].names = was.names \cup {profile'[u]}
        /\ was.usable => seen'[p].usable
        /\ session'[u] = "live" /\ state'[u] = "active" => seen'[p].usable
    <3> DEFINE good == session'[u] = "live" /\ state'[u] = "active"
    <3>1. seen'[p].usable = (was.usable \/ good)
      BY <2>2
    <3>2. /\ seen'[p].permitted = was.permitted \cup granted'[u]
          /\ seen'[p].names = was.names \cup {profile'[u]}
      BY <2>2
    <3> HIDE DEF was, u, good
    <3>3. (was.usable => seen'[p].usable) /\ (good => seen'[p].usable)
      BY <3>1, Zenon
    <3> QED
      BY <3>2, <3>3 DEF good
  <2>5. SeesNow(p)
    BY <2>4 DEF SeesNow
  <2> QED
    BY <2>3, <2>5
<1>4. ASSUME NEW p \in Procs
      PROVE  seen'[p] \in SeenRows
  BY <1>1, <1>2, <1>3
<1> QED
  BY <1>1, <1>3, <1>4

\* A step of p that leaves it row r, whatever it writes, keeps the invariant.
LEMMA ServedStep ==
    ASSUME IInv, NEW p \in Procs, NEW r \in RequestRows,
           req' = [req EXCEPT ![p] = r], RowTypes', LiveIsActive', Watch,
           r.pc # "idle" => /\ r.user \in Users
                            /\ r.op \in Actions \cup {"logout_all", "patch"}
                            /\ r.op \in Actions => r.target \in Users
                            /\ r.tries \in {1, 2},
           r.pc = "user" => session'[r.user] = "live",
           r.pc \in {"claims", "act"} =>
              req[p].pc \in {"user", "claims", "act"},
           r.pc = "claims" => r.known = profile'[r.user],
           r.pc = "act" => /\ req[p].pc \in {"claims", "act"}
                           /\ r.known = req[p].known /\ r.claims = granted'[r.user]
    PROVE  IInv'
<1>1. req' \in [Procs -> RequestRows] /\ req \in [Procs -> RequestRows]
  BY Types DEF IInv
<1>2. \A q \in Procs : req'[q].pc # "idle" => req'[q].user \in Users
  BY <1>1 DEF IInv, Served
<1>3. /\ seen' \in [Procs -> SeenRows]
      /\ \A q \in Procs : req'[q].pc # "idle" => SeesNow(q)
  BY <1>2, Watching DEF IInv
<1>4. Served(p)'
  <2>1. req'[p] = r /\ Served(p)
    BY <1>1 DEF IInv
  <2>2. CASE r.pc = "idle"
    BY <2>1, <2>2 DEF Served
  <2>3. CASE r.pc # "idle"
    <3>1. SeesNow(p) /\ (session'[r.user] = "live" => state'[r.user] = "active")
      BY <1>3, <2>1, <2>3 DEF LiveIsActive
    <3> QED
      BY <2>1, <2>3, <3>1 DEF Served, SeesNow
  <2> QED
    BY <2>2, <2>3
<1>5. ASSUME NEW q \in Procs, q # p
      PROVE  Served(q)'
  <2>1. req'[q] = req[q] /\ Served(q)
    BY <1>5 DEF IInv
  <2>2. req'[q].pc # "idle" => SeesNow(q)
    BY <1>3
  <2> QED
    BY <2>1, <2>2 DEF Served, SeesNow
<1>6. TypeOK'
  BY <1>1, <1>3 DEF TypeOK, RowTypes, RequestRows, SeenRows
<1> QED
  BY <1>4, <1>5, <1>6 DEF IInv

LEMMA FreeRow == Free \in RequestRows /\ Free.pc = "idle"
  BY DEF Free, RequestRows

LEMMA ReplyStep ==
    ASSUME IInv, NEW p \in Procs, Reply(p), RowTypes', LiveIsActive', Watch
    PROVE  IInv'
  BY FreeRow, ServedStep DEF Reply

LEMMA RowsStay ==
    ASSUME IInv, UNCHANGED Rows
    PROVE  RowTypes' /\ LiveIsActive'
  BY Types DEF IInv, Rows, RowTypes, LiveIsActive

\* The middleware tries again or answers.
LEMMA NoPrincipalStep ==
    ASSUME IInv, NEW p \in Procs, req[p].pc # "idle", NoPrincipal(p), UNCHANGED Rows, Watch
    PROVE  IInv'
<1>1. RowTypes' /\ LiveIsActive'
  BY RowsStay
<1>2. CASE Reply(p)
  BY <1>1, <1>2, ReplyStep
<1>3. CASE ~Reply(p)
  <2> DEFINE r == [req[p] EXCEPT !.pc = "session", !.tries = @ - 1]
  <2>1. /\ req[p] \in RequestRows /\ req \in [Procs -> RequestRows] /\ Served(p)
        /\ req[p].tries > 1
        /\ req' = [req EXCEPT ![p].pc = "session", ![p].tries = @ - 1]
    BY <1>3, Types DEF IInv, NoPrincipal
  <2>2. req[p].tries = 2
    BY <2>1 DEF Served
  <2>3. /\ r \in RequestRows /\ r.pc = "session" /\ r.user = req[p].user
        /\ r.op = req[p].op /\ r.target = req[p].target /\ r.tries = 1
    BY <2>1, <2>2 DEF RequestRows
  <2>4. req' = [req EXCEPT ![p] = r]
    BY <2>1
  <2> HIDE DEF r
  <2>5. /\ r.user \in Users /\ r.op \in Actions \cup {"logout_all", "patch"}
        /\ r.op \in Actions => r.target \in Users
        /\ r.tries \in {1, 2}
    BY <2>1, <2>3 DEF Served
  <2> QED
    BY <1>1, <2>3, <2>4, <2>5, ServedStep
<1> QED
  BY <1>2, <1>3

\* The middleware goes on to its next query.
LEMMA ResolveStep ==
    ASSUME IInv, NEW p \in Procs, ReadSession(p) \/ ReadUser(p) \/ ReadClaims(p)
    PROVE  IInv'
<1>0. /\ UNCHANGED Rows /\ Watch /\ RowTypes' /\ LiveIsActive' /\ RowTypes
      /\ req[p] \in RequestRows /\ req \in [Procs -> RequestRows] /\ Served(p)
      /\ req[p].pc \in {"session", "user", "claims"}
  BY RowsStay, Types DEF ReadSession, ReadUser, ReadClaims, IInv, At
<1>1. CASE NoPrincipal(p)
  BY <1>0, <1>1, NoPrincipalStep
<1>2. CASE ~NoPrincipal(p) /\ ReadSession(p)
  <2> DEFINE r == [req[p] EXCEPT !.pc = "user"]
  <2>1. session'[req[p].user] = "live" /\ req' = [req EXCEPT ![p] = r]
    BY <1>0, <1>2 DEF ReadSession, Goto, Rows
  <2>2. /\ r \in RequestRows /\ r.pc = "user" /\ r.user = req[p].user
        /\ r.op = req[p].op /\ r.target = req[p].target /\ r.tries = req[p].tries
    BY <1>0 DEF RequestRows
  <2> HIDE DEF r
  <2>3. /\ r.user \in Users /\ r.op \in Actions \cup {"logout_all", "patch"}
        /\ r.op \in Actions => r.target \in Users
        /\ r.tries \in {1, 2}
    BY <1>0, <2>2 DEF Served
  <2> QED
    BY <1>0, <2>1, <2>2, <2>3, ServedStep
<1>3. CASE ~NoPrincipal(p) /\ ReadUser(p)
  <2> DEFINE name == profile[req[p].user]
             r == [req[p] EXCEPT !.pc = "claims", !.known = name]
  <2>1. /\ req[p].pc = "user" /\ name \in Names /\ name = profile'[req[p].user]
        /\ req' = [req EXCEPT ![p].pc = "claims", ![p].known = name]
    BY <1>0, <1>3 DEF ReadUser, At, Rows, RowTypes, Served
  <2> HIDE DEF name
  <2>2. /\ r \in RequestRows /\ r.pc = "claims" /\ r.user = req[p].user
        /\ r.op = req[p].op /\ r.target = req[p].target /\ r.tries = req[p].tries
        /\ r.known = name
    BY <1>0, <2>1 DEF RequestRows
  <2>3. req' = [req EXCEPT ![p] = r]
    BY <1>0, <2>1
  <2> HIDE DEF r
  <2>4. /\ r.user \in Users /\ r.op \in Actions \cup {"logout_all", "patch"}
        /\ r.op \in Actions => r.target \in Users
        /\ r.tries \in {1, 2} /\ r.known = profile'[r.user]
    BY <1>0, <2>1, <2>2 DEF Served
  <2> QED
    BY <1>0, <2>1, <2>2, <2>3, <2>4, ServedStep
<1>4. CASE ReadClaims(p)
  <2> DEFINE claims == granted[req[p].user]
             r == [req[p] EXCEPT !.pc = "act", !.claims = claims]
  <2>1. /\ req[p].pc = "claims" /\ claims \in SUBSET Actions
        /\ claims = granted'[req[p].user]
        /\ req' = [req EXCEPT ![p].pc = "act", ![p].claims = claims]
    BY <1>0, <1>4 DEF ReadClaims, At, Rows, RowTypes, Served
  <2> HIDE DEF claims
  <2>2. /\ r \in RequestRows /\ r.pc = "act" /\ r.user = req[p].user
        /\ r.op = req[p].op /\ r.target = req[p].target /\ r.tries = req[p].tries
        /\ r.known = req[p].known /\ r.claims = claims
    BY <1>0, <2>1 DEF RequestRows
  <2>3. req' = [req EXCEPT ![p] = r]
    BY <1>0, <2>1
  <2> HIDE DEF r
  <2>4. /\ r.user \in Users /\ r.op \in Actions \cup {"logout_all", "patch"}
        /\ r.op \in Actions => r.target \in Users
        /\ r.tries \in {1, 2} /\ r.claims = granted'[r.user]
    BY <1>0, <2>1, <2>2 DEF Served
  <2> QED
    BY <1>0, <2>1, <2>2, <2>3, <2>4, ServedStep
<1> QED
  BY <1>1, <1>2, <1>3, <1>4

LEMMA RequestWith ==
    ASSUME NEW old \in RequestRows, NEW u \in Users,
           NEW op \in Actions \cup {"logout_all", "patch"}
    PROVE  /\ \A t \in Users :
                 [old EXCEPT !.pc = "session", !.op = op, !.user = u, !.tries = 1,
                             !.target = t] \in RequestRows
           /\ \A name \in Names \cup {None} :
                 [old EXCEPT !.pc = "session", !.op = op, !.user = u, !.tries = 2,
                             !.name = name] \in RequestRows
<1> DEFINE Pcs == {"idle", "session", "user", "claims", "act"}
           Ops == Actions \cup {"logout_all", "patch", "none"}
           Known == Names \cup {None}
           Ids == Users \cup {None}
           Claims == SUBSET Actions
           Tries == 0..2
<1>1. RequestRows = [pc : Pcs, op : Ops, user : Ids, tries : Tries, target : Ids,
                     name : Known, claims : Claims, known : Known]
  BY DEF RequestRows
<1>2. "session" \in Pcs /\ op \in Ops /\ u \in Ids /\ 1 \in Tries /\ 2 \in Tries
  OBVIOUS
<1>3. (\A t \in Users : t \in Ids) /\ (\A name \in Names \cup {None} : name \in Known)
  OBVIOUS
<1> HIDE DEF Pcs, Ops, Known, Ids, Claims, Tries
<1>4. ASSUME NEW t \in Ids
      PROVE  [old EXCEPT !.pc = "session", !.op = op, !.user = u, !.tries = 1,
                         !.target = t] \in RequestRows
  BY <1>1, <1>2
<1>5. ASSUME NEW name \in Known
      PROVE  [old EXCEPT !.pc = "session", !.op = op, !.user = u, !.tries = 2,
                         !.name = name] \in RequestRows
  BY <1>1, <1>2
<1> QED
  BY <1>3, <1>4, <1>5

LEMMA AskStep ==
    ASSUME IInv, NEW p \in Procs, AskAdmin(p) \/ AskOwn(p)
    PROVE  IInv'
<1>0. RowTypes' /\ LiveIsActive' /\ Watch
  BY RowsStay DEF AskAdmin, AskOwn
<1>1. CASE AskAdmin(p)
  <2>1. PICK u \in Users, t \in Users, a \in Actions :
          req' = [req EXCEPT ![p] = [Free EXCEPT !.pc = "session", !.op = a,
                                     !.user = u, !.tries = 1, !.target = t]]
    BY <1>1 DEF AskAdmin
  <2> DEFINE r == [Free EXCEPT !.pc = "session", !.op = a, !.user = u, !.tries = 1,
                               !.target = t]
  <2>2. /\ r \in RequestRows /\ r.pc = "session" /\ r.user = u
        /\ r.op = a /\ r.target = t /\ r.tries = 1
    BY FreeRow, RequestWith DEF Free
  <2> HIDE DEF r
  <2> QED
    BY <1>0, <2>1, <2>2, ServedStep DEF r
<1>2. CASE AskOwn(p)
  <2>1. PICK u \in Users, op \in {"logout_all", "patch"}, name \in Names \cup {None} :
          req' = [req EXCEPT ![p] = [Free EXCEPT !.pc = "session", !.op = op,
                                        !.user = u, !.tries = 2, !.name = name]]
    BY <1>2 DEF AskOwn
  <2> DEFINE r == [Free EXCEPT !.pc = "session", !.op = op, !.user = u, !.tries = 2,
                               !.name = name]
  <2>2. /\ r \in RequestRows /\ r.pc = "session" /\ r.user = u
        /\ r.op = op /\ r.tries = 2 /\ r.op \notin Actions
    BY ActionsAreKnown, FreeRow, RequestWith DEF Free, Powers
  <2> HIDE DEF r
  <2> QED
    BY <1>0, <2>1, <2>2, ServedStep DEF r
<1> QED
  BY <1>1, <1>2

\* A handler writes what the schema allows and ends a session with its account.
LEMMA ActStep ==
    ASSUME IInv, NEW p \in Procs,
           \/ Forbid(p) \/ SetState(p) \/ DeleteUser(p) \/ SetPermissions(p)
           \/ RevokeAll(p) \/ PatchProfile(p)
    PROVE  IInv'
<1>0. /\ Reply(p) /\ Watch /\ RowTypes /\ LiveIsActive
      /\ req[p].user \in Users
      /\ req[p].op \in Actions => req[p].target \in Users
      /\ Served(p) /\ req[p] \in RequestRows /\ req[p].pc = "act"
      /\ Powers = {"disable", "delete", "grant"}
      /\ Authorized(p) => req[p].op \in Actions
  BY Types DEF Forbid, SetState, DeleteUser, SetPermissions, RevokeAll, PatchProfile,
               IInv, At, Served, Powers, Authorized, RequestRows
<1> SUFFICES RowTypes' /\ LiveIsActive'
  BY <1>0, ReplyStep
<1>1. CASE Forbid(p)
  BY <1>1, RowsStay DEF Forbid
<1>2. CASE SetState(p)
  BY <1>0, <1>2 DEF SetState, RowTypes, LiveIsActive
<1>3. CASE DeleteUser(p)
  BY <1>0, <1>3 DEF DeleteUser, RowTypes, LiveIsActive
<1>4. CASE SetPermissions(p)
  <2>1. PICK as \in Grants :
          granted' = IF state[req[p].target] = "gone" THEN granted
                     ELSE [granted EXCEPT ![req[p].target] = as]
    BY <1>4 DEF SetPermissions
  <2>2. as \in SUBSET Actions
    BY <2>1, ActionsAreKnown
  <2>3. UNCHANGED <<session, state, profile>>
    BY <1>4 DEF SetPermissions
  <2> QED
    BY <1>0, <2>1, <2>2, <2>3 DEF RowTypes, LiveIsActive
<1>5. CASE RevokeAll(p)
  BY <1>0, <1>5 DEF RevokeAll, RowTypes, LiveIsActive
<1>6. CASE PatchProfile(p)
  <2>1. req[p].known \in Names /\ NewName(p) \in Names
    <3>1. seen[p].names \subseteq Names /\ req[p].known \in seen[p].names
      BY <1>0, Types DEF IInv, SeenRows, Served
    <3> QED
      BY <1>0, <3>1 DEF NewName, RequestRows
  <2> QED
    BY <1>0, <1>6, <2>1 DEF PatchProfile, RowTypes, LiveIsActive
<1> QED
  BY <1>1, <1>2, <1>3, <1>4, <1>5, <1>6

LEMMA Invariant == Spec => []IInv
<1>1. Init => IInv
  BY ActionsAreKnown
     DEF Init, IInv, TypeOK, LiveIsActive, Served, Free, Unseen
<1>2. IInv /\ [Next]_vars => IInv'
  <2> SUFFICES ASSUME IInv, [Next]_vars PROVE IInv'
    OBVIOUS
  <2>1. CASE UNCHANGED vars
    BY <2>1 DEF IInv, TypeOK, LiveIsActive, Served, vars
  <2>2. ASSUME NEW p \in Procs, AskAdmin(p) \/ AskOwn(p) PROVE IInv'
    BY <2>2, AskStep
  <2>3. ASSUME NEW p \in Procs, ReadSession(p) \/ ReadUser(p) \/ ReadClaims(p) PROVE IInv'
    BY <2>3, ResolveStep
  <2>4. ASSUME NEW p \in Procs, LoseDatabase(p) PROVE IInv'
    BY <2>4, NoPrincipalStep DEF LoseDatabase
  <2>5. ASSUME NEW p \in Procs,
               \/ Forbid(p) \/ SetState(p) \/ DeleteUser(p) \/ SetPermissions(p)
               \/ RevokeAll(p) \/ PatchProfile(p)
        PROVE  IInv'
    BY <2>5, ActStep
  <2> QED
    BY <2>1, <2>2, <2>3, <2>4, <2>5 DEF Next
<1> QED
  BY <1>1, <1>2, PTL DEF Spec

-----------------------------------------------------------------------------
(* What a reader should know.                                              *)

\* The columns and the principals keep their types; a body that leaves the name
\* out (updateCurrentProfile, handler/user.go) never empties it.
THEOREM RequestsTypeCorrect == Spec => []TypeOK
<1>1. IInv => TypeOK
  BY DEF IInv
<1> QED
  BY <1>1, Invariant, PTL

\* A goroutine whose request acts is the one that takes the step.
LEMMA ActsItself ==
    ASSUME IInv, [Next]_vars, NEW p \in Procs, Acts(p)
    PROVE  SetState(p) \/ DeleteUser(p) \/ SetPermissions(p) \/ RevokeAll(p) \/ PatchProfile(p)
<1>1. req \in [Procs -> RequestRows] /\ req[p].pc = "act" /\ req'[p].pc = "idle"
  BY Types DEF IInv, Acts, At
<1>2. PICK q \in Procs :
        \/ AskAdmin(q) \/ AskOwn(q)
        \/ ReadSession(q) \/ ReadUser(q) \/ ReadClaims(q) \/ LoseDatabase(q)
        \/ Forbid(q) \/ SetState(q) \/ DeleteUser(q) \/ SetPermissions(q)
        \/ RevokeAll(q) \/ PatchProfile(q)
  BY <1>1 DEF Next, vars
<1>3. UNCHANGED Rows \/ SetState(q) \/ DeleteUser(q) \/ SetPermissions(q) \/ RevokeAll(q)
                     \/ PatchProfile(q)
  BY <1>2 DEF AskAdmin, AskOwn, ReadSession, ReadUser, ReadClaims, LoseDatabase, Forbid
<1>4. req' = [req EXCEPT ![q] = Free]
  BY <1>3 DEF Acts, SetState, DeleteUser, SetPermissions, RevokeAll, PatchProfile, Reply
<1>5. q = p
  BY <1>1, <1>4
<1> QED
  BY <1>3, <1>5 DEF Acts

\* RequiredMiddleware (handler/middleware.go) resolves the session for every request and
\* Authorize judges by what it found: whatever is disabled, ended or taken away
\* meanwhile, a handler acts only on a session and a permission that were good at
\* some time since its request came in.
THEOREM HandlersActOnCurrentRights == Spec => ActsOnCurrentRights
<1>1. ASSUME IInv, [Next]_vars, NEW p \in Procs, Acts(p)
      PROVE  /\ seen[p].usable
             /\ req[p].op \in Actions => req[p].op \in seen[p].permitted
  <2>1. Served(p) /\ req[p].pc = "act"
    BY <1>1 DEF IInv, Acts, At
  <2>2. req[p].op \in Actions => Authorized(p)
    BY <1>1, ActsItself, ActionsAreKnown
       DEF SetState, DeleteUser, SetPermissions, RevokeAll, PatchProfile, Powers
  <2> QED
    BY <2>1, <2>2 DEF Served, Authorized
<1>2. IInv /\ [Next]_vars =>
        [\A p \in Procs : Acts(p) =>
            /\ seen[p].usable
            /\ req[p].op \in Actions => req[p].op \in seen[p].permitted]_vars
  BY <1>1
<1> QED
  BY <1>2, Invariant, PTL DEF Spec, ActsOnCurrentRights

\* updateCurrentProfile (handler/user.go) writes the name of the principal where the
\* body has none: it can undo only what was written since the request came in.
THEOREM PatchesUndoOnlyMeanwhile == Spec => PatchUndoesOnlyMeanwhile
<1>1. ASSUME IInv, [Next]_vars, NEW p \in Procs, Acts(p), req[p].op = "patch",
             req[p].name = None
      PROVE  profile'[req[p].user] \in seen[p].names
  <2>1. /\ Served(p) /\ req[p].pc = "act" /\ RowTypes /\ req[p].user \in Users
        /\ Rows' # Rows
    BY <1>1, Types DEF IInv, Acts, At, Served
  <2>2. PatchProfile(p)
    BY <1>1, ActsItself DEF SetState, DeleteUser, SetPermissions, RevokeAll
  <2>3. profile' = [profile EXCEPT ![req[p].user] = NewName(p)]
    BY <2>1, <2>2 DEF PatchProfile, Rows
  <2>4. profile'[req[p].user] = req[p].known
    BY <1>1, <2>1, <2>3 DEF NewName, RowTypes
  <2> QED
    BY <2>1, <2>4 DEF Served
<1>2. IInv /\ [Next]_vars =>
        [\A p \in Procs : Acts(p) /\ req[p].op = "patch" /\ req[p].name = None =>
          profile'[req[p].user] \in seen[p].names]_vars
  BY <1>1
<1> QED
  BY <1>2, Invariant, PTL DEF Spec, PatchUndoesOnlyMeanwhile
=============================================================================
