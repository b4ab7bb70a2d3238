------------------------- MODULE AuthorizedRequests -------------------------
(***************************************************************************)
(* The routes behind RequiredMiddleware: a request resolves its session    *)
(* into a principal, row by row, and its handler acts later on the word of *)
(* that principal while other requests disable the account, end the        *)
(* session, take the permission away or write the same profile.  Each      *)
(* operation of a handler is one step here; Accounts and Authorization     *)
(* have their statements.                                                  *)
(***************************************************************************)

EXTENDS Naturals, FiniteSets

CONSTANTS Procs,   \* the goroutines that serve requests
          Users,   \* accounts, with one session each
          Actions, \* the permissions of the administration routes
          Grants,  \* the sets of them that are assigned
          Names,   \* display names
          None     \* stands for no value

\* What the actions named in domain/types.go let a caller do.
Powers == {"disable", "delete", "grant"}
ASSUME ActionsAreKnown == Actions \subseteq Powers /\ Grants \subseteq SUBSET Actions
ASSUME NoneIsNoName == None \notin Names

VARIABLES session, \* state of the session of each user
          state,   \* state of each account
          granted, \* the permissions its roles give it
          profile, \* its display name
          req,     \* the request each goroutine serves
          seen     \* history: what was true at some time since it came in

vars == <<session, state, granted, profile, req, seen>>

Free == [pc |-> "idle", op |-> "none", user |-> None, tries |-> 0, target |-> None,
         name |-> None, claims |-> {}, known |-> None]

Unseen == [usable |-> FALSE, permitted |-> {}, names |-> {}]

Init == /\ session = [u \in Users |-> "live"]
        /\ state = [u \in Users |-> "active"]
        /\ granted \in [Users -> Grants]
        /\ profile \in [Users -> Names]
        /\ req = [p \in Procs |-> Free]
        /\ seen = [p \in Procs |-> Unseen]

\* What p has seen by the end of a step, if it serves a request of u.
SeenBy(p, u) == [usable    |-> seen[p].usable \/ (session'[u] = "live" /\
                                                  state'[u] = "active"),
                 permitted |-> seen[p].permitted \cup granted'[u],
                 names     |-> seen[p].names \cup {profile'[u]}]
Watch == seen' = [p \in Procs |-> IF req'[p].pc = "idle" THEN Unseen
                                  ELSE SeenBy(p, req'[p].user)]

At(p, pc) == req[p].pc = pc
Goto(p, pc) == req' = [req EXCEPT ![p].pc = pc]
Reply(p) == req' = [req EXCEPT ![p] = Free]
Rows == <<session, state, granted, profile>>

-----------------------------------------------------------------------------
(* A request comes in with the token of a session.                         *)

\* The administration routes are behind RequiredMiddleware alone.
AskAdmin(p) ==
    /\ At(p, "idle")
    /\ \E u \in Users, t \in Users, a \in Actions :
          req' = [req EXCEPT ![p] = [Free EXCEPT !.pc = "session", !.op = a,
                                     !.user = u, !.tries = 1, !.target = t]]
    /\ UNCHANGED Rows /\ Watch

\* The routes of the account itself are behind OptionalMiddleware as well, so a
\* session that did not resolve is tried a second time.
AskOwn(p) ==
    /\ At(p, "idle")
    /\ \E u \in Users, op \in {"logout_all", "patch"}, name \in Names \cup {None} :
          /\ op = "logout_all" => name = None
          /\ req' = [req EXCEPT ![p] = [Free EXCEPT !.pc = "session", !.op = op,
                                        !.user = u, !.tries = 2, !.name = name]]
    /\ UNCHANGED Rows /\ Watch

\* Mutant: a session that does not resolve is tried again and again.
KeepsTrying(p) == req' = [req EXCEPT ![p].pc = "session", ![p].tries = @ - 1]

\* RequiredMiddleware answers 401 when there is no principal.
NoPrincipal(p) ==
    IF req[p].tries > 1
    THEN req' = [req EXCEPT ![p].pc = "session", ![p].tries = @ - 1]
    ELSE Reply(p)

-----------------------------------------------------------------------------
(* Resolve: the row of the session, the row of the user, the claims.       *)

ReadSession(p) ==
    /\ At(p, "session")
    /\ IF session[req[p].user] = "live" THEN Goto(p, "user") ELSE NoPrincipal(p)
    /\ UNCHANGED Rows /\ Watch

ReadUser(p) ==
    /\ At(p, "user")
    /\ IF state[req[p].user] = "active"
       THEN req' = [req EXCEPT ![p].pc = "claims",
                               ![p].known = profile[req[p].user]]
       ELSE NoPrincipal(p)
    /\ UNCHANGED Rows /\ Watch

\* Mutant: the permissions are those the session began with.
ReadOldClaims(p) ==
    /\ At(p, "claims")
    /\ req' = [req EXCEPT ![p].pc = "act", ![p].claims = Actions]
    /\ UNCHANGED Rows /\ Watch

\* ListUserClaims, for every request anew.
ReadClaims(p) ==
    /\ At(p, "claims")
    /\ req' = [req EXCEPT ![p].pc = "act", ![p].claims = granted[req[p].user]]
    /\ UNCHANGED Rows /\ Watch

\* A query fails.
LoseDatabase(p) ==
    /\ req[p].pc \in {"session", "user", "claims"}
    /\ NoPrincipal(p)
    /\ UNCHANGED Rows /\ Watch

-----------------------------------------------------------------------------
(* The handlers.                                                           *)

Authorized(p) == req[p].op \in req[p].claims

\* AuthorizationService.Authorize refuses.
Forbid(p) ==
    /\ At(p, "act") /\ req[p].op \in Actions /\ ~Authorized(p)
    /\ Reply(p)
    /\ UNCHANGED Rows /\ Watch

\* adminState: SetState in one transaction with the sessions.
SetState(p) ==
    LET t == req[p].target IN
    /\ At(p, "act") /\ req[p].op = "disable" /\ Authorized(p)
    /\ \E to \in {"active", "disabled"} :
          /\ state' = IF state[t] = "gone" THEN state ELSE [state EXCEPT ![t] = to]
          /\ session' = IF state[t] # "gone" /\ to = "disabled"
                        THEN [session EXCEPT ![t] = "revoked"] ELSE session
    /\ Reply(p)
    /\ UNCHANGED <<granted, profile>> /\ Watch

\* adminDelete.
DeleteUser(p) ==
    LET t == req[p].target IN
    /\ At(p, "act") /\ req[p].op = "delete" /\ Authorized(p)
    /\ state' = [state EXCEPT ![t] = "gone"]
    /\ session' = [session EXCEPT ![t] = "revoked"]
    /\ granted' = [granted EXCEPT ![t] = {}]
    /\ Reply(p)
    /\ UNCHANGED profile /\ Watch

\* The routes that assign roles to a user or permissions to a role.
SetPermissions(p) ==
    LET t == req[p].target IN
    /\ At(p, "act") /\ req[p].op = "grant" /\ Authorized(p)
    /\ \E as \in Grants :
          granted' = IF state[t] = "gone" THEN granted
                     ELSE [granted EXCEPT ![t] = as]
    /\ Reply(p)
    /\ UNCHANGED <<session, state, profile>> /\ Watch

\* revokeAll.
RevokeAll(p) ==
    /\ At(p, "act") /\ req[p].op = "logout_all"
    /\ session' = [session EXCEPT ![req[p].user] = "revoked"]
    /\ Reply(p)
    /\ UNCHANGED <<state, granted, profile>> /\ Watch

\* Mutant: a body without a name clears it.
NameOfBody(p) == req[p].name

\* A name that the body leaves out is the one the principal was read with.
NewName(p) == IF req[p].name = None THEN req[p].known ELSE req[p].name

\* updateCurrentProfile: the UPDATE has no condition but the ID.  The avatar is
\* left out of the model: a body without one does not set it.
PatchProfile(p) ==
    /\ At(p, "act") /\ req[p].op = "patch"
    /\ profile' = IF state[req[p].user] = "gone" THEN profile
                  ELSE [profile EXCEPT ![req[p].user] = NewName(p)]
    /\ Reply(p)
    /\ UNCHANGED <<session, state, granted>> /\ Watch

Next == \E p \in Procs :
    \/ AskAdmin(p) \/ AskOwn(p)
    \/ ReadSession(p) \/ ReadUser(p) \/ ReadClaims(p) \/ LoseDatabase(p)
    \/ Forbid(p) \/ SetState(p) \/ DeleteUser(p) \/ SetPermissions(p)
    \/ RevokeAll(p) \/ PatchProfile(p)

Spec == Init /\ [][Next]_vars

-----------------------------------------------------------------------------
(* Properties.                                                             *)

\* The columns and the principals range over what the code puts there; a body
\* that leaves the name out never empties it.
TypeOK ==
    /\ session \in [Users -> {"live", "revoked"}]
    /\ state \in [Users -> {"active", "disabled", "gone"}]
    /\ granted \in [Users -> SUBSET Actions]
    /\ profile \in [Users -> Names]
    /\ req \in [Procs -> [pc : {"idle", "session", "user", "claims", "act"},
                          op : Actions \cup {"logout_all", "patch", "none"},
                          user : Users \cup {None}, tries : 0..2,
                          target : Users \cup {None}, name : Names \cup {None},
                          claims : SUBSET Actions, known : Names \cup {None}]]
    /\ seen \in [Procs -> [usable : BOOLEAN,
                           permitted : SUBSET Actions, names : SUBSET Names]]

\* Handlers act for p in a step that ends its request and changes a row.
Acts(p) == At(p, "act") /\ req'[p].pc = "idle" /\ Rows' # Rows

\* "Role and permission changes take effect on the next Session resolution;
\* permissions are not snapshotted into a Session" (docs/architecture.md:54): an
\* administrator acts only with a permission that was held at some time since
\* the request came in, and only if at one time since then the session was live
\* and the account active, so a request that comes later is refused.
ActsOnCurrentRights ==
    [][\A p \in Procs : Acts(p) =>
          /\ seen[p].usable
          /\ req[p].op \in Actions => req[p].op \in seen[p].permitted]_vars

\* The UPDATE of a profile takes the name from the principal where the body has
\* none.  It may undo what another request wrote meanwhile, but only that: the
\* name it writes was the current one at some time since the request came in.
PatchUndoesOnlyMeanwhile ==
    [][\A p \in Procs : Acts(p) /\ req[p].op = "patch" /\ req[p].name = None =>
          profile'[req[p].user] \in seen[p].names]_vars
=============================================================================
