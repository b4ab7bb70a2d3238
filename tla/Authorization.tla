---------------------------- MODULE Authorization ----------------------------
(***************************************************************************)
(* Roles, permissions and their assignment as AuthorizationService and     *)
(* AccountService run them.  Creating, ensuring and renaming an entry is   *)
(* one statement that commits by itself; deleting one is a sequence of     *)
(* such statements; assignments, provisioning, registration and the        *)
(* deletion of a user run inside WithinTx.  The statements of concurrent   *)
(* requests interleave, under the two isolations that Accounts describes.  *)
(***************************************************************************)

EXTENDS AuthorizationTables

CONSTANTS Procs,        \* the goroutines that serve requests
          DefaultCodes, \* Authorization.DefaultRoleCodes of the options
          Isolation,    \* "Serializable" (SQLite) or "ReadCommitted"
          ForeignKeys   \* whether the database enforces the declared keys

ASSUME IsolationIsKnown == Isolation \in {"Serializable", "ReadCommitted"}
ASSUME ForeignKeysIsBoolean == ForeignKeys \in BOOLEAN
ASSUME ServerEnforcesKeys == Isolation = "ReadCommitted" => ForeignKeys
ASSUME DefaultsAreCodes == DefaultCodes \subseteq Codes

VARIABLES rows,   \* committed: ID -> row of its table
          links,  \* committed rows of the two assignment tables
          req,    \* what each goroutine is doing
          draft,  \* what its open transaction wrote
          stale   \* goroutines whose transaction missed a later commit

vars == <<rows, links, req, draft, stale>>

Kinds == {"idle", "replace", "provision", "register", "dropUser", "dropEntry"}
Steps == {"idle", "owner", "lookup", "born", "pick", "wipe", "bind", "row",
          "commit", "check", "pickTarget", "wipeTarget"}
InTx == {"replace", "provision", "register", "dropUser"}

\* wanted: the codes asked for; todo: those still to look up; found: the IDs
\* they led to; picked: the links the running DELETE saw when it started.
Idle == [kind |-> "idle", pc |-> "idle", on |-> None, wanted |-> {},
         todo |-> {}, found |-> {}, picked |-> {}]
Blank == [born |-> {}, gone |-> {}, added |-> {}, removed |-> {}]

Init == /\ \E there \in SUBSET Users :
              rows = [x \in Things |-> IF x \in there THEN UserRow ELSE Unborn]
        /\ links = {}
        /\ req = [p \in Procs |-> Idle]
        /\ draft = [p \in Procs |-> Blank]
        /\ stale = {}

-----------------------------------------------------------------------------
(* What a statement of p sees, and whose end it waits for.                 *)

Present(x) == rows[x].state = "present"
Sees(p, x) == (Present(x) \/ x \in draft[p].born) /\ x \notin draft[p].gone
SeesLinks(p) == (links \ draft[p].removed) \cup draft[p].added

LinkHolders(p, ls) ==
    {q \in Procs \ {p} : (draft[q].added \cup draft[q].removed) \cap ls # {}}
KeySharers(p, x) == {q \in Procs \ {p} : draft[q].added \cap Touching(x) # {}}
Deleters(p, x) == {q \in Procs \ {p} : x \in draft[q].gone}
Writers(p) == {q \in Procs \ {p} : draft[q] # Blank}

\* SQLite has room for one writing transaction.
MayWrite(p) == Isolation = "Serializable" => Writers(p) = {}

\* After a commit the SQLite transactions that are open lack it.
Outdated(p) == IF Isolation = "Serializable"
               THEN {q \in Procs \ {p} : req[q].kind \in InTx} ELSE stale

\* A row that is gone is not the row a running DELETE saw, even if a row with
\* the same key follows it.
Unpick(request, gone) ==
    [q \in Procs |-> [request[q] EXCEPT !.picked = @ \ gone]]

-----------------------------------------------------------------------------
(* The catalogue: one statement each, committed by itself.                 *)

Taken(e, c) == \E x \in Table(e) \ {e} : Present(x) /\ rows[x].code = c

\* A goroutine that is between requests runs one statement.
Statement(p) ==
    /\ req[p].pc = "idle"
    /\ MayWrite(p)
    /\ stale' = Outdated(p)
    /\ UNCHANGED <<req, draft>>

\* Mutant: an ID that was deleted may be inserted again.
CreateEntryAgain(p, e, c, system) ==
    /\ Statement(p)
    /\ ~Present(e) /\ ~Taken(e, c)
    /\ rows' = [rows EXCEPT ![e] = [state |-> "present", code |-> c,
                                    system |-> system]]
    /\ UNCHANGED links

\* CreateRole and CreatePermission; a taken code is ErrConflict.
CreateEntry(p, e, c, system) ==
    /\ Statement(p)
    /\ rows[e] = Unborn /\ ~Taken(e, c)
    /\ rows' = [rows EXCEPT ![e] = [state |-> "present", code |-> c,
                                    system |-> system]]
    /\ UNCHANGED links

\* EnsureRole and EnsurePermission where the code is there already; where it is
\* not they insert like CreateEntry.
EnsureEntry(p, e, system) ==
    /\ Statement(p)
    /\ Present(e)
    /\ rows' = [rows EXCEPT ![e].system = system]
    /\ UNCHANGED links

\* UpdateRole and UpdatePermission: a system entry may be renamed, its mark
\* stays.  A new code is a key, so the UPDATE waits for rows that refer to e.
RenameEntry(p, e, c) ==
    /\ Statement(p)
    /\ Present(e) /\ ~Taken(e, c)
    /\ c # rows[e].code => KeySharers(p, e) = {}
    /\ rows' = [rows EXCEPT ![e].code = c]
    /\ UNCHANGED links

-----------------------------------------------------------------------------
(* Requests of more than one statement.                                    *)

Open(p, kind, pc, on, wanted) ==
    /\ req[p].pc = "idle"
    /\ req' = [req EXCEPT ![p] =
                 [kind |-> kind, pc |-> pc, on |-> on, wanted |-> wanted,
                  todo |-> wanted, found |-> {}, picked |-> {}]]
    /\ UNCHANGED <<rows, links, draft, stale>>

Unclaimed == {u \in Users : rows[u] = Unborn /\ \A q \in Procs :
                 req[q].kind \in {"provision", "register"} => req[q].on # u}

\* SetUserRoles and SetRolePermissions.
SetLinks(p) == \E o \in Owners, wanted \in SUBSET Codes :
                  Open(p, "replace", "owner", o, wanted)
ProvisionUser(p) == \E u \in Unclaimed, wanted \in SUBSET Codes \ {{}} :
                       Open(p, "provision", "lookup", u, wanted)
\* Register and RegisterAndLogin, whose other statements are in Accounts.
Register(p) == \E u \in Unclaimed : Open(p, "register", "born", u, DefaultCodes)
DeleteUser(p) == \E u \in Users : Open(p, "dropUser", "owner", u, {})
\* DeleteRole and DeletePermission.
DeleteEntry(p) == \E e \in Entries : Open(p, "dropEntry", "check", e, {})

Begin(p) == \/ SetLinks(p) \/ ProvisionUser(p) \/ Register(p)
            \/ DeleteUser(p) \/ DeleteEntry(p)

-----------------------------------------------------------------------------
(* Their statements.                                                       *)

At(p, pc) == req[p].pc = pc /\ p \notin stale
Goto(p, pc) == req' = [req EXCEPT ![p].pc = pc]

\* An error: a transaction rolls back, statements already committed stay.
GiveUp(p) == /\ req' = [req EXCEPT ![p] = Idle]
             /\ draft' = [draft EXCEPT ![p] = Blank]

\* GetUser or GetRole of the owner; DeleteUsers reads the user as well.
GetOwner(p) ==
    /\ At(p, "owner")
    /\ IF Sees(p, req[p].on)
       THEN /\ Goto(p, IF req[p].todo = {} THEN "pick" ELSE "lookup")
            /\ UNCHANGED draft
       ELSE GiveUp(p)
    /\ UNCHANGED <<rows, links, stale>>

\* Mutant: a code that is not there is passed over.
GetByCodeIfThere(p) ==
    /\ At(p, "lookup")
    /\ \E c \in req[p].todo :
          LET hits == {t \in TargetTable(req[p].on) :
                          Present(t) /\ rows[t].code = c}
              rest == req[p].todo \ {c} IN
          req' = [req EXCEPT ![p].found = @ \cup hits, ![p].todo = rest,
                     ![p].pc = IF rest # {} THEN "lookup"
                               ELSE IF req[p].kind = "provision" THEN "born"
                               ELSE "pick"]
    /\ UNCHANGED <<rows, links, draft, stale>>

\* Mutant: remembers the code where the ID is meant.
GetByCodeKeepsCode(p) ==
    /\ At(p, "lookup")
    /\ req' = [req EXCEPT ![p].found = @ \cup req[p].todo, ![p].todo = {},
                          ![p].pc = "pick"]
    /\ UNCHANGED <<rows, links, draft, stale>>

\* One plain SELECT by code for each code that was asked for.
GetByCode(p) ==
    /\ At(p, "lookup")
    /\ \E c \in req[p].todo :
          LET hits == {t \in TargetTable(req[p].on) :
                          Present(t) /\ rows[t].code = c}
              rest == req[p].todo \ {c} IN
          IF hits = {} THEN GiveUp(p)
          ELSE /\ req' = [req EXCEPT ![p].found = @ \cup hits, ![p].todo = rest,
                              ![p].pc = IF rest # {} THEN "lookup"
                                        ELSE IF req[p].kind = "provision" THEN "born"
                                        ELSE "pick"]
               /\ UNCHANGED draft
    /\ UNCHANGED <<rows, links, stale>>

\* Register assigns default roles after it inserted the user, if there are any.
AfterBorn(p) == IF req[p].kind = "provision" THEN "pick"
                ELSE IF req[p].wanted = {} THEN "commit" ELSE "owner"

CreateUser(p) ==
    /\ At(p, "born") /\ MayWrite(p)
    /\ draft' = [draft EXCEPT ![p].born = {req[p].on}]
    /\ Goto(p, AfterBorn(p))
    /\ UNCHANGED <<rows, links, stale>>

\* DeleteRole and DeletePermission refuse a system entry; a permission owns no
\* links.
CheckSystem(p) ==
    /\ At(p, "check")
    /\ IF Present(req[p].on) /\ ~rows[req[p].on].system
       THEN Goto(p, IF req[p].on \in Roles THEN "pick" ELSE "pickTarget")
       ELSE req' = [req EXCEPT ![p] = Idle]
    /\ UNCHANGED <<rows, links, draft, stale>>

Side(p) == IF req[p].pc \in {"pick", "wipe"} THEN 1 ELSE 2
Matching(p) == {l \in SeesLinks(p) : l[Side(p)] = req[p].on}

\* A DELETE over assignments begins: these are the rows it will meet.
StartDelete(p) ==
    /\ \E side \in {"pick", "pickTarget"} : At(p, side)
    /\ req' = [req EXCEPT ![p].picked = Matching(p),
                          ![p].pc = IF @ = "pick" THEN "wipe" ELSE "wipeTarget"]
    /\ UNCHANGED <<rows, links, draft, stale>>

\* Under SQLite a statement is one step, so it meets what is there.
Doomed(p) == IF Isolation = "Serializable" THEN Matching(p) ELSE req[p].picked

AfterWipe(p) ==
    CASE req[p].kind = "dropUser" -> "row"
      [] req[p].kind = "dropEntry" ->
            IF req[p].pc = "wipe" THEN "pickTarget" ELSE "row"
      [] OTHER -> IF req[p].found = {} THEN "commit" ELSE "bind"

\* Mutant: the DELETE runs on the pool and not in the transaction.
DeleteLinksAtOnce(p) ==
    /\ \E side \in {"wipe", "wipeTarget"} : At(p, side)
    /\ MayWrite(p) /\ LinkHolders(p, Doomed(p)) = {}
    /\ links' = links \ Doomed(p)
    /\ req' = Unpick([req EXCEPT ![p].pc = AfterWipe(p)], Doomed(p))
    /\ UNCHANGED <<rows, draft, stale>>

\* Inside a transaction the rows go when it commits, outside at once.
DeleteLinks(p) ==
    /\ \E side \in {"wipe", "wipeTarget"} : At(p, side)
    /\ MayWrite(p) /\ LinkHolders(p, Doomed(p)) = {}
    /\ LET next == [req EXCEPT ![p].pc = AfterWipe(p), ![p].picked = {}] IN
       IF req[p].kind \in InTx
       THEN /\ draft' = [draft EXCEPT ![p].removed = @ \cup Doomed(p)]
            /\ req' = next
            /\ UNCHANGED <<links, stale>>
       ELSE /\ links' = links \ Doomed(p)
            /\ req' = Unpick(next, Doomed(p))
            /\ stale' = Outdated(p)
            /\ UNCHANGED draft
    /\ UNCHANGED rows

\* Mutant: an assignment that is there already is silently kept.
InsertMissingLinks(p) ==
    /\ At(p, "bind") /\ MayWrite(p)
    /\ LET new == LinksOf(req[p].on, req[p].found) IN
       /\ LinkHolders(p, new) \cup Deleters(p, req[p].on) = {}
       /\ IF ForeignKeys => \A x \in {req[p].on} \cup req[p].found : Sees(p, x)
          THEN /\ Goto(p, "commit")
               /\ draft' = [draft EXCEPT ![p].added = new \ SeesLinks(p)]
          ELSE GiveUp(p)
    /\ UNCHANGED <<rows, links, stale>>

\* INSERT of all assignments: it waits for uncommitted rows with the same key
\* and for the deletion of a row it refers to.
InsertLinks(p) ==
    /\ At(p, "bind") /\ MayWrite(p)
    /\ LET new == LinksOf(req[p].on, req[p].found) IN
       /\ LinkHolders(p, new) \cup Deleters(p, req[p].on) = {}
       /\ IF /\ new \cap SeesLinks(p) = {}
             /\ ForeignKeys => \A x \in {req[p].on} \cup req[p].found : Sees(p, x)
          THEN /\ Goto(p, "commit")
               /\ draft' = [draft EXCEPT ![p].added = new]
          ELSE GiveUp(p)
    /\ UNCHANGED <<rows, links, stale>>

\* Mutant: only the key of the owning side is declared to cascade.
CascadeOfOwner(p, x) == {l \in SeesLinks(p) : l[1] = x}

\* What the declared keys delete together with the row of x.
Cascade(p, x) == IF ForeignKeys THEN SeesLinks(p) \cap Touching(x) ELSE {}

RowIsFree(p) ==
    LET x == req[p].on IN
    /\ MayWrite(p)
    /\ KeySharers(p, x) \cup Deleters(p, x) \cup LinkHolders(p, Cascade(p, x)) = {}

DeleteEntryRow(p) ==
    /\ At(p, "row") /\ RowIsFree(p)
    /\ req[p].kind = "dropEntry"
    /\ LET e == req[p].on IN
       IF Present(e)
       THEN /\ rows' = [rows EXCEPT ![e] = Gone]
            /\ links' = links \ Cascade(p, e)
            /\ req' = Unpick([req EXCEPT ![p] = Idle], Cascade(p, e))
            /\ stale' = Outdated(p)
       ELSE /\ req' = [req EXCEPT ![p] = Idle]
            /\ UNCHANGED <<rows, links, stale>>
    /\ UNCHANGED draft

DeleteUserRow(p) ==
    /\ At(p, "row") /\ RowIsFree(p)
    /\ req[p].kind = "dropUser"
    /\ LET u == req[p].on IN
       IF Sees(p, u)
       THEN /\ Goto(p, "commit")
            /\ draft' = [draft EXCEPT ![p].gone = {u},
                                      ![p].removed = @ \cup Cascade(p, u)]
       ELSE GiveUp(p)
    /\ UNCHANGED <<rows, links, stale>>

Commit(p) ==
    /\ At(p, "commit")
    /\ rows' = [x \in Things |-> CASE x \in draft[p].gone -> Gone
                                   [] x \in draft[p].born -> UserRow
                                   [] OTHER -> rows[x]]
    /\ links' = SeesLinks(p)
    /\ req' = Unpick([req EXCEPT ![p] = Idle], draft[p].removed)
    /\ draft' = [draft EXCEPT ![p] = Blank]
    /\ stale' = IF draft[p] = Blank THEN stale ELSE Outdated(p)

\* The request is cancelled, the connection is lost, the snapshot is out of
\* date, the database is busy, or a deadlock makes it the victim.
Fail(p) ==
    /\ req[p].pc # "idle"
    /\ GiveUp(p)
    /\ stale' = stale \ {p}
    /\ UNCHANGED <<rows, links>>

\* ListUserClaims, one SELECT: the codes of the roles of u and of theirs.
Claims(u) ==
    LET held == {r \in Roles : Present(r) /\ <<u, r>> \in links}
        granted == {q \in Perms : Present(q) /\ \E r \in held : <<r, q>> \in links}
    IN [roles |-> {rows[r].code : r \in held},
        permissions |-> {rows[q].code : q \in granted}]

Change(p) ==
    \E e \in Entries :
        \/ \E c \in Codes, system \in BOOLEAN : CreateEntry(p, e, c, system)
        \/ \E system \in BOOLEAN : EnsureEntry(p, e, system)
        \/ \E c \in Codes : RenameEntry(p, e, c)

Advance(p) ==
    \/ GetOwner(p) \/ GetByCode(p) \/ CreateUser(p) \/ CheckSystem(p)
    \/ StartDelete(p) \/ DeleteLinks(p) \/ InsertLinks(p)
    \/ DeleteEntryRow(p) \/ DeleteUserRow(p) \/ Commit(p)

Next == \E p \in Procs : Change(p) \/ Begin(p) \/ Advance(p) \/ Fail(p)

Spec == Init /\ [][Next]_vars

-----------------------------------------------------------------------------
(* Properties.                                                             *)

\* Every variable ranges over what the schema and the code can put there.
TypeOK ==
    /\ rows \in [Things -> Rows]
    /\ links \subseteq Links
    /\ req \in [Procs -> [kind : Kinds, pc : Steps, on : Things \cup {None},
                          wanted : SUBSET Codes, todo : SUBSET Codes,
                          found : SUBSET Entries, picked : SUBSET Links]]
    /\ draft \in [Procs -> [born : SUBSET Users, gone : SUBSET Users,
                            added : SUBSET Links, removed : SUBSET Links]]
    /\ stale \subseteq Procs

\* With the declared keys in force an assignment never outlives the user, the
\* role or the permission it refers to, whatever was deleted while it was made.
NoDanglingLinks ==
    \A l \in links : Present(l[1]) /\ Present(l[2])

\* The codes of what o holds once the step is over.
CodesHeld(o) == {rows'[l[2]].code : l \in {k \in links' : k[1] = o}}

\* A committed assignment is what was asked for: the owner holds the requested
\* codes, no more and no fewer, and none of them under another name by now.
AssignmentIsExact ==
    [][\A p \in Procs : Commit(p) /\ req[p].kind # "dropUser" =>
          CodesHeld(req[p].on) = req[p].wanted]_vars

\* "It locks each requested role and then creates the account, password
\* credential, and role bindings atomically" (docs/architecture.md:41-43): a
\* provisioned account holds the roles that were requested.
ProvisionBindsRequestedRoles ==
    [][\A p \in Procs : Commit(p) /\ req[p].kind = "provision" =>
          CodesHeld(req[p].on) = req[p].wanted]_vars

\* Whatever others replace, rename or delete meanwhile, an assignment that
\* commits has bound every entry it looked up.
AssignmentIsComplete ==
    [][\A p \in Procs : Commit(p) /\ req[p].kind # "dropUser" =>
          LinksOf(req[p].on, req[p].found) \subseteq links']_vars

\* "Role and permission changes take effect on the next Session resolution": a
\* user's claims grow when an assignment to the user or to one of its roles
\* commits, or when something it holds is renamed, and never because entries
\* are deleted and made again, half deleted, or ensured.
Grew(u) == \/ ~(Claims(u).roles' \subseteq Claims(u).roles)
           \/ ~(Claims(u).permissions' \subseteq Claims(u).permissions)
ClaimsGrowOnlyByAssignment ==
    [][\A u \in Users : Grew(u) =>
          \E p \in Procs :
             \/ Commit(p) /\ (req[p].on = u \/ <<u, req[p].on>> \in links)
             \/ \E e \in Entries, c \in Codes : RenameEntry(p, e, c)]_vars

\* Under SQLite a request inside WithinTx takes effect in the one step that ends
\* it, or not at all, and deleting an entry in the few AtomicAuthorization names.
Asked == [p \in Procs |-> [kind |-> req[p].kind, on |-> req[p].on,
                           wanted |-> req[p].wanted]]
Atomic == INSTANCE AtomicAuthorization WITH asked <- Asked
EveryRequestIsAtomic == Atomic!Spec
=============================================================================
