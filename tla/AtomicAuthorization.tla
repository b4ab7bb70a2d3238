------------------------- MODULE AtomicAuthorization -------------------------
(***************************************************************************)
(* What the authorization service promises of roles, permissions and their *)
(* assignment: who holds what changes in whole requests.  Deleting an      *)
(* entry is the exception: it takes its assignments away first, and a      *)
(* deletion that fails half way leaves the entry without them.             *)
(***************************************************************************)

EXTENDS AuthorizationTables

CONSTANTS Procs,        \* the goroutines that serve requests
          DefaultCodes, \* the codes every registered user gets
          ForeignKeys   \* whether deleting a row deletes what refers to it

VARIABLES rows, links,
          asked  \* the request each goroutine is serving

vars == <<rows, links, asked>>

NoRequest == [kind |-> "idle", on |-> None, wanted |-> {}]
Present(x) == rows[x].state = "present"
Taken(e, c) == \E x \in Table(e) \ {e} : Present(x) /\ rows[x].code = c

Init == /\ \E there \in SUBSET Users :
              rows = [x \in Things |-> IF x \in there THEN UserRow ELSE Unborn]
        /\ links = {}
        /\ asked = [p \in Procs |-> NoRequest]

-----------------------------------------------------------------------------
(* The catalogue.                                                          *)

CreateEntry(e, c, system) ==
    /\ rows[e] = Unborn /\ ~Taken(e, c)
    /\ rows' = [rows EXCEPT ![e] = [state |-> "present", code |-> c,
                                    system |-> system]]
    /\ UNCHANGED <<links, asked>>

EnsureEntry(e, system) ==
    /\ Present(e)
    /\ rows' = [rows EXCEPT ![e].system = system]
    /\ UNCHANGED <<links, asked>>

RenameEntry(e, c) ==
    /\ Present(e) /\ ~Taken(e, c)
    /\ rows' = [rows EXCEPT ![e].code = c]
    /\ UNCHANGED <<links, asked>>

-----------------------------------------------------------------------------
(* Requests: asked for, and then served in the step that ends them.        *)

Ask(p, kind, on, wanted) ==
    /\ asked[p] = NoRequest
    /\ asked' = [asked EXCEPT ![p] = [kind |-> kind, on |-> on, wanted |-> wanted]]
    /\ UNCHANGED <<rows, links>>

AskAny(p) ==
    \/ \E o \in Owners, wanted \in SUBSET Codes : Ask(p, "replace", o, wanted)
    \/ \E u \in Users, wanted \in SUBSET Codes : Ask(p, "provision", u, wanted)
    \/ \E u \in Users : \/ Ask(p, "register", u, DefaultCodes)
                        \/ Ask(p, "dropUser", u, {})
    \/ \E e \in Entries : Ask(p, "dropEntry", e, {})

Serves(p, kind) == /\ asked[p].kind = kind
                   /\ asked' = [asked EXCEPT ![p] = NoRequest]

Holding(o) == {l \in links : l[1] = o}
Named(o, wanted) == {t \in TargetTable(o) : Present(t) /\ rows[t].code \in wanted}
AllNamed(o, wanted) == {rows[t].code : t \in Named(o, wanted)} = wanted

\* SetUserRoles and SetRolePermissions: what the owner held is replaced.
SetLinks(p) ==
    LET o == asked[p].on  wanted == asked[p].wanted IN
    /\ Serves(p, "replace")
    /\ Present(o) /\ AllNamed(o, wanted)
    /\ links' = (links \ Holding(o)) \cup LinksOf(o, Named(o, wanted))
    /\ UNCHANGED rows

\* ProvisionUser, and the registration of a user with the default roles.
AddUser(p) ==
    LET u == asked[p].on  wanted == asked[p].wanted IN
    /\ Serves(p, "provision") \/ Serves(p, "register")
    /\ rows[u] = Unborn /\ AllNamed(u, wanted)
    /\ rows' = [rows EXCEPT ![u] = UserRow]
    /\ links' = links \cup LinksOf(u, Named(u, wanted))

DeleteUser(p) ==
    LET u == asked[p].on IN
    /\ Serves(p, "dropUser")
    /\ Present(u)
    /\ rows' = [rows EXCEPT ![u] = Gone]
    /\ links' = links \ Holding(u)

\* One DELETE of the deletion of an entry: the assignments on one side of it.
Unlink(p) ==
    /\ asked[p].kind = "dropEntry"
    /\ \E side \in {1, 2} : links' = {l \in links : l[side] # asked[p].on}
    /\ UNCHANGED <<rows, asked>>

DeleteEntry(p) ==
    LET e == asked[p].on IN
    /\ Serves(p, "dropEntry")
    /\ Present(e)
    /\ rows' = [rows EXCEPT ![e] = Gone]
    /\ links' = IF ForeignKeys THEN links \ Touching(e) ELSE links

\* A request that is refused or fails leaves no trace but what Unlink took.
Refuse(p) ==
    /\ asked[p] # NoRequest
    /\ asked' = [asked EXCEPT ![p] = NoRequest]
    /\ UNCHANGED <<rows, links>>

Next ==
    \/ \E e \in Entries :
          \/ \E c \in Codes, system \in BOOLEAN : CreateEntry(e, c, system)
          \/ \E system \in BOOLEAN : EnsureEntry(e, system)
          \/ \E c \in Codes : RenameEntry(e, c)
    \/ \E p \in Procs :
          \/ AskAny(p) \/ SetLinks(p) \/ AddUser(p) \/ DeleteUser(p)
          \/ Unlink(p) \/ DeleteEntry(p) \/ Refuse(p)

Spec == Init /\ [][Next]_vars
=============================================================================
