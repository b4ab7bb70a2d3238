------------------------- MODULE AuthorizationTables -------------------------
(***************************************************************************)
(* The rows of identity_roles, identity_permissions, identity_user_roles   *)
(* and identity_role_permissions, and of identity_users as far as an       *)
(* assignment refers to it.  A catalogue entry is a role or a permission;  *)
(* a link <<owner, target>> gives a user a role or a role a permission.    *)
(***************************************************************************)

CONSTANTS Users,   \* user IDs
          Roles,   \* role IDs
          Perms,   \* permission IDs; no ID is ever used twice
          Codes,   \* normalised codes, unique per table
          None     \* stands for no value

ASSUME TablesAreDisjoint ==
    /\ Users \cap Roles = {} /\ Users \cap Perms = {} /\ Roles \cap Perms = {}
    /\ None \notin Users \cup Roles \cup Perms \cup Codes

Entries == Roles \cup Perms
Owners == Users \cup Roles
Things == Users \cup Entries
Links == (Users \X Roles) \cup (Roles \X Perms)

Rows == [state : {"unborn", "present", "gone"}, code : Codes \cup {None},
         system : BOOLEAN]
Unborn == [state |-> "unborn", code |-> None, system |-> FALSE]
Gone == [state |-> "gone", code |-> None, system |-> FALSE]
UserRow == [state |-> "present", code |-> None, system |-> FALSE]

Table(e) == IF e \in Roles THEN Roles ELSE Perms
TargetTable(o) == IF o \in Users THEN Roles ELSE Perms

\* The links that a row of x takes part in.
Touching(x) == {l \in Links : x \in {l[1], l[2]}}
LinksOf(o, targets) == {o} \X targets
=============================================================================
