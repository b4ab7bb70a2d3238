SPECIFICATION Spec
CONSTANTS
  Users = {u1}
  Roles = {r1, r2}
  Perms = {q1}
  Codes = {c1, c2}
  None = None
  Procs = {p1, p2}
  DefaultCodes = {c1, c2}
  Isolation = "ReadCommitted"
  ForeignKeys = TRUE
SYMMETRY CodeSymmetry
INVARIANTS TypeOK NoDanglingLinks
PROPERTIES AssignmentIsComplete
