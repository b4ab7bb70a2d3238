SPECIFICATION Spec
CONSTANTS
  Users = {u1}
  Roles = {r1}
  Perms = {q1}
  Codes = {c1, c2}
  None = None
  Procs = {p1, p2}
  DefaultCodes = {c1}
  Isolation = "Serializable"
  ForeignKeys = FALSE
SYMMETRY Symmetry
PROPERTIES AssignmentIsExact EveryRequestIsAtomic ClaimsGrowOnlyByAssignment
