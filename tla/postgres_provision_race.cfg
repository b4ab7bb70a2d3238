SPECIFICATION Spec
CONSTANTS
  Users = {u1}
  Roles = {r1, r2}
  Perms = {}
  Codes = {c1, c2}
  None = None
  Procs = {p1, p2}
  DefaultCodes = {c1}
  Isolation = "ReadCommitted"
  ForeignKeys = TRUE
SYMMETRY Symmetry
PROPERTIES ProvisionBindsRequestedRoles
