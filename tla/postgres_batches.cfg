CONSTANTS
  Procs = {p1, p2}
  Users = {u1, u2}
  Sessions = {s1}
  Passwords = {a}
  None = None
  Isolation = "ReadCommitted"
  ForeignKeys = TRUE
SYMMETRY Symmetry
SPECIFICATION Spec
PROPERTIES BatchIsAllOrNothing
