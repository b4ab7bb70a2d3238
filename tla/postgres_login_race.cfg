CONSTANTS
  Procs = {p1, p2}
  Users = {u1}
  Sessions = {s1}
  Passwords = {a, b}
  None = None
  Isolation = "ReadCommitted"
  ForeignKeys = TRUE
SYMMETRY Symmetry
SPECIFICATION Spec
INVARIANTS RevocationsReachEverySession
