CONSTANTS
  Procs = {p1, p2}
  Users = {u1}
  Sessions = {s1}
  Passwords = {a, b}
  None = None
  Isolation = "ReadCommitted"
  ForeignKeys = TRUE
SPECIFICATION FairSpec
INVARIANTS NoOrphans
PROPERTIES OnlyAskedPasswordChanges OnlySetStateEnables RequestsEnd
