CONSTANTS
  Procs = {p1, p2}
  Users = {u1}
  Sessions = {s1, s2}
  Passwords = {a, b}
  None = None
  Isolation = "Serializable"
  ForeignKeys = FALSE
SYMMETRY Symmetry
SPECIFICATION Spec
INVARIANTS TypeOK DisabledUserHasNoLiveSession SessionsMatchPassword NoOrphans
PROPERTIES EveryRequestIsAtomic
