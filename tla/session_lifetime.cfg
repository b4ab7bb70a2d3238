CONSTANTS
  Procs = {p1, p2}
  Users = {u1}
  Sessions = {s1}
  None = None
  Ttl = 5
  Idle = 4
  Touch = 2
  MaxTime = 6
  Isolations = {"Serializable", "ReadCommitted"}
SYMMETRY Symmetry
SPECIFICATION Spec
INVARIANTS TypeOK EndedAdmitsNothing SeenLagsByTouch
PROPERTIES SeenNeverGoesBack
