CONSTANTS
  Procs = {p1, p2}
  Users = {u1}
  Values = {x}
  Verifications = {v1, v2}
  None = None
  Isolations = {"ReadCommitted"}
  Ttl = 1
  Resend = 1
  MaxAttempts = 1
  MaxTime = 1
SYMMETRY Symmetry
SPECIFICATION Spec
PROPERTIES BindsPendingOnly
