CONSTANTS
  Procs = {p1, p2}
  Users = {u1, u2}
  Values = {x}
  Verifications = {v1, v2}
  None = None
  Isolations = {"Serializable", "ReadCommitted"}
  Ttl = 1
  Resend = 1
  MaxAttempts = 2
  MaxTime = 1
SYMMETRY Symmetry
SPECIFICATION Spec
INVARIANTS TypeOK OnePending ContactWasVerified GuessesAreLimited
PROPERTIES SerializedBindsPendingOnly LosesContactByUnbindOnly
