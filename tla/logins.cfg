SPECIFICATION LoginSpec
CONSTANTS
  Procs = {p1, p2}
  Challenges = {c1, c2}
  MaxItems = 1
  TTL = 1
  MaxTime = 1
  None = None
  Users = {u1}
  Sessions = {s1, s2}
  Protected = {"register", "host"}
  Limit = 2
  MaxRestarts = 1
SYMMETRY Symmetry
INVARIANTS LoginTypeOK GuessesAreBounded EventsAreFacts StoreIsBounded AnsweredOnce ImageTypeOK EveryCheckIsPaid FailuresAreRecorded
PROPERTIES KeptUntilExpiry RefusesOnlyWhenFull
