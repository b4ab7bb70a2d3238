SPECIFICATION Spec
CONSTANTS
  Procs = {p1, p2}
  Users = {u1, u2}
  Actions = {"disable", "delete", "grant"}
  Names = {n1, n2}
  Grants = {{}, {"disable", "delete", "grant"}}
  None = None
SYMMETRY Symmetry
INVARIANTS TypeOK
PROPERTIES ActsOnCurrentRights PatchUndoesOnlyMeanwhile
