--------------------------- MODULE MCAuthorization ---------------------------
EXTENDS Authorization, TLC

\* The goroutines and the roles are interchangeable; a default role is named by
\* its code, so the codes are only where all of them are default codes.
Symmetry == Permutations(Procs) \cup Permutations(Roles)
CodeSymmetry == Symmetry \cup Permutations(Codes)
=============================================================================
