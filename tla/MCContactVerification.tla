----------------------- MODULE MCContactVerification -----------------------
EXTENDS ContactVerification, TLC

Symmetry == Permutations(Procs) \cup Permutations(Users)
            \cup Permutations(Values) \cup Permutations(Verifications)
=============================================================================
