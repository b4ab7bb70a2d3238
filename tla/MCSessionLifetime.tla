-------------------------- MODULE MCSessionLifetime --------------------------
EXTENDS SessionLifetime, TLC

Symmetry == Permutations(Procs) \cup Permutations(Sessions)
=============================================================================
