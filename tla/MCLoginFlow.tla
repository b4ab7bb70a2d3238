----------------------------- MODULE MCLoginFlow -----------------------------
EXTENDS LoginFlow, TLC

\* Goroutines, challenges and sessions are interchangeable.
Symmetry == Permutations(Procs) \cup Permutations(Challenges) \cup Permutations(Sessions)
=============================================================================
