----------------------------- MODULE MCAccounts -----------------------------
EXTENDS Accounts, TLC

Symmetry == Permutations(Procs) \cup Permutations(Users)
            \cup Permutations(Sessions) \cup Permutations(Passwords)
=============================================================================
