----------------------- MODULE MCAuthorizedRequests -----------------------
EXTENDS AuthorizedRequests, TLC

\* Goroutines, accounts and names are interchangeable.
Symmetry == Permutations(Procs) \cup Permutations(Users) \cup Permutations(Names)
=============================================================================
