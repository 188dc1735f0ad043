---------------------------- MODULE MCAuthSrv ----------------------------
EXTENDS AuthSrv, TLC
Symmetry == Permutations(Accounts) \cup Permutations(Districts)
=============================================================================
