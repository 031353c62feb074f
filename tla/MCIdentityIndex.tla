--------------------------- MODULE MCIdentityIndex ---------------------------
EXTENDS IdentityIndex, TLC

\* Addresses and users are interchangeable.
Symmetry == Permutations(Ip) \cup Permutations(User)
=============================================================================
