------------------------- MODULE MCHostedOnboarding -------------------------
EXTENDS HostedOnboarding, TLC

Symmetry == Permutations(Users) \cup Permutations(Emails)
=============================================================================
