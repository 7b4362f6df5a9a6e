-------------------------- MODULE MC_NameLifecycle ---------------------------
EXTENDS NameLifecycle, TLC

CONSTANTS n1, n2, n3

Symmetry == Permutations({n1, n2, n3})

=============================================================================
