------------------------------ MODULE MCListStore -----------------------------
EXTENDS ListStore, TLC

CONSTANTS c1, c2, a1, a2

MCClient == {c1, c2}
MCAddr == {a1, a2}

\* The threads that mutate and the addresses are interchangeable.
Symmetry == Permutations(MCClient) \cup Permutations(MCAddr)

=============================================================================
