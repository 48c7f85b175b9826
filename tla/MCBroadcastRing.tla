---- MODULE MCBroadcastRing ----
EXTENDS BroadcastRing_proofs, TLC
Symmetry == Permutations(Readers)
====
