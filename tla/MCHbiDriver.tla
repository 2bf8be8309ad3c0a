---- MODULE MCHbiDriver ----
EXTENDS HbiDriverInv, TLC
Symmetry == Permutations(Threads)
====
