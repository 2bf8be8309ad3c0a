------------------------------- MODULE MCTwHost -------------------------------
EXTENDS TwHostInv, TLC

\* The calls whose commands take an image number.
BootOps == {"load", "erase"}

Symmetry == Permutations(Threads)
=============================================================================
