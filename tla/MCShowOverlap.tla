---------------------------- MODULE MCShowOverlap ----------------------------
EXTENDS ShowOverlap, TLC

MCSymmetry == Permutations(Ids) \cup Permutations(Writers)
=============================================================================
