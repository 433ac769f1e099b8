---------------------------- MODULE MCCs2Buffer ----------------------------
EXTENDS Cs2Buffer, TLC
Symmetry == Permutations(Block) \cup Permutations(Selector)
=============================================================================
