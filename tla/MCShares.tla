------------------------------ MODULE MCShares ------------------------------
EXTENDS Shares

MCSymmetry == Permutations(Names) \cup Permutations(Editors)
=============================================================================
