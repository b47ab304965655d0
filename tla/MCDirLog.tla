------------------------------ MODULE MCDirLog ------------------------------
EXTENDS DirLog, TLC

SlotSymmetry == Permutations(Slots)
=============================================================================
