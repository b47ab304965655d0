----------------------------- MODULE MCFileLog -----------------------------
EXTENDS FileLog, TLC

SlotSymmetry == Permutations(Slots)
=============================================================================
