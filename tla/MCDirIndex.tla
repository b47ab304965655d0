----------------------------- MODULE MCDirIndex -----------------------------
EXTENDS DirIndex

SomeHashes == 1 .. 10
=============================================================================
