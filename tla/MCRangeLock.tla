---------------------------- MODULE MCRangeLock ----------------------------
EXTENDS RangeLock

(* Every range of blocks 0 .. 2. *)
AllRanges == {r \in [start : 0 .. 2, end : 1 .. 3] : r.start < r.end}
=============================================================================
