--------------------------- MODULE MCPmfsJournal ---------------------------
(* PmfsJournal on a small journal. *)
EXTENDS PmfsJournal, TLC

SomeSizes == {2, 3}
Alike == Permutations(Threads) \union Permutations(Addrs) \union Permutations(Vals)

(* Nothing is claimed once a gap has opened. *)
NoGap == gaps = {}
=============================================================================
