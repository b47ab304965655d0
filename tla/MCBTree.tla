------------------------------ MODULE MCBTree ------------------------------
EXTENDS BTree, TLC

CONSTANTS n1, n2, n3, n4, n5

(* With three items a larger tree has no room for its root. *)
SmallAndLarge == {{n1, n2, n3}, {n1, n2, n3, n4, n5}}

(* Entries are interchangeable; nodes are not, the arena picks one. *)
Entries == Permutations(Vals)
=============================================================================
