------------------------------ MODULE IndexMap ------------------------------
(***************************************************************************)
(* What the block index of a file promises: a map from block numbers to    *)
(* log entries.  One block at a time is given a new entry, and an entry    *)
(* that loses a block is told so, with the number of the block.  BTree     *)
(* (btree.c) is the code that keeps this promise; FileLog has the map.     *)
(***************************************************************************)
CONSTANTS
  Keys,   \* block numbers
  Vals,   \* log entries
  Null

VARIABLES
  map,    \* map[k]: the entry of block k, or Null
  told    \* what the callback was told of the last change: <<entry, block>>, or Null

Init == map = [k \in Keys |-> Null] /\ told = Null

Put(k, v) ==
  /\ told' = IF map[k] = Null THEN Null ELSE <<map[k], k>>
  /\ map' = [map EXCEPT ![k] = v]

(* a block loses its entry without notice, or the file goes *)
Drop(k) == told' = Null /\ map' = [map EXCEPT ![k] = Null]

Clear == told' = Null /\ map' = [k \in Keys |-> Null]

Next == Clear \/ \E k \in Keys : Drop(k) \/ \E v \in Vals : Put(k, v)

Spec == Init /\ [][Next]_<<map, told>>
=============================================================================
