----------------------------- MODULE BlockPool -----------------------------
(***************************************************************************)
(* What a block allocator promises: an extent it gives out lies in the     *)
(* device, is aligned to its size and shares no block with one that is     *)
(* owned; what is owned only shrinks by being given back, or with a crash, *)
(* which never takes what is reachable.                                    *)
(***************************************************************************)
EXTENDS Integers

CONSTANTS Device,    \* the blocks that may be given out
          Sizes

VARIABLES owned,     \* the extents that are in use
          reachable  \* those that metadata on the medium refers to

Blocks(e) == e.low .. e.low + e.size - 1
Extents == {e \in [low : Device, size : Sizes] : e.low % e.size = 0 /\ Blocks(e) \subseteq Device}

Init == owned = {} /\ reachable = {}

Given == owned' \ owned

Take ==
  /\ owned \subseteq owned' /\ Given \subseteq Extents
  /\ \A e \in Given : \A f \in owned' \ {e} : Blocks(e) \intersect Blocks(f) = {}

GiveBack == owned' \subseteq owned /\ reachable \subseteq owned'

Next ==
  /\ reachable' \subseteq owned'
  /\ Take \/ GiveBack

Spec == Init /\ [][Next]_<<owned, reachable>>
=============================================================================
