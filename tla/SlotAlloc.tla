----------------------------- MODULE SlotAlloc -----------------------------
(***************************************************************************)
(* What a slot table promises its callers: a slot that is handed out has   *)
(* no other owner and is not one mkfs reserved, and a slot that is given   *)
(* back can be handed out again.  SlotBitmap (slot.c) is the code that     *)
(* keeps this promise; DirLog takes slots under it.                        *)
(***************************************************************************)
EXTENDS Naturals

CONSTANTS
  Threads,   \* the callers
  Slots,     \* the slots of one table (inode, dirent or filent slots)
  Reserved   \* the slots mkfs marks used before the first caller runs

VARIABLE held   \* held[t]: the slots caller t owns

Owned == Reserved \union UNION {held[t] : t \in Threads}

Init == held = [t \in Threads |-> {}]

Take(t) ==
  \E i \in Slots \ Owned : held' = [held EXCEPT ![t] = @ \union {i}]

Give(t) ==
  \E i \in held[t] : held' = [held EXCEPT ![t] = @ \ {i}]

Next == \E t \in Threads : Take(t) \/ Give(t)

Spec == Init /\ [][Next]_held
=============================================================================
