--------------------------- MODULE RangeExclusion ---------------------------
(***************************************************************************)
(* What a range lock promises: the ranges held at one time share no block. *)
(* A range is a record of its first block and the block after its last.    *)
(***************************************************************************)
EXTENDS Integers

CONSTANTS
  Threads,
  Ranges,   \* the ranges threads ask for
  None

VARIABLE held   \* held[t]: the range t holds, or None

Blocks(r) == r.start .. (r.end - 1)

Init == held = [t \in Threads |-> None]

Acquire(t, r) ==
  /\ held[t] = None
  /\ \A u \in Threads : held[u] # None => Blocks(held[u]) \intersect Blocks(r) = {}
  /\ held' = [held EXCEPT ![t] = r]

Release(t) == held[t] # None /\ held' = [held EXCEPT ![t] = None]

Next == \E t \in Threads : Release(t) \/ \E r \in Ranges : Acquire(t, r)

Spec == Init /\ [][Next]_held
=============================================================================
