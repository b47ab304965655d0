-------------------------- MODULE RangeLockProofs --------------------------
(***************************************************************************)
(* The range lock excludes, for any number of threads, any ranges and any  *)
(* size of the table.  TableExact is not inductive by itself: that a free  *)
(* entry is filled with a range nobody holds follows from the entries      *)
(* being apart, and that range_unlock frees the entry of its own thread    *)
(* from the holders being apart.                                           *)
(***************************************************************************)
EXTENDS RangeLock, FiniteSetTheorems, TLAPS

(* The values the variables take. *)
LockTypeOK ==
  /\ valid \in [Entries -> BOOLEAN]
  /\ rlock \in [Entries -> [start : Nat, end : Nat]]
  /\ pc \in [Threads -> {"idle", "lock", "poll", "held", "abort"}]
  /\ range \in [Threads -> Ranges \union {None}]
  /\ \A t \in Threads : pc[t] # "idle" => range[t] \in Ranges

(* Two entries in use, and two ranges held, share no block. *)
EntriesApart ==
  \A i, j \in Entries : valid[i] /\ valid[j] /\ i # j => ~is_overlap(rlock[i], rlock[j])

HoldersApart ==
  \A t, u \in Threads :
    pc[t] = "held" /\ pc[u] = "held" /\ t # u => ~is_overlap(range[t], range[u])

IInv == LockTypeOK /\ TableExact /\ EntriesApart /\ HoldersApart

(* A range overlaps itself, and overlapping is symmetric. *)
LEMMA OverlapFacts ==
  /\ \A r \in Ranges : r \in [start : Nat, end : Nat] /\ is_overlap(r, r)
  /\ \A a, b : is_overlap(a, b) <=> is_overlap(b, a)
BY RangeAssumption, Zenon DEF is_overlap

(* Ranges that do not overlap have no block in common. *)
LEMMA ApartIsDisjoint ==
  ASSUME NEW a \in Ranges, NEW b \in Ranges, ~is_overlap(a, b)
  PROVE  (a.start .. (a.end - 1)) \intersect (b.start .. (b.end - 1)) = {}
BY RangeAssumption DEF is_overlap

(* The entries in use are a finite set, and counting them counts to zero    *)
(* only when there is none.                                                 *)
LEMMA UsedFinite ==
  /\ IsFiniteSet({i \in Entries : valid[i]})
  /\ Cardinality({i \in Entries : valid[i]}) \in Nat
  /\ Cardinality({i \in Entries : valid[i]}) = 0 => \A i \in Entries : ~valid[i]
<1>1. IsFiniteSet(Entries)
  BY RangeAssumption, FS_Interval DEF Entries
<1>2. {i \in Entries : valid[i]} \subseteq Entries
  OBVIOUS
<1>3. IsFiniteSet({i \in Entries : valid[i]})
  BY <1>1, <1>2, FS_Subset, Zenon
<1> QED
  BY <1>3, FS_CardinalityType, FS_EmptySet, Zenon

(* Filling a free entry with a range that overlaps none in use keeps the    *)
(* invariant, whichever of the two branches of range_lock does it.          *)
LEMMA TakeKeeps ==
  ASSUME IInv, NEW t \in Threads, NEW i \in Entries, pc[t] = "lock", ~valid[i],
         \A j \in Entries : valid[j] => ~is_overlap(range[t], rlock[j]),
         Take(t, i)
  PROVE  IInv'
<1> USE DEF Take
<1>1. LockTypeOK'
  BY OverlapFacts, Zenon DEF IInv, LockTypeOK
<1>2. /\ valid' = [valid EXCEPT ![i] = TRUE] /\ rlock' = [rlock EXCEPT ![i] = range[t]]
      /\ pc' = [pc EXCEPT ![t] = "held"] /\ range' = range /\ lock_count' = lock_count + 1
      /\ valid \in [Entries -> BOOLEAN] /\ pc \in [Threads -> {"idle", "lock", "poll", "held", "abort"}]
      /\ rlock \in [Entries -> [start : Nat, end : Nat]]
  BY Zenon DEF IInv, LockTypeOK
<1> HIDE DEF Take
<1>3. EntriesApart'
  BY <1>2, OverlapFacts, Zenon DEF IInv, EntriesApart
<1>4. HoldersApart'
  BY <1>2, OverlapFacts, ZenonT(60) DEF IInv, HoldersApart, TableExact
<1>5. TableExact'
  <2>1. {j \in Entries : valid'[j]} = {j \in Entries : valid[j]} \union {i}
    BY <1>2, Zenon
  <2>2. lock_count' = Cardinality({j \in Entries : valid'[j]})
    BY <1>2, <2>1, UsedFinite, FS_AddElement, ZenonT(60) DEF IInv, TableExact
  <2>3. \A u \in Threads : pc'[u] = "held" => \E j \in Entries : valid'[j] /\ rlock'[j] = range'[u]
    BY <1>2 DEF IInv, TableExact
  <2>4. \A j \in Entries : valid'[j] => \E u \in Threads : pc'[u] = "held" /\ range'[u] = rlock'[j]
    BY <1>2 DEF IInv, TableExact
  <2>5. \A u \in Threads : pc'[u] # "abort"
    BY <1>2, Zenon DEF IInv, TableExact
  <2> QED BY <2>2, <2>3, <2>4, <2>5, Zenon DEF TableExact
<1> QED BY <1>1, <1>3, <1>4, <1>5, Zenon DEF IInv

(* range_unlock frees the entry of its thread: no other holder has it. *)
LEMMA UnlockKeeps ==
  ASSUME IInv, NEW t \in Threads, Unlock(t)
  PROVE  IInv'
<1>1. PICK i \in Entries : Matches(t, i) /\ valid' = [valid EXCEPT ![i] = FALSE]
  BY Zenon DEF Unlock
<1>2. /\ pc[t] = "held" /\ pc' = [pc EXCEPT ![t] = "idle"]
      /\ range' = [range EXCEPT ![t] = None] /\ rlock' = rlock /\ lock_count' = lock_count - 1
      /\ valid[i] /\ rlock[i] = range[t]
      /\ valid \in [Entries -> BOOLEAN] /\ pc \in [Threads -> {"idle", "lock", "poll", "held", "abort"}]
      /\ range \in [Threads -> Ranges \union {None}] /\ range[t] \in Ranges
  BY <1>1, Zenon DEF IInv, LockTypeOK, Unlock, Matches
<1>3. LockTypeOK'
  BY <1>1, <1>2, Zenon DEF IInv, LockTypeOK
<1>4. EntriesApart'
  BY <1>1, <1>2, Zenon DEF IInv, EntriesApart
<1>5. HoldersApart'
  BY <1>2, Zenon DEF IInv, HoldersApart
<1>6. TableExact'
  <2>1. {j \in Entries : valid'[j]} = {j \in Entries : valid[j]} \ {i}
    BY <1>1, <1>2, Zenon
  <2>2. lock_count' = Cardinality({j \in Entries : valid'[j]})
    <3>1. i \in {j \in Entries : valid[j]}
      BY <1>2, Zenon
    <3>2. Cardinality({j \in Entries : valid[j]} \ {i}) = Cardinality({j \in Entries : valid[j]}) - 1
      BY <3>1, UsedFinite, FS_RemoveElement, Zenon
    <3> QED BY <1>2, <2>1, <3>2, Zenon DEF IInv, TableExact
  <2>3. \A u \in Threads : pc'[u] = "held" => \E j \in Entries : valid'[j] /\ rlock'[j] = range'[u]
    <3>1. SUFFICES ASSUME NEW u \in Threads, pc[u] = "held", u # t
                   PROVE  \E j \in Entries : valid'[j] /\ rlock'[j] = range'[u]
      BY <1>2, Zenon
    <3>2. PICK j \in Entries : valid[j] /\ rlock[j] = range[u]
      BY <3>1, Zenon DEF IInv, TableExact
    <3>3. ~is_overlap(range[t], range[u])
      BY <1>2, <3>1, Zenon DEF IInv, HoldersApart
    <3>4. j # i
      BY <1>2, <3>2, <3>3, OverlapFacts, Zenon
    <3> QED BY <1>1, <1>2, <3>1, <3>2, <3>4, Zenon
  <2>4. \A j \in Entries : valid'[j] => \E u \in Threads : pc'[u] = "held" /\ range'[u] = rlock'[j]
    <3>1. SUFFICES ASSUME NEW j \in Entries, valid[j], j # i
                   PROVE  \E u \in Threads : pc'[u] = "held" /\ range'[u] = rlock'[j]
      BY <1>1, <1>2
    <3>2. PICK u \in Threads : pc[u] = "held" /\ range[u] = rlock[j]
      BY <3>1, Zenon DEF IInv, TableExact
    <3>3. ~is_overlap(rlock[i], rlock[j])
      BY <1>2, <3>1, Zenon DEF IInv, EntriesApart
    <3>4. u # t
      BY <1>2, <3>2, <3>3, OverlapFacts, Zenon
    <3> QED BY <1>2, <3>2, <3>4, Zenon
  <2>5. \A u \in Threads : pc'[u] # "abort"
    BY <1>2, Zenon DEF IInv, TableExact
  <2> QED BY <2>2, <2>3, <2>4, <2>5, Zenon DEF TableExact
<1> QED BY <1>3, <1>4, <1>5, <1>6, Zenon DEF IInv

(* range_unlock finds its entry, and never reaches assert(0). *)
LEMMA LeaveUnlocks ==
  ASSUME IInv, NEW t \in Threads, Leave(t)
  PROVE  Unlock(t)
<1>1. \E i \in Entries : Matches(t, i)
  BY Zenon DEF Leave, Matches, IInv, TableExact
<1> QED BY <1>1, Zenon DEF Leave

(* Every step keeps the invariant. *)
LEMMA StepKeeps ==
  ASSUME IInv, [Next]_vars
  PROVE  IInv'
<1>1. ASSUME NEW t \in Threads, LockFirst(t) PROVE IInv'
  <2>1. \A i \in Entries : ~valid[i]
    BY <1>1, UsedFinite, Zenon DEF LockFirst, IInv, TableExact
  <2>2. 0 \in Entries
    BY RangeAssumption DEF Entries
  <2> QED BY <1>1, <2>1, <2>2, TakeKeeps, Zenon DEF LockFirst
<1>2. ASSUME NEW t \in Threads, LockFree(t) PROVE IInv'
  BY <1>2, TakeKeeps, Zenon DEF LockFree, Overlaps
<1>3. ASSUME NEW t \in Threads, LockRefused(t) \/ PollEnds(t) PROVE IInv'
  <2>1. /\ UNCHANGED <<valid, rlock, lock_count, range>>
        /\ pc[t] \in {"lock", "poll"}
        /\ pc' = [pc EXCEPT ![t] = "lock"] \/ pc' = [pc EXCEPT ![t] = "poll"]
    BY <1>3, Zenon DEF LockRefused, PollEnds
  <2>2. LockTypeOK'
    BY <2>1, Zenon DEF IInv, LockTypeOK
  <2>3. EntriesApart'
    BY <2>1, Zenon DEF IInv, EntriesApart
  <2>4. HoldersApart' /\ TableExact'
    BY <2>1 DEF IInv, LockTypeOK, HoldersApart, TableExact
  <2> QED BY <2>2, <2>3, <2>4, Zenon DEF IInv
<1>4. ASSUME NEW t \in Threads, Leave(t) PROVE IInv'
  BY <1>4, LeaveUnlocks, UnlockKeeps, Zenon
<1>5. ASSUME NEW t \in Threads, NEW r \in Ranges, Call(t, r) PROVE IInv'
  <2>1. /\ UNCHANGED <<valid, rlock, lock_count>>
        /\ pc[t] = "idle" /\ pc' = [pc EXCEPT ![t] = "lock"]
        /\ range' = [range EXCEPT ![t] = r]
    BY <1>5, Zenon DEF Call
  <2>2. LockTypeOK'
    BY <2>1, Zenon DEF IInv, LockTypeOK
  <2>3. EntriesApart'
    BY <2>1, Zenon DEF IInv, EntriesApart
  <2>4. HoldersApart' /\ TableExact'
    BY <2>1 DEF IInv, LockTypeOK, HoldersApart, TableExact
  <2> QED BY <2>2, <2>3, <2>4, Zenon DEF IInv
<1>6. ASSUME UNCHANGED vars PROVE IInv'
  BY <1>6, Zenon DEF vars, IInv, LockTypeOK, TableExact, EntriesApart, HoldersApart
<1> QED
  BY <1>1, <1>2, <1>3, <1>4, <1>5, <1>6, Zenon DEF Next, Try

(* The invariant holds at first. *)
LEMMA InitHolds == Init => IInv
<1> SUFFICES ASSUME Init PROVE IInv
  OBVIOUS
<1>1. LockTypeOK /\ EntriesApart /\ HoldersApart
  BY DEF Init, LockTypeOK, EntriesApart, HoldersApart
<1>2. {i \in Entries : valid[i]} = {}
  BY Zenon DEF Init
<1>3. TableExact
  BY <1>2, FS_EmptySet, Zenon DEF Init, TableExact
<1> QED BY <1>1, <1>3, Zenon DEF IInv

(* The table, the counter and the holders always agree, and range_unlock    *)
(* never reaches assert(0).                                                 *)
THEOREM TableSafe == Spec => []TableExact
<1>1. IInv => TableExact
  BY Zenon DEF IInv
<1> QED BY <1>1, InitHolds, StepKeeps, PTL DEF Spec

(* range_lock and range_unlock implement exclusion of overlapping ranges:   *)
(* taking an entry is an Acquire, freeing it a Release, and all else is     *)
(* invisible.                                                               *)
THEOREM LockExcludes == Spec => Excludes
<1> DEFINE H == [t \in Threads |-> IF pc[t] \in {"held", "abort"} THEN range[t] ELSE None]
<1>1. Init => Exclusion!Init
  BY Zenon DEF Init, Exclusion!Init
<1>2. ASSUME IInv, NEW t \in Threads, LockFirst(t) \/ LockFree(t) PROVE Exclusion!Next
  <2>1. PICK i \in Entries : Take(t, i)
    BY <1>2, RangeAssumption DEF LockFirst, LockFree, Entries
  <2>2. pc[t] = "lock" /\ range[t] \in Ranges /\ range[t] # None
    BY <1>2, RangeAssumption, Zenon DEF LockFirst, LockFree, IInv, LockTypeOK
  <2>3. \A j \in Entries : valid[j] => ~is_overlap(range[t], rlock[j])
    BY <1>2, UsedFinite, Zenon DEF LockFirst, LockFree, Overlaps, IInv, TableExact
  <2>4. \A u \in Threads : H[u] # None =>
          Exclusion!Blocks(H[u]) \intersect Exclusion!Blocks(range[t]) = {}
    <3> SUFFICES ASSUME NEW u \in Threads, pc[u] = "held"
                 PROVE  Exclusion!Blocks(range[u]) \intersect Exclusion!Blocks(range[t]) = {}
      BY <1>2, Zenon DEF IInv, TableExact
    <3>1. range[u] \in Ranges /\ ~is_overlap(range[u], range[t])
      BY <1>2, <2>3, OverlapFacts, Zenon DEF IInv, TableExact, LockTypeOK
    <3> QED BY <2>2, <3>1, ApartIsDisjoint, Zenon DEF Exclusion!Blocks
  <2>5. H' = [H EXCEPT ![t] = range[t]] /\ H[t] = None
    BY <1>2, <2>1, <2>2, Zenon DEF Take, IInv, LockTypeOK
  <2>6. PICK r \in Ranges : r = range[t]
    BY <2>2, Zenon
  <2>7. Exclusion!Acquire(t, r)
    BY <2>4, <2>5, <2>6, Zenon DEF Exclusion!Acquire
  <2> QED BY <2>7, Zenon DEF Exclusion!Next
<1>3. ASSUME IInv, NEW t \in Threads, Unlock(t) PROVE Exclusion!Next
  <2>1. H' = [H EXCEPT ![t] = None] /\ H[t] # None
    BY <1>3, RangeAssumption, Zenon DEF Unlock, IInv, LockTypeOK
  <2>2. Exclusion!Release(t)
    BY <2>1, Zenon DEF Exclusion!Release
  <2> QED BY <2>2, Zenon DEF Exclusion!Next
<1>4. ASSUME IInv, NEW t \in Threads,
             LockRefused(t) \/ PollEnds(t) \/ \E r \in Ranges : Call(t, r)
      PROVE  H' = H
  BY <1>4, Zenon DEF LockRefused, PollEnds, Call, IInv, LockTypeOK
<1>5. UNCHANGED vars => H' = H
  BY Zenon DEF vars
<1>6. IInv /\ [Next]_vars => [Exclusion!Next]_H
  BY <1>2, <1>3, <1>4, <1>5, LeaveUnlocks, Zenon DEF Next, Try
<1> QED
  BY <1>1, <1>6, InitHolds, StepKeeps, PTL DEF Spec, Excludes, Exclusion!Spec
=============================================================================
