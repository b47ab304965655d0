----------------------------- MODULE RangeLock -----------------------------
(***************************************************************************)
(* The range lock of a file (lock.c): a table of RLOCK_NUM locked ranges   *)
(* and a counter, under a spinlock.  A thread that finds its range taken,  *)
(* or the table full, lets the spinlock go and polls the counter without   *)
(* it.  What runs under the spinlock is one step.                          *)
(*                                                                         *)
(* inode_init_header makes one lock for every file; the calls in the read  *)
(* and write paths are commented out, and tests/rangelock.c is the caller. *)
(***************************************************************************)
EXTENDS Integers, FiniteSets

CONSTANTS
  Threads,
  Ranges,      \* the ranges threads ask for
  RLOCK_NUM,   \* entries of the table (20)
  None

ASSUME RangeAssumption ==
  /\ RLOCK_NUM \in Nat \ {0}
  /\ Ranges \subseteq {r \in [start : Nat, end : Nat] : r.start < r.end}
  /\ None \notin Ranges

VARIABLES
  valid,        \* valid[i]: rlock[i] is in use
  rlock,        \* rlock[i]: its start and end
  lock_count,
  pc,           \* "idle", "lock", "poll", "held", "abort" of a thread
  range         \* the arguments of its range_lock, until range_unlock

vars == <<valid, rlock, lock_count, pc, range>>

Entries == 0 .. RLOCK_NUM - 1

is_overlap_Ends(a, b) == a.start < b.end /\ b.start <= a.start

is_overlap(a, b) == a.start < b.end /\ b.start < a.end

(* range_lock_init *)
Init ==
  /\ valid = [i \in Entries |-> FALSE]
  /\ rlock \in [Entries -> {[start |-> 0, end |-> 0]}]
  /\ lock_count = 0
  /\ pc = [t \in Threads |-> "idle"]
  /\ range \in [Threads -> {None}]
-----------------------------------------------------------------------------
Call(t, r) ==
  /\ pc[t] = "idle"
  /\ pc' = [pc EXCEPT ![t] = "lock"]
  /\ range' = [range EXCEPT ![t] = r]
  /\ UNCHANGED <<valid, rlock, lock_count>>

(* Entry i now holds the range of t, and range_lock returns. *)
Take(t, i) ==
  /\ valid' = [valid EXCEPT ![i] = TRUE]
  /\ rlock' = [rlock EXCEPT ![i] = range[t]]
  /\ lock_count' = lock_count + 1
  /\ pc' = [pc EXCEPT ![t] = "held"]
  /\ UNCHANGED range

(* With no range locked entry 0 is taken unseen. *)
LockFirst(t) == pc[t] = "lock" /\ lock_count = 0 /\ Take(t, 0)

Overlaps(t) == \E i \in Entries : valid[i] /\ is_overlap(range[t], rlock[i])

LockFree(t) ==
  /\ pc[t] = "lock"
  /\ lock_count # 0
  /\ ~Overlaps(t)
  /\ \E i \in Entries :
       /\ ~valid[i] /\ \A j \in 0 .. i - 1 : valid[j]
       /\ Take(t, i)

(* The range is taken or the table is full: poll before another round. *)
LockRefused(t) ==
  /\ pc[t] = "lock"
  /\ lock_count # 0
  /\ Overlaps(t) \/ \A i \in Entries : valid[i]
  /\ pc' = [pc EXCEPT ![t] = "poll"]
  /\ UNCHANGED <<valid, rlock, lock_count, range>>

PollEnds_WhenEmpty(t) ==
  /\ pc[t] = "poll" /\ lock_count = 0
  /\ pc' = [pc EXCEPT ![t] = "lock"]
  /\ UNCHANGED <<valid, rlock, lock_count, range>>

(* The loop that reads lock_count outside the spinlock ends. *)
PollEnds(t) ==
  /\ pc[t] = "poll"
  /\ lock_count # RLOCK_NUM
  /\ pc' = [pc EXCEPT ![t] = "lock"]
  /\ UNCHANGED <<valid, rlock, lock_count, range>>

Matches(t, i) == valid[i] /\ rlock[i] = range[t]

Unlock_CountKept(t) ==
  /\ pc[t] = "held"
  /\ \E i \in Entries :
       /\ Matches(t, i) /\ \A j \in 0 .. i - 1 : ~Matches(t, j)
       /\ valid' = [valid EXCEPT ![i] = FALSE]
  /\ pc' = [pc EXCEPT ![t] = "idle"]
  /\ range' = [range EXCEPT ![t] = None]
  /\ UNCHANGED <<rlock, lock_count>>

(* range_unlock frees the first entry with its range, *)
Unlock(t) ==
  /\ pc[t] = "held"
  /\ \E i \in Entries :
       /\ Matches(t, i) /\ \A j \in 0 .. i - 1 : ~Matches(t, j)
       /\ valid' = [valid EXCEPT ![i] = FALSE]
  /\ lock_count' = lock_count - 1
  /\ pc' = [pc EXCEPT ![t] = "idle"]
  /\ range' = [range EXCEPT ![t] = None]
  /\ UNCHANGED rlock

Try(t) == LockFirst(t) \/ LockFree(t) \/ LockRefused(t) \/ PollEnds(t)

(* ... or ends in assert(0) if there is none. *)
Leave(t) ==
  /\ pc[t] = "held"
  /\ IF \E i \in Entries : Matches(t, i) THEN Unlock(t)
     ELSE pc' = [pc EXCEPT ![t] = "abort"] /\ UNCHANGED <<valid, rlock, lock_count, range>>

Next == \E t \in Threads : Try(t) \/ Leave(t) \/ \E r \in Ranges : Call(t, r)

Spec == Init /\ [][Next]_vars

(* A thread in range_lock keeps running, and gets the spinlock in the end   *)
(* (it is never held for longer than a step).  Holders unlock.              *)
Fairness == \A t \in Threads : WF_vars(Try(t)) /\ WF_vars(Leave(t))

FairSpec == Spec /\ Fairness
-----------------------------------------------------------------------------
(* The table, the counter and the holders agree: one valid entry for every  *)
(* range held and none beside, so that range_unlock never reaches its       *)
(* assert(0) and "lock_count == 0" really means that entry 0 may be         *)
(* overwritten.                                                             *)
TableExact ==
  /\ lock_count = Cardinality({i \in Entries : valid[i]})
  /\ \A t \in Threads : pc[t] = "held" => \E i \in Entries : valid[i] /\ rlock[i] = range[t]
  /\ \A i \in Entries : valid[i] => \E t \in Threads : pc[t] = "held" /\ range[t] = rlock[i]
  /\ \A t \in Threads : pc[t] # "abort"

(* range_lock and range_unlock implement mutual exclusion on blocks.        *)
Exclusion == INSTANCE RangeExclusion
  WITH held <- [t \in Threads |-> IF pc[t] \in {"held", "abort"} THEN range[t] ELSE None]
Excludes == Exclusion!Spec

(* A thread is kept waiting only by a range that really is in its way, or   *)
(* by a full table: again and again it has its lock, or one of the two      *)
(* holds.  No wakeup is lost by the poll outside the spinlock.              *)
Waiting(t) == pc[t] \in {"lock", "poll"}
InTheWay(t) == lock_count = RLOCK_NUM \/
  \E u \in Threads : pc[u] = "held" /\ is_overlap(range[t], range[u])
KeptOnlyByConflict == \A t \in Threads : []<>(Waiting(t) => InTheWay(t))
=============================================================================
