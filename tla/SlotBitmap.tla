----------------------------- MODULE SlotBitmap -----------------------------
(***************************************************************************)
(* The slot allocator of slot.c for the inode, dirent and filent tables:   *)
(* do_slot_alloc and do_slot_free on the DRAM bitmaps in shared memory.    *)
(* A caller reads `remain` of a bitmap WITHOUT its spinlock, then takes    *)
(* the lock, searches from `hint` to the end and from 0 to `hint`, marks   *)
(* the bit and drops the lock.  The locked section is one action: nothing  *)
(* outside it reads what it writes except `remain`, a single word it       *)
(* stores once.                                                            *)
(***************************************************************************)
EXTENDS Integers, FiniteSets, FiniteSetsExt

CONSTANTS
  Threads,    \* the threads (of any process) that allocate and free
  MAP_NUM,    \* bitmaps per table (config.h: 1)
  BIT_NUM,    \* bits of each bitmap
  Reserved,   \* slots that are marked in the bitmap loaded from PM
  SIZE_MAX,   \* largest value of `remain`, a size_t
  Ample,      \* TRUE: callers never outnumber the free slots of a bitmap
  MayFree     \* TRUE: callers give slots back

Maps  == 0 .. MAP_NUM - 1
Bits  == 0 .. BIT_NUM - 1
Slots == 0 .. MAP_NUM * BIT_NUM - 1

ASSUME MapAssumption == MAP_NUM \in Nat \ {0} /\ BIT_NUM \in Nat \ {0}
ASSUME ThreadAssumption == IsFiniteSet(Threads)
ASSUME ReservedAssumption == Reserved \subseteq Slots
ASSUME SizeAssumption == SIZE_MAX \in Nat /\ SIZE_MAX >= BIT_NUM
ASSUME ModeAssumption == Ample \in BOOLEAN /\ MayFree \in BOOLEAN

VARIABLES
  dram,     \* dram[m]: the bits set in bitmap m
  remain,   \* remain[m]: the free-slot counter of bitmap m
  hint,     \* hint[m]: where the next search starts
  pc,       \* pc[t]: where t is in do_slot_alloc
  start,    \* start[t]: start_bitmap
  current,  \* current[t]: current_bitmap
  held      \* held[t]: the slots t was given and has not freed

vars == <<dram, remain, hint, pc, start, current, held>>

(* index = bit + bit_offset, and its inverse in do_slot_free *)
Index(m, bit) == bit + m * BIT_NUM
MapOf(i) == i \div BIT_NUM
BitOf(i) == i % BIT_NUM
BitsIn(S, m) == {BitOf(i) : i \in {j \in S : MapOf(j) = m}}

InFlight == {t \in Threads : pc[t] # "idle"}

(* bitops.h: the first clear bit of [offset, size), or size *)
ZeroBits(bitmap, size, offset) == {i \in offset .. size - 1 : i \notin bitmap}
next_zero_bit(bitmap, size, offset) ==
  LET zeros == ZeroBits(bitmap, size, offset)
  IN  IF zeros = {} THEN size ELSE Min(zeros)

(* shm_init_bitmap: bitmaps copied from PM, counters computed from them *)
Init ==
  /\ dram = [m \in Maps |-> BitsIn(Reserved, m)]
  /\ remain = [m \in Maps |-> BIT_NUM - Cardinality(BitsIn(Reserved, m))]
  /\ hint = [m \in Maps |-> next_zero_bit(BitsIn(Reserved, m), BIT_NUM, 0)]
  /\ pc = [t \in Threads |-> "idle"]
  /\ start = [t \in Threads |-> 0]
  /\ current = [t \in Threads |-> 0]
  /\ held = [t \in Threads |-> {}]

(* Plausible slips in the search and the walk, the bookkeeping and the     *)
(* free; a run's property fails when one replaces the definition it is     *)
(* named after.                                                            *)
FindBit_NoRescan(m) ==
  LET bit == next_zero_bit(dram[m], BIT_NUM, hint[m])
  IN  IF bit >= BIT_NUM THEN 0 ELSE bit

(* The search of the locked section: [hint, bit_num), then [0, hint). *)
FindBit(m) ==
  LET bit == next_zero_bit(dram[m], BIT_NUM, hint[m])
  IN  IF bit >= BIT_NUM THEN next_zero_bit(dram[m], hint[m], 0) ELSE bit

(* remain-- and remain++, in size_t arithmetic *)
Decremented(r) == IF r = 0 THEN SIZE_MAX ELSE r - 1
Incremented(r) == IF r = SIZE_MAX THEN 0 ELSE r + 1

NextMap_OneMapOnly(t) ==
  /\ UNCHANGED current
  /\ pc' = [pc EXCEPT ![t] = "idle"]

(* Go to the next bitmap, or give up (return -1) after the last one. *)
NextMap(t) ==
  LET next == (current[t] + 1) % MAP_NUM
  IN  /\ current' = [current EXCEPT ![t] = next]
      /\ pc' = [pc EXCEPT ![t] = IF next = start[t] THEN "idle" ELSE "check"]

(* do_slot_alloc is entered: sched_getcpu() picks the first bitmap. *)
AllocBegin(t) ==
  /\ pc[t] = "idle"
  /\ Ample => \A m \in Maps : Cardinality(dram[m]) + Cardinality(InFlight) < BIT_NUM
  /\ \E m \in Maps :
       /\ start' = [start EXCEPT ![t] = m]
       /\ current' = [current EXCEPT ![t] = m]
  /\ pc' = [pc EXCEPT ![t] = "check"]
  /\ UNCHANGED <<dram, remain, hint, held>>

(* if (bitmap->remain > 0), read without the lock *)
AllocCheck(t) ==
  /\ pc[t] = "check"
  /\ \/ /\ remain[current[t]] > 0
        /\ pc' = [pc EXCEPT ![t] = "lock"]
        /\ UNCHANGED current
     \/ /\ remain[current[t]] = 0
        /\ NextMap(t)
  /\ UNCHANGED <<dram, remain, hint, start, held>>

AllocTake_BitNotSet(t) ==
  LET m   == current[t]
      bit == FindBit(m)
  IN  /\ pc[t] = "lock" /\ bit < BIT_NUM
      /\ hint' = [hint EXCEPT ![m] = bit + 1]
      /\ remain' = [remain EXCEPT ![m] = Decremented(@)]
      /\ held' = [held EXCEPT ![t] = @ \union {Index(m, bit)}]
      /\ pc' = [pc EXCEPT ![t] = "idle"]
      /\ UNCHANGED <<dram, start, current>>

(* the section under bitmap->s_lock, when it finds a bit *)
AllocTake(t) ==
  LET m   == current[t]
      bit == FindBit(m)
  IN  /\ pc[t] = "lock"
      /\ bit < BIT_NUM
      /\ dram' = [dram EXCEPT ![m] = @ \union {bit}]
      /\ hint' = [hint EXCEPT ![m] = bit + 1]
      /\ remain' = [remain EXCEPT ![m] = Decremented(@)]
      /\ held' = [held EXCEPT ![t] = @ \union {Index(m, bit)}]
      /\ pc' = [pc EXCEPT ![t] = "idle"]
      /\ UNCHANGED <<start, current>>

(* the section under bitmap->s_lock, when the bitmap filled up meanwhile *)
AllocMiss(t) ==
  /\ pc[t] = "lock"
  /\ FindBit(current[t]) >= BIT_NUM
  /\ NextMap(t)
  /\ UNCHANGED <<dram, remain, hint, start, held>>

(* do_slot_free of a slot the caller owns *)
Free(t) ==
  /\ MayFree
  /\ pc[t] = "idle"
  /\ \E i \in held[t] :
       /\ MapOf(i) < MAP_NUM
       /\ dram' = [dram EXCEPT ![MapOf(i)] = @ \ {BitOf(i)}]
       /\ remain' = [remain EXCEPT ![MapOf(i)] = Incremented(@)]
       /\ held' = [held EXCEPT ![t] = @ \ {i}]
  /\ UNCHANGED <<hint, pc, start, current>>

Next ==
  \E t \in Threads :
    AllocBegin(t) \/ AllocCheck(t) \/ AllocTake(t) \/ AllocMiss(t) \/ Free(t)

Spec == Init /\ [][Next]_vars
-----------------------------------------------------------------------------
(* Type invariant. *)
TypeOK ==
  /\ dram \in [Maps -> SUBSET Bits]
  /\ remain \in [Maps -> 0 .. SIZE_MAX]
  /\ hint \in [Maps -> 0 .. BIT_NUM]
  /\ pc \in [Threads -> {"idle", "check", "lock"}]
  /\ start \in [Threads -> Maps]
  /\ current \in [Threads -> Maps]
  /\ held \in [Threads -> SUBSET Slots]

(* No slot has two owners, and no caller is given a slot that mkfs or      *)
(* recovery marked used: do_slot_alloc never returns an index that is out. *)
NoDoubleAlloc ==
  /\ \A t, u \in Threads : t # u => held[t] \intersect held[u] = {}
  /\ \A t \in Threads : held[t] \intersect Reserved = {}

(* A bit is set exactly for the slots that are owned: none leaks, and none *)
(* is cleared under its owner.  This is the debug_assert(check_bit(..)) of *)
(* do_slot_free for every later free.                                      *)
BitmapExact ==
  \A m \in Maps :
    dram[m] = BitsIn(Reserved, m) \union UNION {BitsIn(held[t], m) : t \in Threads}

(* `remain`, which callers trust without the lock, counts the clear bits.  *)
RemainExact ==
  \A m \in Maps : remain[m] = BIT_NUM - Cardinality(dram[m])

(* As long as nothing is freed, do_slot_alloc returns -1 only when every   *)
(* bitmap of the table is full, wherever sched_getcpu() started the walk   *)
(* and whoever else allocates meanwhile.                                   *)
GivesUpOnlyWhenFull ==
  [][\A t \in Threads :
       (pc[t] # "idle" /\ pc'[t] = "idle" /\ held'[t] = held[t])
         => \A m \in Maps : dram[m] = Bits]_vars

(* do_slot_free's own assertion (slot.c:161): the bit of a slot that is    *)
(* about to be freed is set.                                               *)
FreeFindsBitSet ==
  \A t \in Threads : \A i \in held[t] : BitOf(i) \in dram[MapOf(i)]

(* The bitmaps implement the promise of SlotAlloc.                         *)
Promise == INSTANCE SlotAlloc WITH held <- held
PromiseKept == Promise!Spec
=============================================================================
