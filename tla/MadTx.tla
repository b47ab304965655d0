------------------------------- MODULE MadTx -------------------------------
(***************************************************************************)
(* The transactions of MadFS (madfs/src/tx): threads of one process that   *)
(* read and write a file without locks.  A write puts its data into fresh  *)
(* blocks and commits by a compare-and-swap of one entry onto the end of   *)
(* the transaction log; the entry maps virtual blocks of the file to the   *)
(* new logical blocks.  A thread that finds the log has moved on walks the *)
(* entries it missed, copies again what they overlap, and tries again.  A  *)
(* block that a write replaces goes to the free list of its thread, and is *)
(* reused at once: copies may read blocks that have a new owner.           *)
(*                                                                         *)
(* A block holds BLOCK_SIZE units of data.  The log is a sequence over the *)
(* entries of the meta block and of the linked tx blocks; a cursor is a    *)
(* position in it.  What an indirect entry says is kept in the entry, and  *)
(* the blocks of log entries are left out.  There is no garbage collection *)
(* and no offset ticket: the calls are pread and pwrite.                   *)
(***************************************************************************)
EXTENDS Integers, Sequences, FiniteSets, FiniteSetsExt, SequencesExt

CONSTANTS
  Threads,
  BLOCK_SIZE,
  NUM_INLINE_TX_ENTRY,  \* entries of the meta block
  NUM_TX_ENTRY,         \* entries of a tx block
  BITMAP_CAPACITY,      \* blocks of a bitmap entry
  Groups,               \* bitmap entries
  Calls,                \* <<kind, offset, count>>: the calls threads make
  MaxWrites,            \* bound on the number of writes
  None

Blocks == 0 .. BITMAP_CAPACITY * Groups - 1
Ends == {c[2] + c[3] : c \in Calls}
VBlocks == 0 .. (Max(Ends) - 1) \div BLOCK_SIZE
Units == 0 .. Cardinality(VBlocks) * BLOCK_SIZE - 1
Zero == <<0, 0>>

ASSUME MadTxAssumption ==
  /\ BLOCK_SIZE \in Nat \ {0} /\ NUM_INLINE_TX_ENTRY \in Nat \ {0} /\ NUM_TX_ENTRY \in Nat \ {0}
  /\ Calls \subseteq {"read", "write"} \X Nat \X (Nat \ {0})
  /\ Cardinality(VBlocks) < BITMAP_CAPACITY

VARIABLES
  log,       \* the committed entries
  chain,     \* the tx blocks linked behind the meta block
  data,      \* data[b]: the units of a block
  taken,     \* the number of bitmap entries threads have taken
  table, state, version, spinlock,  \* the BlkTable; version: is it odd
  tx,        \* tx[t]: the transaction of a thread
  free,      \* free[t]: the free lists of a thread, as one list of <<first, n>>
  avail,     \* avail[t]: its avail_tx_block_idx, 0 for none
  writes,    \* the number of writes begun
  result,    \* result[t]: what its last read returned
  gaps       \* what has happened that the protocol does not provide for

blk_table == <<table, state, version, spinlock>>
vars == <<log, chain, data, taken, blk_table, tx, free, avail, writes, result, gaps>>

Hole == [i \in 0 .. BLOCK_SIZE - 1 |-> Zero]
(* lidx_to_addr_ro *)
Read(b) == IF b = 0 THEN Hole ELSE data[b]
BlockOf(u) == u \div BLOCK_SIZE
Align(n) == BLOCK_SIZE * ((n + BLOCK_SIZE - 1) \div BLOCK_SIZE)

Idle == [pc |-> "idle", call |-> None, cur |-> 1, size |-> 0, img |-> <<>>, todo |-> {}, dst |-> 0,
         left |-> 0, src |-> <<>>, end |-> 0, got |-> <<>>]

Init ==
  /\ log = <<>> /\ chain = <<>> /\ taken = 0
  /\ data = [b \in Blocks |-> Hole]
  /\ table = [v \in VBlocks |-> 0] /\ state = [cur |-> 1, size |-> 0]
  /\ version = FALSE /\ spinlock = None
  /\ tx = [t \in Threads |-> Idle]
  /\ free = [t \in Threads |-> <<>>] /\ avail = [t \in Threads |-> 0]
  /\ writes = 0 /\ result = [t \in Threads |-> <<>>] /\ gaps = {}
-----------------------------------------------------------------------------
(* The log: the position behind the linked blocks, and whether there is an entry. *)
Room == NUM_INLINE_TX_ENTRY + Len(chain) * NUM_TX_ENTRY
Valid(p) == p <= Len(log)

EntryEnd(e) == BLOCK_SIZE * (e.first + e.n) - e.left
Covers(e, v) == e.first <= v /\ v < e.first + e.n
Grown_Last(size, e) == EntryEnd(e)
Grown(size, e) == Max({size, EntryEnd(e)})

(* What a call covers; Partial: the blocks of which it leaves something. *)
Covered(c) == c.off .. c.off + c.len - 1
First(c) == BlockOf(c.off)
VRange(c) == First(c) .. BlockOf(c.off + c.len - 1)
Partial(c) == {v \in VRange(c) : ~ (v * BLOCK_SIZE .. (v + 1) * BLOCK_SIZE - 1) \subseteq Covered(c)}
Multi(c) == Partial(c) # {} /\ Cardinality(VRange(c)) > 1
-----------------------------------------------------------------------------
(* BlockAllocator::alloc: from the list of the smallest size that will do, last in first out, else
   from the rest of a bitmap entry (try_alloc); the first one has the meta block. *)
CanAlloc(t, n) == taken < Groups \/ \E i \in DOMAIN free[t] : free[t][i][2] >= n
Alloc(t, n) ==
  LET fit == {i \in DOMAIN free[t] : free[t][i][2] >= n}
      i == Max({j \in fit : \A k \in fit : free[t][j][2] <= free[t][k][2]})
      fresh == IF taken = 0 THEN <<1, BITMAP_CAPACITY - 1>> ELSE <<taken * BITMAP_CAPACITY, BITMAP_CAPACITY>>
      x == IF fit # {} THEN free[t][i] ELSE fresh
      rest == IF x[2] = n THEN <<>> ELSE <<<<x[1] + n, x[2] - n>>>>
  IN  [first |-> x[1],
       list |-> (IF fit # {} THEN RemoveAt(free[t], i) ELSE free[t]) \o rest,
       taken |-> IF fit # {} THEN taken ELSE taken + 1]

(* BlockAllocator::free of an image: the blocks that follow one another form a group. *)
Freed_OneGroup(c, img) == IF img[First(c)] = 0 THEN <<>> ELSE <<<<img[First(c)], Cardinality(VRange(c))>>>>
Freed(c, img) ==
  LET heads == {v \in VRange(c) : img[v] # 0 /\ (v = First(c) \/ img[v - 1] = 0 \/ img[v] # img[v - 1] + 1)}
      Stretch(v) == Max({w \in v .. Max(VRange(c)) : \A x \in v .. w : img[x] = img[v] + (x - v)})
      order == SetToSortSeq(heads, <)
  IN  [i \in DOMAIN order |-> <<img[order[i]], Stretch(order[i]) - order[i] + 1>>]

(* The fresh block of a write for virtual block v: its own units, the others from b. *)
Filled(c, v, b) ==
  [i \in DOMAIN Hole |-> LET u == v * BLOCK_SIZE + i
                         IN  IF u \in Covered(c) THEN <<c.serial, u>> ELSE b[i]]

Move(t, x) == tx' = [tx EXCEPT ![t] = x]
-----------------------------------------------------------------------------
FileSize == Max({0} \union {EntryEnd(log[i]) : i \in DOMAIN log})

(* WriteTx: blocks are allocated; AlignedTx, MultiBlockTx: the full ones are filled. *)
StartWrite(t) ==
  /\ tx[t].pc = "idle" /\ writes < MaxWrites
  /\ \E k \in Calls :
       LET c == [kind |-> "write", off |-> k[2], len |-> k[3], serial |-> writes + 1, least |-> 0]
           n == Cardinality(VRange(c))
           a == Alloc(t, n)
           full(b) == b \in a.first .. a.first + n - 1 /\ First(c) + (b - a.first) \notin Partial(c)
       IN  /\ k[1] = "write" /\ CanAlloc(t, n)
           /\ free' = [free EXCEPT ![t] = a.list] /\ taken' = a.taken
           /\ data' = [b \in Blocks |-> IF full(b) THEN Filled(c, First(c) + (b - a.first), Hole) ELSE data[b]]
           /\ Move(t, [Idle EXCEPT !.pc = "update", !.call = c, !.dst = a.first])
  /\ writes' = writes + 1 /\ result' = [result EXCEPT ![t] = <<>>]
  /\ UNCHANGED <<log, chain, blk_table, avail, gaps>>

StartRead(t) ==
  /\ tx[t].pc = "idle"
  /\ \E k \in Calls :
       /\ k[1] = "read"
       /\ Move(t, [Idle EXCEPT !.pc = "update",
                               !.call = [kind |-> "read", off |-> k[2], len |-> k[3], serial |-> 0, least |-> FileSize]])
  /\ result' = [result EXCEPT ![t] = <<>>]
  /\ UNCHANGED <<log, chain, data, taken, blk_table, free, avail, writes, gaps>>
-----------------------------------------------------------------------------
(* handle_overflow: a writer whose cursor is behind the last linked block links another.  The
   block it reserves is kept for the next time when another thread is first. *)
Writing(t) == tx[t].call.kind = "write"
NeedsBlock(t) == tx[t].pc \in {"check", "apply", "commit"} /\ Writing(t) /\ tx[t].cur > Room

Reserve(t) ==
  /\ NeedsBlock(t) /\ avail[t] = 0 /\ CanAlloc(t, 1)
  /\ LET a == Alloc(t, 1)
     IN  /\ avail' = [avail EXCEPT ![t] = a.first]
         /\ free' = [free EXCEPT ![t] = a.list] /\ taken' = a.taken
  /\ UNCHANGED <<log, chain, data, blk_table, tx, writes, result, gaps>>

(* try_set_next_tx_block *)
Link(t) ==
  /\ NeedsBlock(t) /\ avail[t] # 0
  /\ chain' = Append(chain, avail[t]) /\ avail' = [avail EXCEPT ![t] = 0]
  /\ UNCHANGED <<log, data, taken, blk_table, tx, free, writes, result, gaps>>
-----------------------------------------------------------------------------
(* BlkTable::need_update: a copy of the state that no update overlapped. *)
Snapshot(t) ==
  /\ tx[t].pc = "update"
  /\ Move(t, IF version THEN [tx[t] EXCEPT !.pc = "lock"]
             ELSE [tx[t] EXCEPT !.pc = "check", !.cur = state.cur, !.size = state.size])
  /\ UNCHANGED <<log, chain, data, taken, blk_table, free, avail, writes, result, gaps>>

(* update_leftover_bytes *)
Leftover(c, size) ==
  LET end == c.off + c.len
  IN  IF end <= BLOCK_SIZE * BlockOf(size) THEN 0 ELSE Align(end) - end

(* The table is up to date: a read finds what there is to read, a write prepares its entry. *)
Updated(t, x) ==
  LET c == x.call
      end == Min({c.off + c.len, x.size})
      y == [x EXCEPT !.pc = "look", !.img = [v \in VRange(c) |-> 0], !.todo = VRange(c)]
  IN  IF Writing(t) THEN Move(t, [y EXCEPT !.left = Leftover(c, x.size)])
      ELSE IF c.off >= x.size THEN Move(t, Idle)
      ELSE Move(t, [y EXCEPT !.todo = First(c) .. BlockOf(end - 1), !.end = end])

Check(t) ==
  /\ tx[t].pc = "check" /\ ~ NeedsBlock(t)
  /\ IF Valid(tx[t].cur) THEN Move(t, [tx[t] EXCEPT !.pc = "lock"]) ELSE Updated(t, tx[t])
  /\ UNCHANGED <<log, chain, data, taken, blk_table, free, avail, writes, result, gaps>>

Lock(t) ==
  /\ tx[t].pc = "lock" /\ spinlock = None
  /\ spinlock' = t /\ Move(t, [tx[t] EXCEPT !.pc = "apply", !.cur = state.cur])
  /\ UNCHANGED <<log, chain, data, taken, table, state, version, free, avail, writes, result, gaps>>

(* update_unsafe: the entries go to the table one block at a time. *)
Apply(t) ==
  LET e == log[tx[t].cur]
      todo == IF tx[t].todo = {} THEN e.first .. e.first + e.n - 1 ELSE tx[t].todo
      v == Min(todo)
      last == todo = {v}
  IN  /\ tx[t].pc = "apply" /\ ~ NeedsBlock(t) /\ Valid(tx[t].cur)
      /\ version' = TRUE
      /\ table' = [table EXCEPT ![v] = e.lidx + (v - e.first)]
      /\ state' = IF last THEN [state EXCEPT !.size = Grown(@, e)] ELSE state
      /\ Move(t, [tx[t] EXCEPT !.todo = todo \ {v}, !.cur = IF last THEN @ + 1 ELSE @])
      /\ UNCHANGED <<log, chain, data, taken, spinlock, free, avail, writes, result, gaps>>

Unlock(t) ==
  /\ tx[t].pc = "apply" /\ ~ NeedsBlock(t) /\ ~ Valid(tx[t].cur)
  /\ state' = [state EXCEPT !.cur = tx[t].cur]
  /\ version' = FALSE /\ spinlock' = None
  /\ Updated(t, [tx[t] EXCEPT !.size = state.size])
  /\ UNCHANGED <<log, chain, data, taken, table, free, avail, writes, result, gaps>>
-----------------------------------------------------------------------------
(* vidx_to_lidx, block by block. *)
Look(t) ==
  LET v == Min(tx[t].todo)
      x == [tx[t] EXCEPT !.img[v] = table[v], !.todo = @ \ {v}]
      c == x.call
  IN  /\ tx[t].pc = "look"
      /\ Move(t, IF x.todo # {} THEN x
                 ELSE IF ~ Writing(t) THEN [x EXCEPT !.pc = "copy", !.todo = First(c) .. BlockOf(x.end - 1)]
                 ELSE IF Partial(c) = {} THEN [x EXCEPT !.pc = "commit"]
                 ELSE [x EXCEPT !.pc = "copy", !.src = x.img, !.todo = Partial(c)])
      /\ UNCHANGED <<log, chain, data, taken, blk_table, free, avail, writes, result, gaps>>

(* The copies of a read, into the caller's buffer, and of a CoWTx, what it does not overwrite. *)
CopyOut(t) ==
  LET v == Min(tx[t].todo)
      x == tx[t]
      here == {u \in Covered(x.call) : u < x.end /\ BlockOf(u) = v}
      got == [u \in DOMAIN x.got \union here |->
                IF u \in here THEN Read(x.img[v])[u % BLOCK_SIZE] ELSE x.got[u]]
  IN  /\ tx[t].pc = "copy" /\ ~ Writing(t)
      /\ Move(t, [x EXCEPT !.got = got, !.todo = @ \ {v}, !.pc = IF x.todo = {v} THEN "validate" ELSE "copy"])
      /\ UNCHANGED <<log, chain, data, taken, blk_table, free, avail, writes, result, gaps>>

CopyIn(t) ==
  LET v == Min(tx[t].todo)
      x == tx[t]
  IN  /\ tx[t].pc = "copy" /\ Writing(t)
      /\ data' = [data EXCEPT ![x.dst + (v - First(x.call))] = Filled(x.call, v, Read(x.src[v]))]
      /\ Move(t, [x EXCEPT !.todo = @ \ {v}, !.pc = IF x.todo = {v} THEN "commit" ELSE "copy"])
      /\ UNCHANGED <<log, chain, taken, blk_table, free, avail, writes, result, gaps>>
-----------------------------------------------------------------------------
(* handle_conflict walks the entries up to the end of the log. *)
Missed(x) == SubSeq(log, x.cur, Len(log))
Overlaps_FirstEntry(x, vs) == Missed(x) # <<>> /\ \E v \in vs : Covers(Missed(x)[1], v)
Overlaps(x, vs) == \E i \in DOMAIN Missed(x) : \E v \in vs : Covers(Missed(x)[i], v)
get_conflict_image(x, img, e) ==
  [v \in DOMAIN img |-> IF Covers(e, v) THEN e.lidx + (v - First(x.call)) ELSE img[v]]
Walked(x, img) ==
  [x EXCEPT !.img = FoldLeft(LAMBDA m, e : get_conflict_image(x, m, e), img, Missed(x)),
            !.size = FoldLeft(Grown, x.size, Missed(x)),
            !.cur = Len(log) + 1]

(* The image is that of the entries only when they begin where the transaction does. *)
Shifted(x, vs) ==
  \E i \in DOMAIN Missed(x) : \E v \in vs : Covers(Missed(x)[i], v) /\ Missed(x)[i].first # First(x.call)
Gap(holds, name) == IF holds THEN {name} ELSE {}

(* try_append succeeds: the entry is in the log, the blocks it replaces are free. *)
Commit(t) ==
  LET x == tx[t]
      c == x.call
  IN  /\ x.pc = "commit" /\ ~ NeedsBlock(t) /\ ~ Valid(x.cur)
      /\ log' = Append(log, [first |-> First(c), n |-> Cardinality(VRange(c)), lidx |-> x.dst, left |-> x.left])
      /\ free' = [free EXCEPT ![t] = @ \o Freed(c, x.img)]
      /\ Move(t, Idle)
      /\ UNCHANGED <<chain, data, taken, blk_table, avail, writes, result, gaps>>

(* try_append fails: AlignedTx tries again; SingleBlockTx copies again what an entry replaced;
   MultiBlockTx does when its first or its last block changed, but from the blocks it had. *)
Conflict(t) ==
  LET x == tx[t]
      c == x.call
      y == [Walked(x, x.img) EXCEPT !.left = IF @ = 0 THEN 0 ELSE Leftover(c, Walked(x, x.img).size)]
      again == IF Multi(c) THEN {v \in Partial(c) : y.img[v] # x.img[v]}
               ELSE IF Overlaps(x, VRange(c)) THEN Partial(c) ELSE {}
  IN  /\ x.pc = "commit" /\ ~ NeedsBlock(t) /\ Valid(x.cur)
      /\ Move(t, [y EXCEPT !.pc = IF again = {} THEN "commit" ELSE "copy", !.todo = again,
                           !.src = IF Multi(c) THEN x.img ELSE y.img])
      /\ gaps' = gaps \union Gap(Shifted(x, VRange(c)), "shifted") \union Gap(Multi(c) /\ again # {}, "stale source")
      /\ UNCHANGED <<log, chain, data, taken, blk_table, free, avail, writes, result>>

(* ReadTx validates: the read is over when no entry it has missed overlaps it. *)
Return(t) ==
  /\ tx[t].pc = "validate" /\ ~ Overlaps(tx[t], First(tx[t].call) .. BlockOf(tx[t].end - 1))
  /\ result' = [result EXCEPT ![t] = tx[t].got] /\ Move(t, Idle)
  /\ UNCHANGED <<log, chain, data, taken, blk_table, free, avail, writes, gaps>>

Redo(t) ==
  LET x == tx[t]
      vs == First(x.call) .. BlockOf(x.end - 1)
      y == Walked(x, [v \in DOMAIN x.img |-> 0])
  IN  /\ x.pc = "validate" /\ Overlaps(x, vs)
      /\ Move(t, [y EXCEPT !.pc = "copy", !.todo = {v \in vs : y.img[v] # 0}])
      /\ gaps' = gaps \union Gap(Shifted(x, vs), "shifted")
      /\ UNCHANGED <<log, chain, data, taken, blk_table, free, avail, writes, result>>

Step(t) ==
  \/ Reserve(t) \/ Link(t) \/ Snapshot(t) \/ Check(t) \/ Lock(t) \/ Apply(t) \/ Unlock(t)
  \/ Look(t) \/ CopyOut(t) \/ CopyIn(t) \/ Commit(t) \/ Conflict(t) \/ Return(t) \/ Redo(t)

Next == \E t \in Threads : StartWrite(t) \/ StartRead(t) \/ Step(t)

Spec == Init /\ [][Next]_vars
-----------------------------------------------------------------------------
(* The block that the first n entries of the log map v to: the last of them that covers it decides. *)
Latest(n, v) ==
  CHOOSE i \in 0 .. n : (i = 0 \/ Covers(log[i], v)) /\ \A j \in i + 1 .. n : ~ Covers(log[j], v)
MappedAt(n, v) == [i \in 0 .. n |-> IF i = 0 THEN 0 ELSE log[i].lidx + (v - log[i].first)][Latest(n, v)]
Mapping(n) == [v \in VBlocks |-> MappedAt(n, v)]

Contents ==
  LET image == [v \in VBlocks |-> Read(MappedAt(Len(log), v))]
  IN  [u \in Units |-> image[BlockOf(u)][u % BLOCK_SIZE]]

(* pread and pwrite of tx/ are atomic although they copy block by block, from blocks that other
   threads free and reuse meanwhile, and look blocks up in a table that is being updated: each
   call takes effect at one instant.  The file is what the whole log maps. *)
Atomic ==
  INSTANCE AtomicFile WITH
    file <- Contents,
    size <- FileSize,
    pending <- [t \in Threads |-> tx[t].call],
    result <- result
IsAtomic == Atomic!Spec

(* Every block that was taken from the bitmap has exactly one use: it is mapped by the log, a tx
   block, kept by a thread for its write or as its next tx block, or in one free list, once. *)
Run(b, n) == b .. b + n - 1
Held(t) == IF tx[t].dst = 0 THEN {} ELSE Run(tx[t].dst, Cardinality(VRange(tx[t].call)))
Kept(t) == {avail[t]} \ {0}
Uses ==
  <<Range(Mapping(Len(log))) \ {0}, ToSet(chain)>>
  \o FoldSet(LAMBDA t, s : s \o <<Held(t), Kept(t)>> \o [i \in DOMAIN free[t] |-> Run(free[t][i][1], free[t][i][2])],
             <<>>, Threads)

OneUse ==
  LET uses == Uses
      all == 1 .. taken * BITMAP_CAPACITY - 1
  IN  gaps = {} => /\ UNION ToSet(uses) = all
                   /\ FoldLeft(LAMBDA n, s : n + Cardinality(s), 0, uses) = Cardinality(all)

(* Outside update_unsafe the table and the state of BlkTable are those of the entries before its
   cursor: no update is lost when threads update one after the other. *)
TableFollowsLog ==
  ~ version => /\ table = Mapping(state.cur - 1)
               /\ state.size = Max({0} \union {EntryEnd(log[i]) : i \in 1 .. state.cur - 1})
=============================================================================
