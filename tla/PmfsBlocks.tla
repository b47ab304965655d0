---------------------------- MODULE PmfsBlocks ----------------------------
(***************************************************************************)
(* The block allocator of PMFS (pmfs/balloc.c) and how a mount gets it back *)
(* (pmfs/bbuild.c).  The allocator is a sorted list, in memory, of the      *)
(* ranges of blocks in use.  An unmount saves the list in blocks of its     *)
(* own; a mount that finds it saved reads it, forgets it and frees those    *)
(* blocks, and one that does not rebuilds the list from what the inodes     *)
(* refer to.                                                                *)
(*                                                                         *)
(* A transaction of the journal is one step here (PmfsJournal has its       *)
(* steps), and so is what happens under s_lock.  What an inode refers to    *)
(* is a set of extents: the shape of its tree does not matter here.         *)
(***************************************************************************)
EXTENDS Integers, Sequences, FiniteSets, SequencesExt, FiniteSetsExt

CONSTANTS
  N,            \* block_end: the blocks of the device
  R,            \* the blocks of superblock, inode table head and journal, at the front
  BlockSizes,   \* pmfs_get_numblocks of the block types
  PerBlock,     \* the ranges that fit in a block of the saved list
  MaxBatch,     \* the most extents freed under one s_lock
  None

ASSUME BlocksAssumption == R \in 1 .. N /\ 1 \in BlockSizes /\ PerBlock \in Nat \ {0}

VARIABLES
  pool,         \* block_inuse_head, num_free_blocks, num_blocknode_allocated
  refs,         \* the extents inodes on the medium refer to
  fresh,        \* allocated, and not yet referred to
  dying,        \* no longer referred to, and not yet freed
  saved,        \* what inode PMFS_BLOCKNODE_IN0 and the superblock hold
  mode          \* "up", "down", "loaded", "cleared"

vars == <<pool, refs, fresh, dying, saved, mode>>

Extent(low, size) == [low |-> low, size |-> size]
Blocks(e) == e.low .. e.low + e.size - 1
Node(low, high) == [low |-> low, high |-> high]

(* pmfs_init_blockmap *)
init_blockmap == [nodes |-> <<Node(0, R - 1)>>, free |-> N - R, num |-> 1]

next_block_low(p, i) == IF i = Len(p.nodes) THEN N ELSE p.nodes[i + 1].low

(* The four ways a range can lie in the gap after node i, in pmfs_new_block *)
(* and pmfs_alloc_insert_blocknode_map alike.                               *)
Insert_CountKept(p, i, low, high) ==
  LET left == low = p.nodes[i].high + 1
      right == high = next_block_low(p, i) - 1
      last == i = Len(p.nodes)
      q == [p EXCEPT !.free = @ - (high - low + 1)]
  IN  CASE left /\ right /\ ~last ->
             [q EXCEPT !.nodes = RemoveAt([@ EXCEPT ![i].high = p.nodes[i + 1].high], i + 1)]
        [] left /\ (~right \/ last) -> [q EXCEPT !.nodes[i].high = high]
        [] ~left /\ right /\ ~last -> [q EXCEPT !.nodes[i + 1].low = low]
        [] OTHER -> [q EXCEPT !.nodes = InsertAt(@, i + 1, Node(low, high)), !.num = @ + 1]

Insert(p, i, low, high) ==
  LET left == low = p.nodes[i].high + 1
      right == high = next_block_low(p, i) - 1
      last == i = Len(p.nodes)
      q == [p EXCEPT !.free = @ - (high - low + 1)]
  IN  CASE left /\ right /\ ~last ->
             [q EXCEPT !.nodes = RemoveAt([@ EXCEPT ![i].high = p.nodes[i + 1].high], i + 1),
                       !.num = @ - 1]
        [] left /\ (~right \/ last) -> [q EXCEPT !.nodes[i].high = high]
        [] ~left /\ right /\ ~last -> [q EXCEPT !.nodes[i + 1].low = low]
        [] OTHER -> [q EXCEPT !.nodes = InsertAt(@, i + 1, Node(low, high)), !.num = @ + 1]

(* pmfs_new_block: the first gap that has room for n blocks, aligned.       *)
AlignedAfter(p, i, n) == ((p.nodes[i].high + n) \div n) * n
Fits_PastNext(p, i, n) == AlignedAfter(p, i, n) + n - 1 <= next_block_low(p, i)
Fits(p, i, n) == AlignedAfter(p, i, n) + n - 1 < next_block_low(p, i)

Room(p, n) == {i \in DOMAIN p.nodes : Fits(p, i, n)}
new_block(p, n) ==
  LET i == Min(Room(p, n))
      low == AlignedAfter(p, i, n)
  IN  [pool |-> Insert(p, i, low, low + n - 1), low |-> low]

(* __pmfs_free_block, looking from the hint on if that is early enough, and *)
(* leaving a hint for the next one.                                         *)
free_block_AnyHint(p, e, hint) ==
  LET low == e.low
      high == e.low + e.size - 1
      from == IF hint # 0 THEN hint ELSE 1
      Holding == {i \in from .. Len(p.nodes) : p.nodes[i].low <= low /\ high <= p.nodes[i].high}
      i == Min(Holding)
      node == p.nodes[i]
      q == [p EXCEPT !.free = @ + e.size]
      after == IF i < Len(p.nodes) THEN i + 1 ELSE 0
  IN  CASE Holding = {} -> [pool |-> p, hint |-> hint]
        [] Holding # {} /\ node = Node(low, high) ->
             [pool |-> [q EXCEPT !.nodes = RemoveAt(@, i), !.num = @ - 1],
              hint |-> IF after = 0 THEN 0 ELSE i]
        [] Holding # {} /\ node.low = low /\ high < node.high ->
             [pool |-> [q EXCEPT !.nodes[i].low = high + 1], hint |-> i]
        [] Holding # {} /\ node.low < low /\ high = node.high ->
             [pool |-> [q EXCEPT !.nodes[i].high = low - 1], hint |-> after]
        [] OTHER ->
             [pool |-> [q EXCEPT !.nodes = InsertAt([@ EXCEPT ![i].high = low - 1], i + 1,
                                                    Node(high + 1, node.high)),
                                 !.num = @ + 1],
              hint |-> i + 1]

free_block(p, e, hint) ==
  LET low == e.low
      high == e.low + e.size - 1
      from == IF hint # 0 /\ low >= p.nodes[hint].low THEN hint ELSE 1
      Holding == {i \in from .. Len(p.nodes) : p.nodes[i].low <= low /\ high <= p.nodes[i].high}
      i == Min(Holding)
      node == p.nodes[i]
      q == [p EXCEPT !.free = @ + e.size]
      after == IF i < Len(p.nodes) THEN i + 1 ELSE 0
  IN  CASE Holding = {} -> [pool |-> p, hint |-> hint]
        [] Holding # {} /\ node = Node(low, high) ->
             [pool |-> [q EXCEPT !.nodes = RemoveAt(@, i), !.num = @ - 1],
              hint |-> IF after = 0 THEN 0 ELSE i]
        [] Holding # {} /\ node.low = low /\ high < node.high ->
             [pool |-> [q EXCEPT !.nodes[i].low = high + 1], hint |-> i]
        [] Holding # {} /\ node.low < low /\ high = node.high ->
             [pool |-> [q EXCEPT !.nodes[i].high = low - 1], hint |-> after]
        [] OTHER ->
             [pool |-> [q EXCEPT !.nodes = InsertAt([@ EXCEPT ![i].high = low - 1], i + 1,
                                                    Node(high + 1, node.high)),
                                 !.num = @ + 1],
              hint |-> i + 1]

(* recursive_truncate_blocks frees the blocks of a tree node in turn.       *)
free_blocks(p, q) ==
  FoldLeft(LAMBDA s, e : free_block(s.pool, e, s.hint), [pool |-> p, hint |-> 0], q).pool
-----------------------------------------------------------------------------
(* pmfs_build_blocknode_map: the runs of every bitmap, the small block size *)
(* first, put where they belong.                                            *)
Runs(B) ==
  LET Starts == {b \in B : b - 1 \notin B}
      Upto(b) == Min({c \in B : c >= b /\ c + 1 \notin B})
  IN  [k \in 1 .. Cardinality(Starts) |->
         LET b == SetToSortSeq(Starts, LAMBDA x, y : x < y)[k] IN Node(b, Upto(b))]

insert_map(p, low, high) ==
  LET Here == {i \in DOMAIN p.nodes : high < next_block_low(p, i) /\ low > p.nodes[i].high}
  IN  IF Here = {} THEN p ELSE Insert(p, Min(Here), low, high)

build_map(p, E, n) ==
  FoldLeft(LAMBDA q, r : insert_map(q, r.low * n, (r.high + 1) * n - 1), p,
           Runs({e.low \div n : e \in {f \in E : f.size = n}}))

Rebuilt ==
  FoldLeft(LAMBDA p, n : build_map(p, refs, n), init_blockmap,
           SetToSortSeq(BlockSizes, LAMBDA x, y : x < y))
-----------------------------------------------------------------------------
(* A file system just made. *)
Init ==
  /\ pool = init_blockmap
  /\ refs = {} /\ fresh = {} /\ dying = {}
  /\ saved = None
  /\ mode = "up"

NewBlock(n) ==
  /\ mode = "up" /\ Room(pool, n) # {}
  /\ LET r == new_block(pool, n)
     IN  pool' = r.pool /\ fresh' = fresh \union {Extent(r.low, n)}
  /\ UNCHANGED <<refs, dying, saved, mode>>

(* __pmfs_alloc_blocks: a transaction commits that refers to a new block.   *)
Attach(e) ==
  /\ mode = "up"
  /\ refs' = refs \union {e} /\ fresh' = fresh \ {e}
  /\ UNCHANGED <<pool, dying, saved, mode>>

(* pmfs_evict_inode: pmfs_free_inode commits that the inode is gone, then   *)
(* pmfs_free_inode_subtree frees its blocks.                                *)
Evict(S) ==
  /\ mode = "up" /\ S # {}
  /\ refs' = refs \ S /\ dying' = dying \union S
  /\ UNCHANGED <<pool, fresh, saved, mode>>

FreeBlocks(S) ==
  /\ mode = "up" /\ S # {} /\ Cardinality({e.size : e \in S}) = 1
  /\ \E q \in SetToSeqs(S) : pool' = free_blocks(pool, q)
  /\ dying' = dying \ S
  /\ UNCHANGED <<refs, fresh, saved, mode>>

(* pmfs_save_blocknode_mappings at an unmount: blocks for the list, counted *)
(* before they are allocated, and a block over them if there are several;   *)
(* then the list.  Without room nothing is saved.                           *)
ListBlocks(p) ==
  LET k == (p.num - 1) \div PerBlock + 1 IN IF k > 1 THEN k + 1 ELSE k

WithList(p, k) ==
  FoldLeft(LAMBDA s, j : LET r == new_block(s.pool, 1)
                         IN  [pool |-> r.pool, own |-> s.own \union {Extent(r.low, 1)}],
           [pool |-> p, own |-> {}], [j \in 1 .. k |-> j])

Umount ==
  /\ mode = "up" /\ fresh = {} /\ dying = {}
  /\ LET k == ListBlocks(pool)
         s == WithList(pool, k)
     IN  saved' = IF pool.free < k THEN None
                  ELSE [nodes |-> s.pool.nodes, free |-> s.pool.free, num |-> s.pool.num,
                        own |-> s.own]
  /\ pool' = None /\ mode' = "down"
  /\ UNCHANGED <<refs, fresh, dying>>

Crash ==
  /\ mode # "down"
  /\ pool' = None /\ fresh' = {} /\ dying' = {} /\ mode' = "down"
  /\ UNCHANGED <<refs, saved>>

(* pmfs_setup_blocknode_map.  pmfs_can_skip_full_scan reads the saved list, *)
Load ==
  /\ mode = "down" /\ saved # None
  /\ pool' = [nodes |-> SubSeq(saved.nodes, 1, saved.num), free |-> saved.free, num |-> saved.num]
  /\ mode' = "loaded"
  /\ UNCHANGED <<refs, fresh, dying, saved>>

(* ... pmfs_clear_datablock_inode forgets it, *)
Clear ==
  /\ mode = "loaded"
  /\ saved' = None /\ dying' = saved.own
  /\ mode' = "cleared"
  /\ UNCHANGED <<pool, refs, fresh>>

(* ... and its blocks are freed. *)
FreeList ==
  /\ mode = "cleared"
  /\ \E q \in SetToSeqs(dying) : pool' = free_blocks(pool, q)
  /\ dying' = {} /\ mode' = "up"
  /\ UNCHANGED <<refs, fresh, saved>>

(* ... or, with nothing saved, everything is scanned. *)
Scan ==
  /\ mode = "down" /\ saved = None
  /\ pool' = Rebuilt /\ mode' = "up"
  /\ UNCHANGED <<refs, fresh, dying, saved>>

Next ==
  \/ \E n \in BlockSizes : NewBlock(n)
  \/ \E e \in fresh : Attach(e)
  \/ \E S \in SUBSET refs : Evict(S)
  \/ \E S \in UNION {kSubset(k, dying) : k \in 1 .. MaxBatch} : FreeBlocks(S)
  \/ Umount \/ Crash \/ Load \/ Clear \/ FreeList \/ Scan

Spec == Init /\ [][Next]_vars
-----------------------------------------------------------------------------
Owned == refs \union fresh \union dying \union (IF saved = None THEN {} ELSE saved.own)

InUse == UNION {r.low .. r.high : r \in Range(pool.nodes)}

(* The list is sorted, its ranges never touch, and the two counters kept    *)
(* beside it say how many ranges and how many free blocks it stands for,    *)
(* after any mix of allocating, freeing with hints, saving and rebuilding.  *)
ListExact ==
  mode # "down" =>
    /\ \A i \in DOMAIN pool.nodes : pool.nodes[i].low <= pool.nodes[i].high
    /\ \A i \in 1 .. Len(pool.nodes) - 1 : pool.nodes[i].high + 1 < pool.nodes[i + 1].low
    /\ pool.num = Len(pool.nodes)
    /\ pool.free = N - Cardinality(InUse)

(* Whichever way the last mount got its list, the list covers exactly the   *)
(* blocks in front, what inodes refer to and what is on its way in or out:  *)
(* nothing in use is free, and a crash leaks nothing.                       *)
MapExact == mode # "down" => InUse = 0 .. R - 1 \union UNION {Blocks(e) : e \in Owned}

(* The list implements the pool: pmfs_new_block never gives out a block     *)
(* that something still refers to, aligned or not, whatever was mounted.    *)
Pool == INSTANCE BlockPool
          WITH Device <- R .. N - 1, Sizes <- BlockSizes, owned <- Owned, reachable <- refs
IsPool == Pool!Spec
=============================================================================
