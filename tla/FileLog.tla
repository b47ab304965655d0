------------------------------ MODULE FileLog ------------------------------
(***************************************************************************)
(* The log of regular files (inode.c).  A write allocates data blocks,     *)
(* fills them, and appends one entry per run of blocks it got.  An entry   *)
(* goes to the ghost slot at the end of the log or over an invalid entry   *)
(* in the middle of it, one none of whose blocks is in the index any more. *)
(* So the log is not ordered by age, and recovery goes by timestamps.      *)
(*                                                                         *)
(* Writes are of whole blocks.  An entry is known by the slot it is in.    *)
(* The store of a slot is one step (the fields recovery reads are within   *)
(* one 32-byte store of avx_cpy), a crash may happen between any two.      *)
(* Data blocks and filent slots do not run out (the error paths of         *)
(* inode_write_atomic are not modelled).                                   *)
(***************************************************************************)
EXTENDS Integers, Sequences, FiniteSets, Functions

CONSTANTS
  Threads,            \* threads that write
  Files,              \* inodes of regular files
  Slots,              \* filent slots
  Null,               \* slot index 0
  NB,                 \* blocks of a file, 0 .. NB - 1
  DB,                 \* data blocks, 0 .. DB - 1
  MaxWrites,          \* bound on the number of writes
  PAGE_SIZE,          \* the two sizes
  PM_CACHELINE_SIZE,  \*   filent_dispatch weighs
  WORD,               \* size_t is 0 .. WORD - 1
  MayRelease          \* whether files are unlinked and released

ASSUME SizeAssumption ==
  /\ NB \in Nat \ {0} /\ DB \in Nat \ {0} /\ MaxWrites \in Nat
  /\ PAGE_SIZE \in Nat \ {0} /\ PM_CACHELINE_SIZE \in Nat \ {0}
  /\ WORD \in Nat /\ WORD > MaxWrites * NB + 2
  /\ MayRelease \in BOOLEAN
ASSUME NullAssumption == Null \notin Slots \union Threads \union Files
ASSUME SlotsAssumption == IsFiniteSet(Slots)

VARIABLES
  life,     \* life[f]: "live", "releasing" or "free"
  list,     \* list[f]: inode->list, the entries in the order of the log
  invalid,  \* invalid[f]: inode->invalid, the entries that may be overwritten
  inum,     \* inode->invalid_num
  enum,     \* inode->entry_num
  ghost,    \* inode->ghost_slot
  index,    \* index[f][b]: the entry of block b in the B-tree, Null: none
  size,     \* inode->i_size, in blocks
  ent,      \* ent[s]: the filent in DRAM of slot s
  ts,       \* sbi->ts
  sused,    \* the filent slots and ...
  dused,    \* ... data blocks the bitmaps have in use
  phead,    \* PM: log_head of the inodes, ...
  pent,     \* ... the filent slots ...
  content,  \* ... and the data blocks (the number of the write that filled it)
  lock,     \* lock[f]: the holder of the inode's lock, Null: none
  pc,       \* pc[t]: the next step of thread t in inode_write_atomic
  file, off, len,  \* its arguments, in blocks
  ebuf,     \* the runs of blocks it has allocated
  num,      \* how many of them are in the log
  stamp,    \* its timestamp
  slot,     \* the slot of the entry it is adding, and
  reuse,    \*   whether it was one of the invalid entries
  seen,     \* the size it is about to set
  id,       \* the number of its write
  writes,   \* the writes begun
  saved     \* saved[f][b]: the last write whose entry for block b has been stored

inode == <<life, list, invalid, inum, enum, ghost, index, ent>>
maps  == <<sused, dused>>
pm    == <<phead, pent, saved>>
args  == <<file, off, len, id, writes>>
regs  == <<ebuf, num, stamp, slot, reuse, seen>>
vars == <<life, list, invalid, inum, enum, ghost, index, size, ent, ts, sused, dused, phead, pent,
          content, lock, pc, file, off, len, ebuf, num, stamp, slot, reuse,
          seen, id, writes, saved>>

Blocks == 0 .. NB - 1
Data   == 0 .. DB - 1

Goto(t, p) == pc' = [pc EXCEPT ![t] = p]

(* The write returns: its local variables are gone. *)
Return(t) ==
  /\ Goto(t, "idle")
  /\ file' = [file EXCEPT ![t] = Null]
  /\ ebuf' = [ebuf EXCEPT ![t] = <<>>]
  /\ slot' = [slot EXCEPT ![t] = Null]
  /\ reuse' = [reuse EXCEPT ![t] = FALSE]
  /\ off' = [off EXCEPT ![t] = 0]
  /\ len' = [len EXCEPT ![t] = 0]
  /\ num' = [num EXCEPT ![t] = 0]
  /\ stamp' = [stamp EXCEPT ![t] = 0]
  /\ seen' = [seen EXCEPT ![t] = 0]
  /\ id' = [id EXCEPT ![t] = 0]
  /\ UNCHANGED writes

(* The blocks of the file an entry or a run covers, and where block b is. *)
Covers(e)      == e.l .. e.l + e.n - 1
BlockOf(e, b)  == e.p + (b - e.l)
Indexed(f, s)  == {b \in Blocks : index[f][b] = s}
After(f, s)    == \* the slot after s in the log, from the list in DRAM
  LET i == CHOOSE i \in DOMAIN list[f] : list[f][i] = s
  IN  IF i = Len(list[f]) THEN ghost[f] ELSE list[f][i + 1]

Filent   == [l |-> 0, p |-> 0, n |-> 0, ts |-> 0, ref |-> 0]
PmFilent == [l |-> 0, p |-> 0, n |-> 0, ts |-> 0, next |-> Null]

(* Created files, each with its ghost slot, in a fresh file system *)
Init ==
  /\ life = [f \in Files |-> "live"]
  /\ list = [f \in Files |-> <<>>]
  /\ invalid = [f \in Files |-> <<>>]
  /\ inum = [f \in Files |-> 0]
  /\ enum = [f \in Files |-> 0]
  /\ ghost \in {g \in [Files -> Slots] : IsInjective(g)}
  /\ index = [f \in Files |-> [b \in Blocks |-> Null]]
  /\ size = [f \in Files |-> 0]
  /\ ent = [s \in Slots |-> Filent]
  /\ ts = 0
  /\ sused = Range(ghost)
  /\ dused = {}
  /\ phead = ghost
  /\ pent = [s \in Slots |-> PmFilent]
  /\ content = [d \in Data |-> 0]
  /\ lock = [f \in Files |-> Null]
  /\ pc = [t \in Threads |-> "idle"]
  /\ file = [t \in Threads |-> Null]
  /\ off = [t \in Threads |-> 0]
  /\ len = [t \in Threads |-> 0]
  /\ ebuf = [t \in Threads |-> <<>>]
  /\ num = [t \in Threads |-> 0]
  /\ stamp = [t \in Threads |-> 0]
  /\ slot = [t \in Threads |-> Null]
  /\ reuse = [t \in Threads |-> FALSE]
  /\ seen = [t \in Threads |-> 0]
  /\ id = [t \in Threads |-> 0]
  /\ writes = 0
  /\ saved = [f \in Files |-> [b \in Blocks |-> 0]]
-----------------------------------------------------------------------------
(* inode_write_atomic: the lock is taken, ... *)
WriteBegin(t) ==
  /\ pc[t] = "idle"
  /\ writes < MaxWrites
  /\ \E f \in Files, b \in Blocks : \E n \in 1 .. NB - b :
       /\ life[f] = "live" /\ lock[f] = Null
       /\ lock' = [lock EXCEPT ![f] = t]
       /\ file' = [file EXCEPT ![t] = f]
       /\ off' = [off EXCEPT ![t] = b]
       /\ len' = [len EXCEPT ![t] = n]
  /\ writes' = writes + 1
  /\ id' = [id EXCEPT ![t] = writes + 1]
  /\ Goto(t, "alloc")
  /\ UNCHANGED <<inode, size, ts, maps, pm, content, regs>>

(* The blocks of the write that have no data block yet. *)
Missing(t) == (off[t] .. off[t] + len[t] - 1) \ UNION {Covers(r) : r \in Range(ebuf[t])}

(* ... runs of data blocks, as long as the allocator has them, are filled, *)
Alloc(t) ==
  /\ pc[t] = "alloc"
  /\ \E n \in 1 .. Cardinality(Missing(t)), p \in Data :
       LET b == off[t] + len[t] - Cardinality(Missing(t))
           R == p .. p + n - 1
       IN  /\ R \subseteq Data \ dused
           /\ dused' = dused \union R
           /\ content' = [d \in Data |-> IF d \in R THEN id[t] ELSE content[d]]
           /\ ebuf' = [ebuf EXCEPT ![t] = Append(@, [l |-> b, p |-> p, n |-> n])]
  /\ UNCHANGED <<inode, size, ts, sused, pm, lock, pc, args, num, stamp, slot, reuse, seen>>

(* ... a timestamp is taken (++sbi->ts: a load and a store, no lock that   *)
(* writers of other files hold), ...                                       *)
ReadTs(t) ==
  /\ pc[t] = "alloc"
  /\ Missing(t) = {}
  /\ stamp' = [stamp EXCEPT ![t] = ts + 1]
  /\ Goto(t, "write_ts")
  /\ UNCHANGED <<inode, size, ts, maps, pm, content, lock, args, ebuf, num, slot, reuse, seen>>

WriteTs_NotStored(t) ==
  /\ pc[t] = "write_ts"
  /\ Goto(t, "dispatch")
  /\ UNCHANGED <<inode, size, ts, maps, pm, content, lock, args, regs>>

WriteTs(t) ==
  /\ pc[t] = "write_ts"
  /\ ts' = stamp[t]
  /\ Goto(t, "dispatch")
  /\ UNCHANGED <<inode, size, maps, pm, content, lock, args, regs>>
-----------------------------------------------------------------------------
(* filent_dispatch: whether a write of n blocks is to overwrite an invalid *)
(* entry, ratio >= APPEND_THRESHOLD = 1.  An invalid_num above entry_num   *)
(* (one below zero is) makes the ratio negative, 0/0 is not below 1.       *)
Overwrites(f, n) ==
  /\ inum[f] <= enum[f]
  /\ n * PAGE_SIZE * enum[f] >= 100 * PM_CACHELINE_SIZE * (enum[f] - inum[f])

(* v -= n in a size_t *)
Less(v, n) == (v + WORD - n) % WORD

(* filent_try_reuse: list_del of the first invalid entry *)
TakeInvalid(f) == invalid' = [invalid EXCEPT ![f] = Tail(@)]

(* file_append_entry: the entry for the next run goes over an invalid      *)
(* entry, or into the ghost slot and a new ghost slot is allocated.  Both  *)
(* filent_dispatch and filent_try_reuse decrement invalid_num.             *)
Dispatch(t) ==
  LET f == file[t]
      r == ebuf[t][num[t] + 1]
      o == Overwrites(f, r.n) /\ invalid[f] # <<>>
  IN  /\ pc[t] = "dispatch"
      /\ reuse' = [reuse EXCEPT ![t] = o]
      /\ \/ /\ o
            /\ slot' = [slot EXCEPT ![t] = Head(invalid[f])]
            /\ TakeInvalid(f)
            /\ inum' = [inum EXCEPT ![f] = Less(@, 2)]
            /\ UNCHANGED <<ghost, list, sused>>
         \/ /\ ~o
            /\ slot' = [slot EXCEPT ![t] = ghost[f]]
            /\ inum' = [inum EXCEPT ![f] = IF Overwrites(f, r.n) THEN Less(@, 1) ELSE @]
            /\ list' = [list EXCEPT ![f] = Append(@, ghost[f])]
            /\ \E g \in Slots \ sused : ghost' = [ghost EXCEPT ![f] = g] /\ sused' = sused \union {g}
            /\ UNCHANGED invalid
      /\ ent' = [ent EXCEPT ![slot'[t]] =
                   [l |-> r.l, p |-> r.p, n |-> r.n, ts |-> stamp[t], ref |-> r.n]]
      /\ Goto(t, "insert")
      /\ UNCHANGED <<life, enum, index, size, ts, dused, pm, content, lock, args, ebuf, num, stamp, seen>>

(* How many blocks entry s loses to a new entry for run r. *)
Lost(f, r, s) == Cardinality(Indexed(f, s) \intersect Covers(r))

FreedData_FirstBlock(f, r) ==
  {ent[index[f][b]].p : b \in {c \in Covers(r) : index[f][c] # Null}}

(* filent_insert_callback: the data block of each block that had an entry, *)
(* and ...                                                                 *)
FreedData(f, r) ==
  {BlockOf(ent[index[f][b]], b) : b \in {c \in Covers(r) : index[f][c] # Null}}

Dying_AnyLoss(f, r, s) == Lost(f, r, s) > 0

(* ... whether the entry's reference count reaches 0 *)
Dying(f, r, s) == Lost(f, r, s) > 0 /\ ent[s].ref = Lost(f, r, s)

(* the numbers in S in increasing order *)
Sorted(S) ==
  CHOOSE q \in [1 .. Cardinality(S) -> S] :
    Range(q) = S /\ \A i, j \in DOMAIN q : i < j => q[i] < q[j]

(* The entries that become invalid, in the order in which they do. *)
Died(f, r) ==
  LET old  == [i \in 1 .. r.n |-> index[f][r.l + i - 1]]
      last == {i \in 1 .. r.n : /\ old[i] # Null
                                /\ Dying(f, r, old[i])
                                /\ \A j \in i + 1 .. r.n : old[j] # old[i]}
      at   == Sorted(last)
  IN  [k \in 1 .. Cardinality(last) |-> old[at[k]]]

(* file_index_insert: the B-tree gets the entry; the blocks it takes over  *)
(* are freed here, before the entry is in PM.                              *)
Insert(t) ==
  LET f == file[t]
      r == ebuf[t][num[t] + 1]
  IN  /\ pc[t] = "insert"
      /\ index' = [index EXCEPT ![f] = [b \in Blocks |-> IF b \in Covers(r) THEN slot[t] ELSE @[b]]]
      /\ dused' = dused \ FreedData(f, r)
      /\ ent' = [s \in Slots |-> [ent[s] EXCEPT !.ref = @ - Lost(f, r, s)]]
      /\ invalid' = [invalid EXCEPT ![f] = @ \o Died(f, r)]
      /\ inum' = [inum EXCEPT ![f] = (@ + Len(Died(f, r))) % WORD]
      /\ Goto(t, "store")
      /\ UNCHANGED <<life, list, enum, ghost, size, ts, sused, pm, content, lock, args, regs>>

NextSlot_Ghost(t) == ghost[file[t]]

(* entry->next *)
NextSlot(t) == IF reuse[t] THEN After(file[t], slot[t]) ELSE ghost[file[t]]

(* The entry is stored in its slot. *)
Store(t) ==
  LET f == file[t]
      r == ebuf[t][num[t] + 1]
  IN  /\ pc[t] = "store"
      /\ pent' = [pent EXCEPT ![slot[t]] =
                    [l |-> r.l, p |-> r.p, n |-> r.n, ts |-> stamp[t], next |-> NextSlot(t)]]
      /\ saved' = [saved EXCEPT ![f] = [b \in Blocks |-> IF b \in Covers(r) THEN id[t] ELSE @[b]]]
      /\ enum' = [enum EXCEPT ![f] = IF reuse[t] THEN @ ELSE @ + 1]
      /\ num' = [num EXCEPT ![t] = @ + 1]
      /\ Goto(t, IF num[t] + 1 < Len(ebuf[t]) THEN "dispatch" ELSE "unlock")
      /\ UNCHANGED <<life, list, invalid, inum, ghost, index, size, ent, ts, maps, phead, content,
                     lock, args, ebuf, stamp, slot, reuse, seen>>

Unlock(t) ==
  /\ pc[t] = "unlock"
  /\ lock' = [lock EXCEPT ![file[t]] = Null]
  /\ Goto(t, "read_size")
  /\ UNCHANGED <<inode, size, ts, maps, pm, content, args, regs>>

(* i_size = max(i_size, offset + len), after the lock is released *)
ReadSize(t) ==
  LET end == off[t] + len[t]
  IN  /\ pc[t] = "read_size"
      /\ seen' = [seen EXCEPT ![t] = IF size[file[t]] > end THEN size[file[t]] ELSE end]
      /\ Goto(t, "write_size")
      /\ UNCHANGED <<inode, size, ts, maps, pm, content, lock, args, ebuf, num, stamp, slot, reuse>>

WriteSize(t) ==
  /\ pc[t] = "write_size"
  /\ size' = [size EXCEPT ![file[t]] = seen[t]]
  /\ Return(t)
  /\ UNCHANGED <<inode, ts, maps, pm, content, lock>>

inode_write_atomic(t) ==
  \/ WriteBegin(t) \/ Alloc(t) \/ ReadTs(t) \/ WriteTs(t) \/ Dispatch(t) \/ Insert(t) \/ Store(t)
  \/ Unlock(t) \/ ReadSize(t) \/ WriteSize(t)
-----------------------------------------------------------------------------
(* slotfs_unlink of the last link of a closed file: inode_release *)
Unlink(f) ==
  /\ MayRelease
  /\ life[f] = "live"
  /\ \A t \in Threads : pc[t] = "idle" \/ file[t] # f
  /\ life' = [life EXCEPT ![f] = "releasing"]
  /\ UNCHANGED <<list, invalid, inum, enum, ghost, index, size, ent, ts, maps, pm, content, lock, pc,
                 args, regs>>

(* do_inode_release, in the release thread: all blocks of each entry and   *)
(* its slot are freed; the next field of the slot stays as it is.          *)
ReleaseEntry(f) ==
  /\ life[f] = "releasing"
  /\ list[f] # <<>>
  /\ LET s == Head(list[f])
     IN  /\ dused' = dused \ (ent[s].p .. ent[s].p + ent[s].n - 1)
         /\ sused' = sused \ {s}
  /\ list' = [list EXCEPT ![f] = Tail(@)]
  /\ UNCHANGED <<life, invalid, inum, enum, ghost, index, size, ent, ts, pm, content, lock, pc, args,
                 regs>>

(* Its end.  The ghost slot is not freed. *)
ReleaseEnd(f) ==
  /\ life[f] = "releasing"
  /\ list[f] = <<>>
  /\ life' = [life EXCEPT ![f] = "free"]
  /\ UNCHANGED <<list, invalid, inum, enum, ghost, index, size, ent, ts, maps, pm, content, lock, pc,
                 args, regs>>

Next ==
  \/ \E t \in Threads : inode_write_atomic(t)
  \/ \E f \in Files : Unlink(f) \/ ReleaseEntry(f) \/ ReleaseEnd(f)

Spec == Init /\ [][Next]_vars
-----------------------------------------------------------------------------
(* Type invariant. *)
TypeOK ==
  /\ life \in [Files -> {"live", "releasing", "free"}]
  /\ list \in [Files -> Seq(Slots)]
  /\ invalid \in [Files -> Seq(Slots)]
  /\ inum \in [Files -> 0 .. WORD - 1]
  /\ enum \in [Files -> Nat]
  /\ ghost \in [Files -> Slots]
  /\ index \in [Files -> [Blocks -> Slots \union {Null}]]
  /\ size \in [Files -> 0 .. NB]
  /\ ent \in [Slots -> [l : Blocks, p : Data, n : 0 .. NB, ts : Nat, ref : 0 .. NB]]
  /\ ts \in Nat
  /\ sused \subseteq Slots
  /\ dused \subseteq Data
  /\ phead \in [Files -> Slots]
  /\ pent \in [Slots -> [l : Blocks, p : Data, n : 0 .. NB, ts : Nat, next : Slots \union {Null}]]
  /\ content \in [Data -> 0 .. MaxWrites]
  /\ lock \in [Files -> Threads \union {Null}]
  /\ pc \in [Threads -> {"idle", "alloc", "write_ts", "dispatch", "insert", "store", "unlock",
                         "read_size", "write_size"}]
  /\ file \in [Threads -> Files \union {Null}]
  /\ off \in [Threads -> Blocks]
  /\ len \in [Threads -> 0 .. NB]
  /\ ebuf \in [Threads -> Seq([l : Blocks, p : Data, n : 1 .. NB])]
  /\ num \in [Threads -> 0 .. NB]
  /\ stamp \in [Threads -> Nat]
  /\ slot \in [Threads -> Slots \union {Null}]
  /\ reuse \in [Threads -> BOOLEAN]
  /\ seen \in [Threads -> 0 .. NB]
  /\ id \in [Threads -> 0 .. MaxWrites]
  /\ writes \in 0 .. MaxWrites
  /\ saved \in [Files -> [Blocks -> 0 .. MaxWrites]]

Live       == {f \in Files : life[f] = "live"}
In(f, p)   == {t \in Threads : pc[t] \in p /\ file[t] = f}
Filling(f) == {slot[t] : t \in In(f, {"insert"})}

(* The reference count of an entry is the number of blocks the index has   *)
(* for it, and the invalid list holds, once each, the entries that have    *)
(* none: filent_try_reuse never overwrites an entry that is still in use   *)
(* and loses none that is not (the assertion of filent_insert_callback     *)
(* that ref never becomes negative is part of this).                       *)
RefExact ==
  \A f \in Live :
    /\ \A s \in Range(list[f]) \ Filling(f) : ent[s].ref = Cardinality(Indexed(f, s))
    /\ Range(invalid[f]) = {s \in Range(list[f]) \ Filling(f) : ent[s].ref = 0}
    /\ \A i, j \in DOMAIN invalid[f] : invalid[f][i] = invalid[f][j] => i = j
    /\ \A b \in Blocks : index[f][b] # Null => /\ index[f][b] \in Range(list[f])
                                               /\ b \in Covers(ent[index[f][b]])

(* A data block is in use for one block of one file at most, and the       *)
(* bitmap has exactly the blocks of the index and of the writes under way; *)
(* do_inode_release leaves none of the file's blocks behind.               *)
BlocksExact ==
  LET used == {x \in Live \X Blocks : index[x[1]][x[2]] # Null}
      at(x) == BlockOf(ent[index[x[1]][x[2]]], x[2])
      held(t) == UNION {ebuf[t][i].p .. ebuf[t][i].p + ebuf[t][i].n - 1 :
                          i \in (IF pc[t] = "store" THEN num[t] + 2 ELSE num[t] + 1) .. Len(ebuf[t])}
  IN  (\A f \in Files : life[f] # "releasing") =>
        /\ \A x, y \in used : at(x) = at(y) => x = y
        /\ dused = {at(x) : x \in used} \union UNION {held(t) : t \in Threads}

(* What a block read through the index has is what the last write stored   *)
(* for it, unless one is between updating the index and storing its entry. *)
ReadsOwn ==
  \A f \in Live : In(f, {"store"}) = {} =>
    \A b \in Blocks :
      saved[f][b] = IF index[f][b] = Null THEN 0 ELSE content[BlockOf(ent[index[f][b]], b)]
-----------------------------------------------------------------------------
(* Recovery.  The walk of the log from log_head until a slot without next, *)
Chain(f) ==
  LET c[i \in 1 .. Cardinality(Slots) + 1] ==
        IF i = 1 THEN phead[f] ELSE IF c[i - 1] = Null THEN Null ELSE pent[c[i - 1]].next
  IN  [i \in 1 .. Cardinality({j \in DOMAIN c : c[j] # Null}) |-> c[i]]

(* rc_handle_filent: a later entry of the log takes a block over from an   *)
(* earlier one if its timestamp is greater; the ghost slot has no entry.   *)
Winner(f, b) ==
  LET L == Chain(f)
      E == {i \in DOMAIN L : pent[L[i]].next # Null /\ b \in Covers(pent[L[i]])}
  IN  IF E = {} THEN Null
      ELSE L[CHOOSE i \in E : \A j \in E : \/ pent[L[j]].ts < pent[L[i]].ts
                                           \/ pent[L[j]].ts = pent[L[i]].ts /\ i <= j]

Recovered(f, b) ==
  IF Winner(f, b) = Null THEN 0 ELSE content[BlockOf(pent[Winner(f, b)], b)]

(* The log in PM has the entries of the list in DRAM in the same order and *)
(* ends in the ghost slot, at every crash point.  An entry that is being   *)
(* appended is not yet an entry: its slot is the ghost slot in PM.         *)
ChainMatches ==
  \A f \in Live :
    Chain(f) = IF \E t \in In(f, {"insert", "store"}) : ~reuse[t] THEN list[f]
               ELSE Append(list[f], ghost[f])

(* A crash at any point, followed by recovery's walk, finds in each block  *)
(* what the last write stored for it wrote: although entries are           *)
(* overwritten out of order, and data blocks freed and allocated again,    *)
(* neither an older version comes back nor another write's data shows up.  *)
CrashContent == \A f \in Live, b \in Blocks : Recovered(f, b) = saved[f][b]

(* Between writes, the size of a file covers all its blocks. *)
SizeCovers ==
  \A f \in Live : In(f, {"unlock", "read_size", "write_size"}) = {} /\ lock[f] = Null =>
    \A b \in Blocks : index[f][b] # Null => b < size[f]

At(d) == IF d \in Data THEN content[d] ELSE -1

(* inode_read of n blocks from block o: each round copies as many blocks   *)
(* as the whole entry has.                                                 *)
inode_read(f, o, n) ==
  LET rd[left \in 0 .. n] ==
        IF left = 0 THEN <<>>
        ELSE LET b  == o + n - left
                 s  == index[f][b]
                 nr == IF s = Null THEN 1 ELSE IF left > ent[s].n THEN ent[s].n ELSE left
             IN  [k \in 1 .. nr |-> IF s = Null THEN 0 ELSE At(BlockOf(ent[s], b) + k - 1)]
                 \o rd[left - nr]
  IN  rd[n]

(* What is read back is what was written (tests/rw_test.c). *)
ReadsBack ==
  \A f \in Live : lock[f] = Null =>
    \A o \in Blocks : \A n \in 1 .. NB - o :
      o + n <= size[f] => inode_read(f, o, n) = [k \in 1 .. n |-> saved[f][o + k - 1]]
=============================================================================
