------------------------------- MODULE DirLog -------------------------------
(***************************************************************************)
(* The directory logs of inode.c: dir_append_entry and dir_remove_entry,   *)
(* one PM store at a time.                                                 *)
(*                                                                         *)
(* A directory is a linked list of dirent slots in PM that starts at the   *)
(* log_head of its PM inode and ends in a GHOST slot, an allocated slot    *)
(* whose next pointer is 0.  An append fills the ghost and links a fresh   *)
(* one behind it; a removal unlinks a slot and clears its next pointer     *)
(* before it gives the slot back.  The inode lock allows one operation per *)
(* directory; operations on different directories interleave and exchange  *)
(* slots through the shared table (module SlotAlloc).                      *)
(*                                                                         *)
(* PM stores become durable in program order (eADR: flush_cache and        *)
(* flush_byte do nothing), so what a crash leaves behind is the value of   *)
(* the PM variables in some state: an invariant over the PM variables is a *)
(* statement about every crash point.                                      *)
(***************************************************************************)
EXTENDS Naturals, Sequences, FiniteSets, Functions

CONSTANTS
  Dirs,    \* the directories
  Root,    \* the one mkfs makes
  Slots,   \* the dirent slots a log may use (slot 0 is reserved)
  Null,    \* slot index 0
  Names,   \* names of entries
  Inos,    \* inode numbers of entries
  NoName,  \* contents of a slot that was never written
  NoIno

ASSUME RootAssumption == Root \in Dirs
ASSUME NullAssumption == Null \notin Slots
ASSUME SlotsAssumption == IsFiniteSet(Slots)
ASSUME ContentAssumption == NoName \notin Names /\ NoIno \notin Inos

VARIABLES
  used,    \* the slots marked in the DRAM bitmap
  pc,      \* pc[d]: the next step of the operation that holds d's lock
  list,    \* list[d]: dir->list, the slots of its dirents in order
  index,   \* index[d]: the dirents in dir->rb_root, by slot
  ghost,   \* ghost[d]: dir->ghost_slot
  head,    \* head[d]: dir->log_head
  dname,   \* dname[s], dino[s]: the DRAM dirent of slot s
  dino,
  target,  \* target[d]: dno of the append, d->idx of the removal
  pos,     \* pos[d]: where the dirent being removed is in the list
  prev,    \* prev[d]: prev_ptr, as the slot that holds it, Null: the inode
  next,    \* next[d]: next_ptr
  phead,   \* PM: log_head of the directory's inode
  pnext,   \* PM: next, name and ino of every dirent slot
  pname,
  pino

dram   == <<used, list, index, ghost, head, dname, dino>>
locals == <<target, pos, prev, next>>
pm     == <<phead, pnext, pname, pino>>
vars   == <<used, pc, list, index, ghost, head, dname, dino, target, pos, prev, next,
            phead, pnext, pname, pino>>

(* mkfs: an empty root directory whose log is one ghost slot *)
Init ==
  \E g \in Slots :
    /\ used = {g}
    /\ pc = [d \in Dirs |-> IF d = Root THEN "idle" ELSE "absent"]
    /\ list = [d \in Dirs |-> <<>>]
    /\ index = [d \in Dirs |-> {}]
    /\ ghost = [d \in Dirs |-> IF d = Root THEN g ELSE Null]
    /\ head = ghost
    /\ dname = [s \in Slots |-> NoName]
    /\ dino = [s \in Slots |-> NoIno]
    /\ target = [d \in Dirs |-> Null]
    /\ pos = [d \in Dirs |-> 0]
    /\ prev = [d \in Dirs |-> Null]
    /\ next = [d \in Dirs |-> Null]
    /\ phead = ghost
    /\ pnext = [s \in Slots |-> Null]
    /\ pname = [s \in Slots |-> NoName]
    /\ pino = [s \in Slots |-> NoIno]
-----------------------------------------------------------------------------
(* list_del of the k-th dirent *)
RemoveAt(L, k) == SubSeq(L, 1, k - 1) \o SubSeq(L, k + 1, Len(L))

(* inode_create of a directory: init_ghost_slot, ... *)
CreateLog(d) ==
  /\ pc[d] = "absent"
  /\ \E g \in Slots \ used :
       /\ used' = used \union {g}
       /\ ghost' = [ghost EXCEPT ![d] = g]
       /\ head' = [head EXCEPT ![d] = g]
  /\ pc' = [pc EXCEPT ![d] = "flush"]
  /\ UNCHANGED <<list, index, dname, dino, locals, pm>>

(* ... then inode_flush *)
FlushInode(d) ==
  /\ pc[d] = "flush"
  /\ phead' = [phead EXCEPT ![d] = head[d]]
  /\ pc' = [pc EXCEPT ![d] = "idle"]
  /\ UNCHANGED <<dram, locals, pnext, pname, pino>>
-----------------------------------------------------------------------------
Lookup(d, name) == {s \in index[d] : dname[s] = name}

AppendBegin_NoMark(d) ==
  /\ pc[d] = "idle"
  /\ \E name \in Names, ino \in Inos, g \in Slots \ used :
       /\ Lookup(d, name) = {}
       /\ ghost' = [ghost EXCEPT ![d] = g]
       /\ dname' = [dname EXCEPT ![ghost[d]] = name]
       /\ dino' = [dino EXCEPT ![ghost[d]] = ino]
  /\ target' = [target EXCEPT ![d] = ghost[d]]
  /\ index' = [index EXCEPT ![d] = @ \union {ghost[d]}]
  /\ pc' = [pc EXCEPT ![d] = "store_ino"]
  /\ UNCHANGED <<used, list, head, pos, prev, next, pm>>

(* dir_append_entry: take the ghost, allocate the next one, fill the       *)
(* dirent, dir_index_insert.  The callers looked the name up under the     *)
(* same lock.                                                              *)
AppendBegin(d) ==
  /\ pc[d] = "idle"
  /\ \E name \in Names, ino \in Inos, g \in Slots \ used :
       /\ Lookup(d, name) = {}
       /\ used' = used \union {g}
       /\ ghost' = [ghost EXCEPT ![d] = g]
       /\ dname' = [dname EXCEPT ![ghost[d]] = name]
       /\ dino' = [dino EXCEPT ![ghost[d]] = ino]
  /\ target' = [target EXCEPT ![d] = ghost[d]]
  /\ index' = [index EXCEPT ![d] = @ \union {ghost[d]}]
  /\ pc' = [pc EXCEPT ![d] = "store_ino"]
  /\ UNCHANGED <<list, head, pos, prev, next, pm>>

(* pd->ino = ... *)
StoreIno(d) ==
  /\ pc[d] = "store_ino"
  /\ pino' = [pino EXCEPT ![target[d]] = dino[target[d]]]
  /\ pc' = [pc EXCEPT ![d] = "store_next"]
  /\ UNCHANGED <<dram, locals, phead, pnext, pname>>

(* pd->next = dir->ghost_slot: from here on the entry is in the log *)
StoreNext(d) ==
  /\ pc[d] = "store_next"
  /\ pnext' = [pnext EXCEPT ![target[d]] = ghost[d]]
  /\ pc' = [pc EXCEPT ![d] = "store_name"]
  /\ UNCHANGED <<dram, locals, phead, pname, pino>>

(* pd->name_len = ..., memcpy(pd->name, ...) *)
StoreName(d) ==
  /\ pc[d] = "store_name"
  /\ pname' = [pname EXCEPT ![target[d]] = dname[target[d]]]
  /\ pc' = [pc EXCEPT ![d] = "list_add"]
  /\ UNCHANGED <<dram, locals, phead, pnext, pino>>

(* list_add_tail *)
AppendEnd(d) ==
  /\ pc[d] = "list_add"
  /\ list' = [list EXCEPT ![d] = Append(@, target[d])]
  /\ pc' = [pc EXCEPT ![d] = "idle"]
  /\ UNCHANGED <<used, index, ghost, head, dname, dino, locals, pm>>
-----------------------------------------------------------------------------
(* dir_remove_entry: the neighbours of the k-th dirent, rb_erase, and the  *)
(* DRAM log_head when it is the first one                                  *)
RemoveBegin(d) ==
  /\ pc[d] = "idle"
  /\ \E k \in DOMAIN list[d] :
       LET s    == list[d][k]
           succ == IF k = Len(list[d]) THEN ghost[d] ELSE list[d][k + 1]
       IN  /\ index' = [index EXCEPT ![d] = @ \ {s}]
           /\ target' = [target EXCEPT ![d] = s]
           /\ pos' = [pos EXCEPT ![d] = k]
           /\ next' = [next EXCEPT ![d] = succ]
           /\ \/ /\ head[d] = s
                 /\ head' = [head EXCEPT ![d] = succ]
                 /\ prev' = [prev EXCEPT ![d] = Null]
              \/ /\ head[d] # s
                 /\ prev' = [prev EXCEPT ![d] = list[d][k - 1]]
                 /\ UNCHANGED head
  /\ pc' = [pc EXCEPT ![d] = "store_prev"]
  /\ UNCHANGED <<used, list, ghost, dname, dino, pm>>

StorePrev_DropsTail(d) ==
  /\ pc[d] = "store_prev"
  /\ IF prev[d] = Null
     THEN phead' = [phead EXCEPT ![d] = ghost[d]] /\ UNCHANGED pnext
     ELSE pnext' = [pnext EXCEPT ![prev[d]] = ghost[d]] /\ UNCHANGED phead
  /\ pc' = [pc EXCEPT ![d] = "clear_next"]
  /\ UNCHANGED <<dram, locals, pname, pino>>

(* *prev_ptr = next_ptr: from here on the entry is out of the log *)
StorePrev(d) ==
  /\ pc[d] = "store_prev"
  /\ \/ /\ prev[d] = Null
        /\ phead' = [phead EXCEPT ![d] = next[d]]
        /\ UNCHANGED pnext
     \/ /\ prev[d] # Null
        /\ pnext' = [pnext EXCEPT ![prev[d]] = next[d]]
        /\ UNCHANGED phead
  /\ pc' = [pc EXCEPT ![d] = "clear_next"]
  /\ UNCHANGED <<dram, locals, pname, pino>>

ClearNext_Skipped(d) ==
  /\ pc[d] = "clear_next"
  /\ pc' = [pc EXCEPT ![d] = "free"]
  /\ UNCHANGED <<dram, locals, pm>>

(* pd->next = 0 *)
ClearNext(d) ==
  /\ pc[d] = "clear_next"
  /\ pnext' = [pnext EXCEPT ![target[d]] = Null]
  /\ pc' = [pc EXCEPT ![d] = "free"]
  /\ UNCHANGED <<dram, locals, phead, pname, pino>>

RemoveEnd_SlotKept(d) ==
  /\ pc[d] = "free"
  /\ list' = [list EXCEPT ![d] = RemoveAt(@, pos[d])]
  /\ dname' = [dname EXCEPT ![target[d]] = NoName]
  /\ dino' = [dino EXCEPT ![target[d]] = NoIno]
  /\ pc' = [pc EXCEPT ![d] = "idle"]
  /\ UNCHANGED <<used, index, ghost, head, locals, pm>>

(* slot_dirent_free, list_del, dirent_free.  Other directories see only    *)
(* the first; the rest is under the directory's lock.                      *)
RemoveEnd(d) ==
  /\ pc[d] = "free"
  /\ used' = used \ {target[d]}
  /\ list' = [list EXCEPT ![d] = RemoveAt(@, pos[d])]
  /\ dname' = [dname EXCEPT ![target[d]] = NoName]
  /\ dino' = [dino EXCEPT ![target[d]] = NoIno]
  /\ pc' = [pc EXCEPT ![d] = "idle"]
  /\ UNCHANGED <<index, ghost, head, locals, pm>>

Next ==
  \E d \in Dirs :
    \/ CreateLog(d) \/ FlushInode(d)
    \/ AppendBegin(d) \/ StoreIno(d) \/ StoreNext(d) \/ StoreName(d) \/ AppendEnd(d)
    \/ RemoveBegin(d) \/ StorePrev(d) \/ ClearNext(d) \/ RemoveEnd(d)

Spec == Init /\ [][Next]_vars
-----------------------------------------------------------------------------
(* Type invariant. *)
TypeOK ==
  /\ used \subseteq Slots
  /\ pc \in [Dirs -> {"absent", "flush", "idle", "store_ino", "store_next", "store_name",
                      "list_add", "store_prev", "clear_next", "free"}]
  /\ list \in [Dirs -> Seq(Slots)]
  /\ index \in [Dirs -> SUBSET Slots]
  /\ ghost \in [Dirs -> Slots \union {Null}]
  /\ head \in [Dirs -> Slots \union {Null}]
  /\ \A d \in Dirs : pc[d] # "absent" => ghost[d] # Null /\ head[d] # Null
  /\ dname \in [Slots -> Names \union {NoName}]
  /\ dino \in [Slots -> Inos \union {NoIno}]
  /\ target \in [Dirs -> Slots \union {Null}]
  /\ pos \in [Dirs -> Nat]
  /\ prev \in [Dirs -> Slots \union {Null}]
  /\ next \in [Dirs -> Slots \union {Null}]
  /\ phead \in [Dirs -> Slots \union {Null}]
  /\ pnext \in [Slots -> Slots \union {Null}]
  /\ pname \in [Slots -> Names \union {NoName}]
  /\ pino \in [Slots -> Inos \union {NoIno}]

(* The directories whose inode has reached PM. *)
Live == {d \in Dirs : pc[d] \notin {"absent", "flush"}}

(* The entries the PM log of d holds at this point of the operation, and   *)
(* the slot the log ends in.                                               *)
PmLog(d) ==
  CASE pc[d] \in {"store_name", "list_add"} -> Append(list[d], target[d])
    [] pc[d] \in {"clear_next", "free"}     -> RemoveAt(list[d], pos[d])
    [] OTHER                                -> list[d]
PmTail(d) == IF pc[d] \in {"store_ino", "store_next"} THEN target[d] ELSE ghost[d]
Chain(d)  == Append(PmLog(d), PmTail(d))

(* The slots d accounts for, chained in PM or not. *)
Own(d) ==
  IF pc[d] = "absent" THEN {}
  ELSE Range(list[d]) \union {ghost[d]}
         \union (IF pc[d] \in {"store_ino", "store_next", "store_name", "list_add"}
                 THEN {target[d]} ELSE {})

(* Whatever the crash point, following next from log_head visits exactly   *)
(* the entries and ends in an empty ghost slot: no append or removal of    *)
(* any directory ever leaves a chain broken, cyclic or running into stale  *)
(* pointers of a recycled slot.                                            *)
ChainIntact ==
  \A d \in Live :
    /\ phead[d] = Chain(d)[1]
    /\ \A i \in 1 .. Len(PmLog(d)) : pnext[PmLog(d)[i]] = Chain(d)[i + 1]
    /\ pnext[PmTail(d)] = Null

(* No slot is in two logs or twice in one, however allocations and frees   *)
(* of the directories interleave.                                          *)
LogsDisjoint ==
  /\ \A d \in Live : \A i, j \in DOMAIN Chain(d) : Chain(d)[i] = Chain(d)[j] => i = j
  /\ \A d, e \in Dirs : d # e => Own(d) \intersect Own(e) = {}

(* The bitmap marks exactly the slots some directory accounts for: none    *)
(* leaks, none is free while a log still needs it.                         *)
UsedExact == used = UNION {Own(d) : d \in Dirs}

(* A slot that may be allocated has no next pointer left, so it can become *)
(* a ghost without being written (inode.c:197 clears it AFTER unlinking).  *)
FreeSlotsClean == \A s \in Slots \ used : pnext[s] = Null

(* Every listed dirent that is still in the PM log is there with its name  *)
(* and inode number, and names in a directory are unique.                  *)
EntriesDurable ==
  \A d \in Live :
    /\ \A i \in DOMAIN list[d] :
         LET s == list[d][i] IN pname[s] = dname[s] /\ pino[s] = dino[s]
    /\ \A i, j \in DOMAIN list[d] : pname[list[d][i]] = pname[list[d][j]] => i = j

(* What a walk from log_head along next visits, and the entries it finds:  *)
(* every slot but the ghost, whose next pointer is 0.                      *)
Reached(d) ==
  LET r[n \in 0 .. Cardinality(Slots)] ==
        IF n = 0 THEN {phead[d]} \ {Null}
        ELSE r[n - 1] \union ({pnext[s] : s \in r[n - 1]} \ {Null})
  IN  r[Cardinality(Slots)]
PmEntries(d) ==
  {<<s, pname[s], pino[s]>> : s \in {x \in Reached(d) : pnext[x] # Null}}

(* A step of any directory changes the durable entries of a directory only *)
(* through that directory's own operation, and then only the entry it      *)
(* works on: everything acknowledged before survives a crash.              *)
CommittedStays ==
  [][\A d \in Live :
       LET old == {e \in PmEntries(d) : e[1] # target'[d]}
           new == {e \in PmEntries(d)' : e[1] # target'[d]}
       IN  (pc[d] # "idle" => target'[d] = target[d]) /\ old = new]_vars

(* inode_create's comment (inode.c:289): the entry is appended atomically, *)
(* so a crash finds it complete or not at all.                             *)
AtomicAppend ==
  \A d \in Live : \A i \in DOMAIN PmLog(d) :
    LET s == PmLog(d)[i] IN pname[s] = dname[s] /\ pino[s] = dino[s]
=============================================================================
