------------------------------ MODULE Recover ------------------------------
(***************************************************************************)
(* recover.c: the recovery threads share a queue of inode numbers.  A      *)
(* thread takes a directory from the queue, walks its log and queues every *)
(* inode it meets for the first time; it leaves when nobody is active any  *)
(* more.  The walk marks slots in bitmaps and counts links in a table, all *)
(* shared and, but for the queue and active_thread, without locks.         *)
(*                                                                         *)
(* The PM image is fixed while recovery runs, one record of Images:        *)
(* head[i] is the log_head of inode i, ino[s] and next[s] are those of the *)
(* dirent slot s.  The log of a file is not walked here (head[i] = Null).  *)
(* The handler of a slot does not look for the ghost slot a log ends in.   *)
(***************************************************************************)
EXTENDS Naturals, Sequences, FiniteSets, Functions

CONSTANTS
  Threads,   \* the THREAD_NUM recovery threads
  Inodes,    \* inode numbers
  Root,      \* inode 0
  Dirents,   \* dirent slots
  Null,      \* slot index 0
  Boot,      \* the thread that calls recover()
  Images,    \* the PM images to recover from
  ByteOf,    \* ByteOf[b]: the byte that holds the bit of an inode or dirent slot b
  Garbage    \* what malloc leaves in the link field of an rc_inode

ASSUME ThreadsAssumption ==
  IsFiniteSet(Threads) /\ Threads # {} /\ Boot \notin Threads /\ Null \notin Threads \union {Boot}
ASSUME ImageAssumption ==
  /\ Root \in Inodes /\ Null \notin Dirents
  /\ \A m \in Images : /\ m.head \in [Inodes -> Dirents \union {Null}]
                       /\ m.ino \in [Dirents -> Inodes]
                       /\ m.next \in [Dirents -> Dirents \union {Null}]
ASSUME GarbageAssumption == Garbage \subseteq Nat

VARIABLES
  image,   \* the PM image
  data,    \* rc->queue->data up to rear
  front,   \* rc->queue->front
  active,  \* rc->active_thread
  table,   \* table[i]: which thread's rc_inode is in inode_table[i], Null: none
  link,    \* link[<<i, w>>], num[<<i, w>>]: link and entry_num of the rc_inode
  num,     \*   for inode i that thread w allocated
  map,     \* the inodes and dirent slots whose bit is set in rc->map
  main,    \* the next step of recover()
  pnum,    \* PM: entry_num of the inodes ...
  pmap,    \* ... and the bitmaps
  pc,      \* pc[t]: the next step of thread t
  cur,     \* cur[t]: the inode it handles, ...
  obj,     \* ... which rc_inode of it, ...
  idx,     \* ... the slot of its log it is at, ...
  child,   \* ... the rc_inode of the entry's inode, ...
  byte,    \* ... the byte of the bitmap ...
  count    \* ... and the link count it has read

queue == <<data, front>>
tab   == <<table, link, num>>
walk  == <<cur, obj, idx>>
regs  == <<child, byte, count>>
pm    == <<image, main, pnum, pmap>>
vars  == <<image, data, front, active, table, link, num, map, main, pnum, pmap, pc, cur, obj, idx,
           child, byte, count>>

Owners == Threads \union {Boot}
Objs   == Inodes \X Owners

(* rc_init and recover: the root is in the table and in the queue.  malloc  *)
(* leaves the fields rc_iget does not set as they are.                     *)
Init ==
  /\ image \in Images
  /\ data = <<Root>>
  /\ front = 0
  /\ active = Cardinality(Threads)
  /\ table = [i \in Inodes |-> IF i = Root THEN Boot ELSE Null]
  /\ \E g \in Garbage :
       /\ link = [o \in Objs |-> IF o = <<Root, Boot>> THEN 1 ELSE g]
       /\ num = [o \in Objs |-> g]
  /\ map = {}
  /\ main = "join"
  /\ pnum = [i \in Inodes |-> 0]
  /\ pmap = {}
  /\ pc = [t \in Threads |-> "pop"]
  /\ cur = [t \in Threads |-> Root]
  /\ obj = [t \in Threads |-> Boot]
  /\ idx = [t \in Threads |-> Null]
  /\ child = [t \in Threads |-> Boot]
  /\ byte = [t \in Threads |-> {}]
  /\ count = [t \in Threads |-> 0]

Goto(t, p) == pc' = [pc EXCEPT ![t] = p]
-----------------------------------------------------------------------------
(* queue_pop *)
Pop(t) ==
  /\ pc[t] = "pop"
  /\ \/ /\ front < Len(data)
        /\ cur' = [cur EXCEPT ![t] = data[front + 1]]
        /\ front' = front + 1
        /\ Goto(t, "handle")
     \/ /\ front >= Len(data)
        /\ Goto(t, "leave")
        /\ UNCHANGED <<cur, front>>
  /\ UNCHANGED <<pm, data, active, tab, map, obj, idx, regs>>

(* atomic_fetch_sub(&rc->active_thread, 1) *)
Leave(t) ==
  /\ pc[t] = "leave"
  /\ active' = active - 1
  /\ Goto(t, "check_active")
  /\ UNCHANGED <<pm, queue, tab, map, walk, regs>>

CheckActive_OneLeft(t) ==
  /\ pc[t] = "check_active"
  /\ Goto(t, IF active <= 1 THEN "done" ELSE "check_queue")
  /\ UNCHANGED <<pm, queue, active, tab, map, walk, regs>>

CheckActive_BelowZero(t) ==
  /\ pc[t] = "check_active"
  /\ Goto(t, IF active < 0 THEN "done" ELSE "check_queue")
  /\ UNCHANGED <<pm, queue, active, tab, map, walk, regs>>

(* if (rc->active_thread == 0) return 0 *)
CheckActive(t) ==
  /\ pc[t] = "check_active"
  /\ \/ active = 0 /\ Goto(t, "done")
     \/ active # 0 /\ Goto(t, "check_queue")
  /\ UNCHANGED <<pm, queue, active, tab, map, walk, regs>>

(* if ((rc->queue->rear - rc->queue->front) > 0), read without the lock *)
CheckQueue(t) ==
  /\ pc[t] = "check_queue"
  /\ \/ front < Len(data) /\ Goto(t, "rejoin")
     \/ front >= Len(data) /\ Goto(t, "check_active")
  /\ UNCHANGED <<pm, queue, active, tab, map, walk, regs>>

(* atomic_fetch_add(&rc->active_thread, 1); break *)
Rejoin(t) ==
  /\ pc[t] = "rejoin"
  /\ active' = active + 1
  /\ Goto(t, "pop")
  /\ UNCHANGED <<pm, queue, tab, map, walk, regs>>
-----------------------------------------------------------------------------
(* rc_handle_inode: rc_iget, then the walk starts at log_head *)
HandleInode(t) ==
  /\ pc[t] = "handle"
  /\ obj' = [obj EXCEPT ![t] = table[cur[t]]]
  /\ idx' = [idx EXCEPT ![t] = image.head[cur[t]]]
  /\ Goto(t, "read_ibyte")
  /\ UNCHANGED <<pm, queue, active, tab, map, cur, regs>>

(* rc_handle_dirent: rc_iget of the entry's inode, which may find it in the *)
(* table ...                                                               *)
Iget(t) ==
  /\ pc[t] = "iget"
  /\ LET c == image.ino[idx[t]]
     IN  \/ /\ table[c] # Null
            /\ child' = [child EXCEPT ![t] = table[c]]
            /\ Goto(t, "read_byte")
         \/ /\ table[c] = Null
            /\ Goto(t, "install")
            /\ UNCHANGED child
  /\ UNCHANGED <<pm, queue, active, tab, map, walk, byte, count>>

(* ... or allocates one *)
Install(t) ==
  /\ pc[t] = "install"
  /\ table' = [table EXCEPT ![image.ino[idx[t]]] = t]
  /\ child' = [child EXCEPT ![t] = t]
  /\ Goto(t, "read_byte")
  /\ UNCHANGED <<pm, queue, active, link, num, map, walk, byte, count>>

SameByte(b) == {r \in Inodes \union Dirents : ByteOf[r] = ByteOf[b]}
Marking(t)  == IF pc[t] \in {"read_ibyte", "write_ibyte"} THEN cur[t] ELSE idx[t]
AtEntry(s)  == IF s = Null THEN "pop" ELSE "iget"

(* set_bit of the inode and of a dirent slot: the load of the byte, and ... *)
ReadByte(t) ==
  /\ pc[t] \in {"read_ibyte", "read_byte"}
  /\ byte' = [byte EXCEPT ![t] = map \intersect SameByte(Marking(t))]
  /\ Goto(t, IF pc[t] = "read_ibyte" THEN "write_ibyte" ELSE "write_byte")
  /\ UNCHANGED <<pm, queue, active, tab, map, walk, child, count>>

WriteByte_NotGhost(t) ==
  /\ pc[t] \in {"write_ibyte", "write_byte"}
  /\ map' = IF pc[t] = "write_byte" /\ image.next[idx[t]] = Null THEN map
            ELSE (map \ SameByte(Marking(t))) \union byte[t] \union {Marking(t)}
  /\ Goto(t, IF pc[t] = "write_ibyte" THEN AtEntry(idx[t]) ELSE "read_link")
  /\ UNCHANGED <<pm, queue, active, tab, walk, regs>>

(* ... the store of the byte with the bit set *)
WriteByte(t) ==
  /\ pc[t] \in {"write_ibyte", "write_byte"}
  /\ map' = (map \ SameByte(Marking(t))) \union byte[t] \union {Marking(t)}
  /\ Goto(t, IF pc[t] = "write_ibyte" THEN AtEntry(idx[t]) ELSE "read_link")
  /\ UNCHANGED <<pm, queue, active, tab, walk, regs>>

(* child->link++, in two steps *)
ReadLink(t) ==
  /\ pc[t] = "read_link"
  /\ count' = [count EXCEPT ![t] = link[<<image.ino[idx[t]], child[t]>>]]
  /\ Goto(t, "write_link")
  /\ UNCHANGED <<pm, queue, active, tab, map, walk, child, byte>>

WriteLink(t) ==
  /\ pc[t] = "write_link"
  /\ link' = [link EXCEPT ![<<image.ino[idx[t]], child[t]>>] = count[t] + 1]
  /\ Goto(t, "push")
  /\ UNCHANGED <<pm, queue, active, table, num, map, walk, regs>>

Push_SecondLink(t) ==
  /\ pc[t] = "push"
  /\ data' = IF count[t] = 1 THEN Append(data, image.ino[idx[t]]) ELSE data
  /\ num' = [num EXCEPT ![<<cur[t], obj[t]>>] = @ + 1]
  /\ idx' = [idx EXCEPT ![t] = image.next[idx[t]]]
  /\ Goto(t, AtEntry(idx'[t]))
  /\ UNCHANGED <<pm, front, active, table, link, map, cur, obj, regs>>

(* queue_push of an inode whose link count has become 1, entry_num++, next *)
Push(t) ==
  /\ pc[t] = "push"
  /\ data' = IF count[t] = 0 THEN Append(data, image.ino[idx[t]]) ELSE data
  /\ num' = [num EXCEPT ![<<cur[t], obj[t]>>] = @ + 1]
  /\ idx' = [idx EXCEPT ![t] = image.next[idx[t]]]
  /\ Goto(t, AtEntry(idx'[t]))
  /\ UNCHANGED <<pm, front, active, table, link, map, cur, obj, regs>>

(* one step of the thread function rc_replay *)
rc_replay(t) ==
  \/ Pop(t) \/ Leave(t) \/ CheckActive(t) \/ CheckQueue(t) \/ Rejoin(t)
  \/ HandleInode(t) \/ Iget(t) \/ Install(t) \/ ReadByte(t) \/ WriteByte(t)
  \/ ReadLink(t) \/ WriteLink(t) \/ Push(t)

(* pthread_join of every thread, then rc_flush *)
Flush ==
  /\ main = "join"
  /\ \A t \in Threads : pc[t] = "done"
  /\ pnum' = [i \in Inodes |-> IF table[i] = Null THEN pnum[i] ELSE num[<<i, table[i]>>]]
  /\ pmap' = map
  /\ main' = "exit"
  /\ UNCHANGED <<image, queue, active, tab, map, pc, walk, regs>>

Next == (\E t \in Threads : rc_replay(t)) \/ Flush

(* The kernel keeps running every thread. *)
Spec == Init /\ [][Next]_vars /\ WF_vars(Flush) /\ \A t \in Threads : WF_vars(rc_replay(t))
-----------------------------------------------------------------------------
(* Type invariant. *)
TypeOK ==
  /\ image \in Images
  /\ data \in Seq(Inodes)
  /\ front \in 0 .. Len(data)
  /\ active \in 0 .. Cardinality(Threads)
  /\ table \in [Inodes -> Owners \union {Null}]
  /\ link \in [Objs -> Nat]
  /\ num \in [Objs -> Nat]
  /\ map \subseteq Inodes \union Dirents
  /\ main \in {"join", "exit"}
  /\ pnum \in [Inodes -> Nat]
  /\ pmap \subseteq Inodes \union Dirents
  /\ pc \in [Threads -> {"pop", "leave", "check_active", "check_queue", "rejoin", "done", "handle",
                         "read_ibyte", "write_ibyte", "iget", "install", "read_byte", "write_byte",
                         "read_link", "write_link", "push"}]
  /\ cur \in [Threads -> Inodes]
  /\ obj \in [Threads -> Owners \union {Null}]
  /\ idx \in [Threads -> Dirents \union {Null}]
  /\ \A t \in Threads : pc[t] \in {"iget", "install", "read_byte", "write_byte", "read_link",
                                  "write_link", "push"} => idx[t] # Null
  /\ child \in [Threads -> Owners]
  /\ byte \in [Threads -> SUBSET (Inodes \union Dirents)]
  /\ count \in [Threads -> Nat]

(* The slots of the log of inode i, and the inodes a walk from the root    *)
(* meets: the least sets that are closed under next and under the entries. *)
LogClosed(i, S) == {image.head[i]} \union {image.next[s] : s \in S} \subseteq S \union {Null}
LogSlots(i) == {s \in Dirents : \A S \in SUBSET Dirents : LogClosed(i, S) => s \in S}
TreeClosed(S) == Root \in S /\ \A i \in S : \A s \in LogSlots(i) : image.ino[s] \in S
Reachable == {i \in Inodes : \A S \in SUBSET Inodes : TreeClosed(S) => i \in S}

Handling(t) == pc[t] \in {"handle", "read_ibyte", "write_ibyte", "iget", "install", "read_byte",
                          "write_byte", "read_link", "write_link", "push"}

(* No thread of the pool leaves while there is work: once one has seen     *)
(* active_thread = 0 the queue stays empty and nobody handles an inode,    *)
(* although threads leave, look at the queue and rejoin without the lock.  *)
NoEarlyExit ==
  (\E t \in Threads : pc[t] = "done") => front = Len(data) /\ \A t \in Threads : ~Handling(t)

(* An inode is queued only when its link count becomes 1: at most once, so *)
(* no log is walked twice and the queue, as large as the inode table,      *)
(* never overflows.                                                        *)
PushedOnce ==
  /\ \A i, j \in DOMAIN data : data[i] = data[j] => i = j
  /\ Len(data) <= Cardinality(Inodes)

(* When recover() returns, every inode reachable from the root has been    *)
(* handled and nothing else has.                                           *)
AllHandled == main = "exit" => Range(data) = Reachable

(* When recover() returns, the bitmaps mark every inode and every slot of  *)
(* every log, so the bit of a slot in use is set when do_slot_free gives   *)
(* the slot back (the assertion of slot.c:161).                            *)
SlotsMarked ==
  main = "exit" => pmap = Reachable \union UNION {LogSlots(i) : i \in Reachable}

(* recover() returns. *)
Termination == <>(main = "exit")
=============================================================================
