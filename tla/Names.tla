------------------------------- MODULE Names -------------------------------
(***************************************************************************)
(* Names, inodes and locks (slotfs_func.c, slot_vfs.c): open, creat,       *)
(* unlink, rename and close by several threads, the locks they take on the *)
(* way down a path, the life of an inode in DRAM from inode_create to the  *)
(* release thread (slotfs.c), and the journal slot a rename works under    *)
(* (journal.c).                                                            *)
(*                                                                         *)
(* A path is a directory and a name in it.  Directories are the root and   *)
(* its subdirectories, all in the inode table, and stay.  A step runs up   *)
(* to the next lock the code takes; inode_lock is a spin lock, so taking   *)
(* it waits for it to be free.  How an entry gets into the log of its      *)
(* directory is DirLog's.                                                  *)
(*                                                                         *)
(* Each path has an owner, the only thread that creates, unlinks and       *)
(* renames it, and creates it only when it is not there (open with O_CREAT *)
(* of a file that exists takes no reference, line 80), and only when inode *)
(* numbers are left.  All threads open.                                    *)
(***************************************************************************)
EXTENDS Integers, Sequences, FiniteSets, Functions

CONSTANTS
  Threads,
  Dirs, Root,   \* inode numbers of the directories
  Files,        \* inode numbers of files
  Objs,         \* what inode_alloc can return
  Owner,        \* Owner[p]: the thread that owns path p = <<directory, name>>
  Renames,      \* the pairs of paths that are renamed
  JOURNAL_NUM,
  Null

Paths == DOMAIN Owner

ASSUME NamesAssumption ==
  /\ Root \in Dirs /\ Dirs \intersect Files = {}
  /\ Null \notin Threads \union Dirs \union Files \union Objs
  /\ Owner \in [Paths -> Threads] /\ \A p \in Paths : p[1] \in Dirs
  /\ Renames \subseteq Paths \X Paths
  /\ \A r \in Renames : Owner[r[1]] = Owner[r[2]]
  /\ IsFiniteSet(Threads) /\ JOURNAL_NUM \in Nat /\ JOURNAL_NUM >= Cardinality(Threads)

VARIABLES
  ilock,    \* ilock[i]: the thread that holds the lock of inode i, or Null
  entry,    \* entry[p]: the inode number under path p, or Null
  iused,    \* the inode numbers the bitmap has in use
  alive,    \* the inode_t that are allocated
  inode,    \* inode[o]: i_ino, ref and i_link of inode_t o
  table,    \* sbi->inode_table
  rlist,    \* sbi->release_list
  rcur,     \* the inode_t the release thread has taken off it, and
  rdone,    \*   whether it has freed its inode number
  use, count,   \* the journal manager
  jvalid, jrec, \* PM: the journal slots
  fd,       \* fd[t]: the inode_t a descriptor of thread t refers to
  pc, op, path, dest, want,  \* its call, the path(s), the one looked up now
  found,    \* d->ino of the entry it found
  obj,      \* the inode_t it is creating
  jnl       \* the journal slot of its rename

inodes  == <<iused, alive, inode, table>>
release == <<rlist, rcur, rdone>>
journal == <<use, count, jvalid, jrec>>
regs    == <<path, dest, found, obj, jnl>>
vars == <<ilock, entry, inodes, release, journal, fd, pc, op, want, regs>>

Slots == 0 .. JOURNAL_NUM - 1

NoInode == [ino |-> Null, ref |-> 0, link |-> 0]

Goto(t, p) == pc' = [pc EXCEPT ![t] = p]
Free(i) == ilock[i] = Null
Unlock(S) == ilock' = [i \in Dirs \union Files |-> IF i \in S THEN Null ELSE ilock[i]]
Cur(t) == want[t][1]   \* nd->current at the last component, nd->parent

(* The call returns, its local variables are gone. *)
Return(t) ==
  /\ Goto(t, "idle")
  /\ op' = [op EXCEPT ![t] = "none"]
  /\ path' = [path EXCEPT ![t] = Null]
  /\ dest' = [dest EXCEPT ![t] = Null]
  /\ want' = [want EXCEPT ![t] = Null]
  /\ found' = [found EXCEPT ![t] = Null]
  /\ obj' = [obj EXCEPT ![t] = Null]
  /\ jnl' = [jnl EXCEPT ![t] = 0]

Init ==
  /\ ilock = [i \in Dirs \union Files |-> Null]
  /\ entry = [p \in Paths |-> Null]
  /\ iused = {}
  /\ alive = {}
  /\ inode = [o \in Objs |-> NoInode]
  /\ table = [i \in Files |-> Null]
  /\ rlist = <<>>
  /\ rcur = Null
  /\ rdone = FALSE
  /\ use = [j \in Slots |-> FALSE]
  /\ count = 0
  /\ jvalid = [j \in Slots |-> FALSE]
  /\ jrec = [j \in Slots |-> Null]
  /\ fd = [t \in Threads |-> Null]
  /\ pc = [t \in Threads |-> "idle"]
  /\ op = [t \in Threads |-> "none"]
  /\ path = [t \in Threads |-> Null]
  /\ dest = [t \in Threads |-> Null]
  /\ want = [t \in Threads |-> Null]
  /\ found = [t \in Threads |-> Null]
  /\ obj = [t \in Threads |-> Null]
  /\ jnl = [t \in Threads |-> 0]
-----------------------------------------------------------------------------
(* The calls the threads make. *)
Allowed(t, o, p, q) ==
  \/ o = "open" /\ q = p /\ fd[t] = Null
  \/ /\ o = "creat" /\ q = p /\ fd[t] = Null /\ Owner[p] = t /\ entry[p] = Null
     /\ LET creats == Cardinality({u \in Threads : op[u] = "creat"})
        IN  creats < Cardinality(Files \ iused) /\ creats < Cardinality(Objs \ alive)
  \/ o = "unlink" /\ q = p /\ Owner[p] = t
  \/ o = "rename" /\ <<p, q>> \in Renames /\ Owner[p] = t

Begin(t) ==
  /\ pc[t] = "idle"
  /\ \E o \in {"open", "creat", "unlink", "rename"}, p, q \in Paths :
       /\ Allowed(t, o, p, q)
       /\ op' = [op EXCEPT ![t] = o]
       /\ path' = [path EXCEPT ![t] = p]
       /\ dest' = [dest EXCEPT ![t] = q]
       /\ want' = [want EXCEPT ![t] = p]
  /\ Goto(t, "root")
  /\ UNCHANGED <<ilock, entry, inodes, release, journal, fd, found, obj, jnl>>

(* path_lookup: the root, and the directory below it under the root's lock *)
LockRoot(t) ==
  /\ pc[t] = "root"
  /\ Free(Root)
  /\ ilock' = [ilock EXCEPT ![Root] = t]
  /\ Goto(t, IF Cur(t) = Root THEN "last" ELSE "down")
  /\ UNCHANGED <<entry, inodes, release, journal, fd, op, want, regs>>

LockDir(t) ==
  /\ pc[t] = "down"
  /\ Free(Cur(t))
  /\ ilock' = [ilock EXCEPT ![Cur(t)] = t, ![Root] = Null]
  /\ Goto(t, "last")
  /\ UNCHANGED <<entry, inodes, release, journal, fd, op, want, regs>>

NotFound_KeepsLock(t) ==
  /\ pc[t] = "last" /\ op[t] \in {"open", "unlink"}
  /\ entry[want[t]] = Null
  /\ Return(t)
  /\ UNCHANGED <<ilock, entry, inodes, release, journal, fd>>

(* -ENOENT *)
NotFound(t) ==
  /\ pc[t] = "last" /\ op[t] \in {"open", "unlink"}
  /\ entry[want[t]] = Null
  /\ Unlock({Cur(t)})
  /\ Return(t)
  /\ UNCHANGED <<entry, inodes, release, journal, fd>>

Found(t) ==
  /\ pc[t] = "last" /\ op[t] \in {"open", "unlink", "creat"}
  /\ entry[want[t]] # Null
  /\ found' = [found EXCEPT ![t] = entry[want[t]]]
  /\ Goto(t, "iget")
  /\ UNCHANGED <<ilock, entry, inodes, release, journal, fd, op, path, dest, want, obj, jnl>>

(* iget: the inode is locked under its directory's lock.  path_lookup gives *)
(* that one up; unlink, and open with O_CREAT, keep it.                     *)
Iget(t) ==
  /\ pc[t] = "iget"
  /\ Free(found[t])
  /\ ilock' = [ilock EXCEPT ![found[t]] = t, ![Cur(t)] = IF op[t] = "open" THEN Null ELSE @]
  /\ Goto(t, "got")
  /\ UNCHANGED <<entry, inodes, release, journal, fd, op, want, regs>>

Open_NoRef(t) ==
  /\ pc[t] = "got" /\ op[t] \in {"open", "creat"}
  /\ fd' = [fd EXCEPT ![t] = table[found[t]]]
  /\ Unlock({found[t]} \union (IF op[t] = "open" THEN {} ELSE {Cur(t)}))
  /\ Return(t)
  /\ UNCHANGED <<entry, inodes, release, journal>>

(* do_slotfs_open of a file that is there takes a reference, but not with  *)
(* O_CREAT.                                                                *)
Open(t) ==
  LET o == table[found[t]]
  IN  /\ pc[t] = "got" /\ op[t] \in {"open", "creat"}
      /\ inode' = [inode EXCEPT ![o].ref = IF op[t] = "open" THEN @ + 1 ELSE @]
      /\ fd' = [fd EXCEPT ![t] = o]
      /\ Unlock({found[t]} \union (IF op[t] = "open" THEN {} ELSE {Cur(t)}))
      /\ Return(t)
      /\ UNCHANGED <<entry, iused, alive, table, release, journal>>

(* do_slotfs_open with O_CREAT: inode_create, which enters the name, and ... *)
Create(t) ==
  /\ pc[t] = "last" /\ op[t] = "creat"
  /\ entry[want[t]] = Null
  /\ \E i \in Files \ iused, o \in Objs \ alive :
       /\ iused' = iused \union {i}
       /\ alive' = alive \union {o}
       /\ inode' = [inode EXCEPT ![o] = [ino |-> i, ref |-> 1, link |-> 1]]
       /\ entry' = [entry EXCEPT ![want[t]] = i]
       /\ obj' = [obj EXCEPT ![t] = o]
  /\ Goto(t, "install")
  /\ UNCHANGED <<ilock, table, release, journal, fd, op, path, dest, want, found, jnl>>

(* ... icache_install *)
Install(t) ==
  LET i == inode[obj[t]].ino
  IN  /\ pc[t] = "install"
      /\ Free(i)
      /\ table' = [table EXCEPT ![i] = obj[t]]
      /\ fd' = [fd EXCEPT ![t] = obj[t]]
      /\ Unlock({Cur(t)})
      /\ Return(t)
      /\ UNCHANGED <<entry, iused, alive, inode, release, journal>>

Gone_IgnoresRef(n) == n.link = 0

(* Whether nothing refers to an inode_t any more. *)
Gone(n) == n.ref = 0 /\ n.link = 0

(* slotfs_unlink: inode_remove, and inode_release if nobody has it open.   *)
(* The inode table is left as it is.                                       *)
Unlink(t) ==
  LET o == table[found[t]]
      n == [inode[o] EXCEPT !.link = @ - 1]
  IN  /\ pc[t] = "got" /\ op[t] = "unlink"
      /\ entry' = [entry EXCEPT ![want[t]] = Null]
      /\ inode' = [inode EXCEPT ![o] = n]
      /\ rlist' = IF Gone(n) THEN <<o>> \o rlist ELSE rlist
      /\ Goto(t, "unlinked")
      /\ UNCHANGED <<ilock, iused, alive, table, rcur, rdone, journal, fd, op, want, regs>>

UnlinkDone(t) ==
  /\ pc[t] = "unlinked"
  /\ Unlock({found[t], Cur(t)})
  /\ Return(t)
  /\ UNCHANGED <<entry, inodes, release, journal, fd>>

(* slotfs_close *)
CloseLock(t) ==
  LET i == inode[fd[t]].ino
  IN  /\ pc[t] = "idle" /\ fd[t] # Null
      /\ Free(i)
      /\ ilock' = [ilock EXCEPT ![i] = t]
      /\ found' = [found EXCEPT ![t] = i]
      /\ Goto(t, "close")
      /\ UNCHANGED <<entry, inodes, release, journal, fd, op, path, dest, want, obj, jnl>>

Close_UnlocksFirst(t) ==
  LET o == fd[t]
      n == [inode[o] EXCEPT !.ref = @ - 1]
  IN  /\ pc[t] = "close"
      /\ inode' = [inode EXCEPT ![o] = n]
      /\ rlist' = IF Gone(n) THEN <<o>> \o rlist ELSE rlist
      /\ fd' = [fd EXCEPT ![t] = Null]
      /\ Unlock({found[t]})
      /\ IF Gone(n) THEN Goto(t, "closed") /\ UNCHANGED <<op, want, regs>> ELSE Return(t)
      /\ UNCHANGED <<entry, iused, alive, table, rcur, rdone, journal>>

Close(t) ==
  LET o == fd[t]
      n == [inode[o] EXCEPT !.ref = @ - 1]
  IN  /\ pc[t] = "close"
      /\ inode' = [inode EXCEPT ![o] = n]
      /\ fd' = [fd EXCEPT ![t] = Null]
      /\ IF Gone(n)
         THEN /\ rlist' = <<o>> \o rlist
              /\ Goto(t, "closed")
              /\ UNCHANGED <<ilock, op, want, regs>>
         ELSE Unlock({found[t]}) /\ Return(t) /\ UNCHANGED rlist
      /\ UNCHANGED <<entry, iused, alive, table, rcur, rdone, journal>>

CloseDone(t) ==
  /\ pc[t] = "closed"
  /\ table' = [table EXCEPT ![found[t]] = Null]
  /\ Unlock({found[t]})
  /\ Return(t)
  /\ UNCHANGED <<entry, iused, alive, inode, release, journal, fd>>
-----------------------------------------------------------------------------
RenameOld_KeepsLock(t) ==
  /\ pc[t] = "last" /\ op[t] = "rename"
  /\ op' = [op EXCEPT ![t] = "rename_to"]
  /\ want' = [want EXCEPT ![t] = dest[t]]
  /\ Goto(t, "root")
  /\ UNCHANGED <<ilock, entry, inodes, release, journal, fd, regs>>

(* slotfs_rename: the old directory is found and unlocked, *)
RenameOld(t) ==
  /\ pc[t] = "last" /\ op[t] = "rename"
  /\ Unlock({Cur(t)})
  /\ op' = [op EXCEPT ![t] = "rename_to"]
  /\ want' = [want EXCEPT ![t] = dest[t]]
  /\ Goto(t, "root")
  /\ UNCHANGED <<entry, inodes, release, journal, fd, regs>>

(* ... the new one is found and stays locked, *)
RenameNew(t) ==
  /\ pc[t] = "last" /\ op[t] = "rename_to"
  /\ IF path[t] = dest[t]
     THEN Unlock({Cur(t)}) /\ Return(t)
     ELSE /\ Goto(t, IF path[t][1] = dest[t][1] THEN "check" ELSE "lock_old")
          /\ UNCHANGED <<ilock, op, want, regs>>
  /\ UNCHANGED <<entry, inodes, release, journal, fd>>

(* ... and the old one is locked again. *)
LockOld(t) ==
  /\ pc[t] = "lock_old"
  /\ Free(path[t][1])
  /\ ilock' = [ilock EXCEPT ![path[t][1]] = t]
  /\ Goto(t, "check")
  /\ UNCHANGED <<entry, inodes, release, journal, fd, op, want, regs>>

BothDirs(t) == {path[t][1], dest[t][1]}

RenameFails(t) ==
  /\ pc[t] = "check"
  /\ entry[path[t]] = Null \/ entry[dest[t]] # Null
  /\ Unlock(BothDirs(t))
  /\ Return(t)
  /\ UNCHANGED <<entry, inodes, release, journal, fd>>

(* journal_alloc: slot 0 if no slot is counted (and it is not counted       *)
(* then), else the first free one                                          *)
JournalAlloc(t) ==
  /\ pc[t] = "check"
  /\ entry[path[t]] # Null /\ entry[dest[t]] = Null
  /\ \E j \in Slots :
       /\ \/ count = 0 /\ j = 0
          \/ count # 0 /\ ~use[j] /\ \A k \in 0 .. j - 1 : use[k]
       /\ use' = [use EXCEPT ![j] = TRUE]
       /\ count' = IF count = 0 THEN count ELSE count + 1
       /\ jnl' = [jnl EXCEPT ![t] = j]
  /\ Goto(t, "journal")
  /\ UNCHANGED <<ilock, entry, inodes, release, jvalid, jrec, fd, op, path, dest, want, found, obj>>

(* journal_rename stores valid first, then the rest of the record. *)
JournalValid(t) ==
  /\ pc[t] = "journal"
  /\ jvalid' = [jvalid EXCEPT ![jnl[t]] = TRUE]
  /\ Goto(t, "record")
  /\ UNCHANGED <<ilock, entry, inodes, release, use, count, jrec, fd, op, want, regs>>

JournalRecord(t) ==
  /\ pc[t] = "record"
  /\ jrec' = [jrec EXCEPT ![jnl[t]] = <<path[t], dest[t]>>]
  /\ Goto(t, "append")
  /\ UNCHANGED <<ilock, entry, inodes, release, use, count, jvalid, fd, op, want, regs>>

RenameAppend_ErrorIgnored(t) ==
  /\ pc[t] = "append"
  /\ Goto(t, "remove")
  /\ UNCHANGED <<ilock, entry, inodes, release, journal, fd, op, want, regs>>

RenameAppend(t) ==
  /\ pc[t] = "append"
  /\ entry' = [entry EXCEPT ![dest[t]] = entry[path[t]]]
  /\ Goto(t, "remove")
  /\ UNCHANGED <<ilock, inodes, release, journal, fd, op, want, regs>>

RenameRemove(t) ==
  /\ pc[t] = "remove"
  /\ entry' = [entry EXCEPT ![path[t]] = Null]
  /\ Goto(t, "commit")
  /\ UNCHANGED <<ilock, inodes, release, journal, fd, op, want, regs>>

(* journal_commit: the record is cleared, then the slot is freed. *)
JournalCommit(t) ==
  /\ pc[t] = "commit"
  /\ jvalid' = [jvalid EXCEPT ![jnl[t]] = FALSE]
  /\ Goto(t, "journal_free")
  /\ UNCHANGED <<ilock, entry, inodes, release, use, count, jrec, fd, op, want, regs>>

JournalFree(t) ==
  /\ pc[t] = "journal_free"
  /\ use' = [use EXCEPT ![jnl[t]] = FALSE]
  /\ count' = count - 1
  /\ Unlock(BothDirs(t))
  /\ Return(t)
  /\ UNCHANGED <<entry, inodes, release, jvalid, jrec, fd>>

rename(t) ==
  \/ RenameOld(t) \/ RenameNew(t) \/ LockOld(t) \/ RenameFails(t) \/ JournalAlloc(t)
  \/ JournalValid(t) \/ JournalRecord(t) \/ RenameAppend(t) \/ RenameRemove(t)
  \/ JournalCommit(t) \/ JournalFree(t)
-----------------------------------------------------------------------------
(* release_thread takes the newest inode_t off the list, and               *)
ReleaseTake ==
  /\ rcur = Null
  /\ rlist # <<>>
  /\ rcur' = Head(rlist)
  /\ rlist' = Tail(rlist)
  /\ UNCHANGED <<ilock, entry, inodes, rdone, journal, fd, pc, op, want, regs>>

(* do_inode_release frees the inode number and ... *)
FreeIno ==
  /\ rcur # Null /\ ~rdone
  /\ iused' = iused \ {inode[rcur].ino}
  /\ rdone' = TRUE
  /\ UNCHANGED <<ilock, entry, alive, inode, table, rlist, rcur, journal, fd, pc, op, want, regs>>

FreeInode_Forgotten ==
  /\ rdone
  /\ rcur' = Null
  /\ rdone' = FALSE
  /\ UNCHANGED <<ilock, entry, inodes, rlist, journal, fd, pc, op, want, regs>>

(* ... the inode_t. *)
FreeInode ==
  /\ rdone
  /\ alive' = alive \ {rcur}
  /\ inode' = [inode EXCEPT ![rcur] = NoInode]
  /\ rcur' = Null
  /\ rdone' = FALSE
  /\ UNCHANGED <<ilock, entry, iused, table, rlist, journal, fd, pc, op, want, regs>>

release_thread == ReleaseTake \/ FreeIno \/ FreeInode

Next ==
  \/ \E t \in Threads :
       \/ Begin(t) \/ LockRoot(t) \/ LockDir(t) \/ NotFound(t) \/ Found(t) \/ Iget(t) \/ Open(t)
       \/ Create(t) \/ Install(t) \/ Unlink(t) \/ UnlinkDone(t) \/ CloseLock(t) \/ Close(t)
       \/ CloseDone(t) \/ rename(t)
  \/ release_thread

(* The release thread loops until the file system is unmounted. *)
Spec == Init /\ [][Next]_vars /\ WF_vars(release_thread)
-----------------------------------------------------------------------------
(* Type invariant. *)
TypeOK ==
  /\ ilock \in [Dirs \union Files -> Threads \union {Null}]
  /\ entry \in [Paths -> Files \union {Null}]
  /\ iused \subseteq Files
  /\ alive \subseteq Objs
  /\ inode \in [Objs -> [ino : Files \union {Null}, ref : Nat, link : 0 .. 1]]
  /\ table \in [Files -> Objs \union {Null}]
  /\ rlist \in Seq(Objs)
  /\ rcur \in Objs \union {Null}
  /\ rdone \in BOOLEAN
  /\ use \in [Slots -> BOOLEAN]
  /\ count \in -JOURNAL_NUM .. JOURNAL_NUM
  /\ jvalid \in [Slots -> BOOLEAN]
  /\ jrec \in [Slots -> Renames \union {Null}]
  /\ fd \in [Threads -> Objs \union {Null}]
  /\ pc \in [Threads -> {"idle", "root", "down", "last", "iget", "got", "unlinked", "close", "closed",
                         "install", "lock_old", "check",
                         "journal", "record", "append", "remove", "commit", "journal_free"}]
  /\ op \in [Threads -> {"none", "open", "creat", "unlink", "rename", "rename_to"}]
  /\ path \in [Threads -> Paths \union {Null}]
  /\ dest \in [Threads -> Paths \union {Null}]
  /\ want \in [Threads -> Paths \union {Null}]
  /\ found \in [Threads -> Files \union {Null}]
  /\ obj \in [Threads -> Objs \union {Null}]
  /\ jnl \in [Threads -> Slots]

Released   == Range(rlist) \union ({rcur} \ {Null})
Creating   == {obj[t] : t \in {u \in Threads : pc[u] = "install"}}
NamesOf(i) == {p \in Paths : entry[p] = i}

(* A name leads to an inode that is there: its number is in use and the    *)
(* table has its inode_t, neither freed nor waiting for the release        *)
(* thread, although unlink leaves stale pointers in the table and inode    *)
(* numbers are reused.                                                     *)
NamesLive ==
  \A p \in Paths : entry[p] # Null =>
    /\ entry[p] \in iused
    /\ \/ \E o \in Creating : inode[o].ino = entry[p]
       \/ /\ table[entry[p]] \in alive \ Released
          /\ inode[table[entry[p]]].ino = entry[p]

(* An open file stays allocated, whatever is done to its names. *)
DescriptorsLive == \A t \in Threads : fd[t] # Null => fd[t] \in alive \ Released

(* ref counts the descriptors, i_link the names; a rename that has entered *)
(* the new name and not yet removed the old one has one more.              *)
CountsExact ==
  \A o \in alive \ (Released \union Creating) :
    LET moved == {path[t] : t \in {u \in Threads : pc[u] = "remove"}}
    IN  /\ inode[o].ref = Cardinality({t \in Threads : fd[t] = o})
        /\ table[inode[o].ino] = o => inode[o].link = Cardinality(NamesOf(inode[o].ino) \ moved)

(* Every inode_t without names and descriptors is on its way to being      *)
(* freed, once.                                                            *)
ReleasedOnce ==
  /\ {o \in alive : inode[o].ref = 0 /\ inode[o].link = 0} = Released
  /\ \A m, n \in DOMAIN rlist : rlist[m] = rlist[n] => m = n
  /\ rcur \notin Range(rlist)

(* Threads that are waiting for one another's locks never form a circle.   *)
Wanted(t) ==
  CASE pc[t] = "root"     -> Root
    [] pc[t] = "down"     -> Cur(t)
    [] pc[t] = "iget"     -> found[t]
    [] pc[t] = "install"  -> inode[obj[t]].ino
    [] pc[t] = "lock_old" -> path[t][1]
    [] OTHER              -> Null
Blocker(t) == IF Wanted(t) = Null THEN Null ELSE ilock[Wanted(t)]
NoCircularWait == \A S \in (SUBSET Threads) \ {{}} : \E t \in S : Blocker(t) \notin S

(* A call that has returned holds no lock. *)
LocksReturned == \A i \in Dirs \union Files : ilock[i] # Null => pc[ilock[i]] # "idle"

(* Whenever a crash could find a file under two names, the journal has the *)
(* rename that would have to be completed.                                 *)
JournalCovers ==
  \A i \in Files : \A p, q \in NamesOf(i) : p # q =>
    \E j \in Slots : jvalid[j] /\ jrec[j] \in {<<p, q>>, <<q, p>>}

(* A file loses its last name by unlink only: a rename leaves it one at    *)
(* every crash point.                                                      *)
NameKept ==
  [][\A i \in Files : NamesOf(i) # {} /\ NamesOf(i)' = {} =>
       \E t \in Threads : op[t] = "unlink" /\ found[t] = i]_vars

(* Once no more calls are made, every file without names and descriptors   *)
(* is freed: none gets lost between unlink, close and the release thread.  *)
Reclaimed ==
  <>[](\A t \in Threads : pc[t] = "idle") =>
    <>[](\A o \in alive : inode[o].ref + inode[o].link > 0)

(* journal_free finds the slot in use (its assertion, journal.c:68). *)
FreeFindsUse == \A t \in Threads : pc[t] = "journal_free" => use[jnl[t]]
=============================================================================
