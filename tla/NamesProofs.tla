---------------------------- MODULE NamesProofs -----------------------------
(***************************************************************************)
(* Proofs about the namespace, for any number of threads, directories,     *)
(* files and inode_t.                                                      *)
(*                                                                         *)
(* The locks: where a thread is in its call determines which inode locks   *)
(* it holds (Holds), so a call that returns holds none; and the locks are  *)
(* taken in the order root, other directories, files, so no threads wait   *)
(* for one another in a circle, as long as no rename goes from a directory *)
(* into one that is not the root.                                          *)
(*                                                                         *)
(* The life of inodes: names and descriptors lead to inodes that are       *)
(* there, the counts are exact, and what nothing refers to is released     *)
(* once.  The invariant ties four things together: the inode numbers the   *)
(* bitmap has in use and the inode_t that bear them, the table, the names, *)
(* and where each call is.  That a lock is held where Holds says so (LInv) *)
(* keeps the entry a call has found, or checked to be absent, as it was.   *)
(***************************************************************************)
EXTENDS Names, TLAPS

Inos == Dirs \union Files

Moving == {"lock_old", "check", "journal", "record", "append", "remove", "commit", "journal_free"}
Looking == {"root", "down", "last", "iget", "got", "unlinked", "install"} \union Moving
PCs == {"idle", "close", "closed"} \union Looking

(* The locks a thread holds where it is. *)
Holds(t) ==
  CASE pc[t] = "down"                          -> {Root}
    [] pc[t] \in {"last", "iget", "install"}   -> {Cur(t)}
    [] pc[t] = "got"                           -> {found[t]} \union (IF op[t] = "open" THEN {} ELSE {Cur(t)})
    [] pc[t] = "unlinked"                      -> {found[t], Cur(t)}
    [] pc[t] \in {"close", "closed"}           -> {found[t]}
    [] pc[t] = "lock_old"                      -> {dest[t][1]}
    [] pc[t] \in Moving \ {"lock_old"}         -> BothDirs(t)
    [] OTHER                                   -> {}

InodeT == [ino : Files \union {Null}, ref : Int, link : Int]

(* What the locks, the names and the inodes range over, *)
SharedTypes ==
  /\ ilock \in [Inos -> Threads \union {Null}]
  /\ entry \in [Paths -> Files \union {Null}]
  /\ inode \in [Objs -> InodeT]
  /\ table \in [Files -> Objs \union {Null}]
  /\ fd \in [Threads -> Objs \union {Null}]

(* ... and the local variables. *)
LocalTypes ==
  /\ pc \in [Threads -> PCs]
  /\ op \in [Threads -> {"none", "open", "creat", "unlink", "rename", "rename_to"}]
  /\ path \in [Threads -> Paths \union {Null}]
  /\ dest \in [Threads -> Paths \union {Null}]
  /\ want \in [Threads -> Paths \union {Null}]
  /\ found \in [Threads -> Files \union {Null}]
  /\ obj \in [Threads -> Objs \union {Null}]

Types == SharedTypes /\ LocalTypes

(* The local variables of a call at the points where it uses them. *)
Locals(t) ==
  /\ pc[t] \in Looking => want[t] \in Paths /\ path[t] \in Paths /\ dest[t] \in Paths
  /\ pc[t] \in {"iget", "got", "unlinked"} => found[t] \in Files
  /\ pc[t] = "install" => obj[t] \in Objs
  /\ pc[t] \in Moving => op[t] = "rename_to"
  /\ op[t] = "rename_to" => want[t] = dest[t]
  /\ op[t] \in {"rename", "rename_to"} => <<path[t], dest[t]>> \in Renames
  /\ pc[t] = "lock_old" => path[t][1] # dest[t][1]
  /\ pc[t] = "down" => Cur(t) # Root
  /\ pc[t] \in {"idle", "close", "closed"} => op[t] = "none"

Holding == \A i \in Inos : \A t \in Threads : (ilock[i] = t <=> i \in Holds(t))

LInv == Types /\ (\A t \in Threads : Locals(t)) /\ Holding

(* No thread is Null. *)
LEMMA NullNoThread == \A t \in Threads : t # Null
BY NamesAssumption, Zenon

(* A step of t leaves the other threads where they are. *)
Only(t) ==
  \A u \in Threads : u # t =>
    /\ pc'[u] = pc[u] /\ op'[u] = op[u] /\ path'[u] = path[u] /\ dest'[u] = dest[u]
    /\ want'[u] = want[u] /\ found'[u] = found[u] /\ obj'[u] = obj[u]

(* A lock is taken when it is free, and given up by its holder. *)
Mine(t, i) == ilock'[i] = ilock[i] \/ (ilock[i] \in {Null, t} /\ ilock'[i] \in {Null, t})

(* It is enough to look at the thread that takes the step. *)
LEMMA StepOf ==
  ASSUME LInv, NEW t \in Threads, Only(t), Types', Locals(t)',
         \A i \in Inos : Mine(t, i) /\ (ilock'[i] = t <=> i \in Holds(t)')
  PROVE  LInv'
<1>1. ASSUME NEW u \in Threads, u # t
      PROVE  Locals(u)' /\ Holds(u)' = Holds(u)
  <2>1. /\ pc'[u] = pc[u] /\ op'[u] = op[u] /\ path'[u] = path[u] /\ dest'[u] = dest[u]
        /\ want'[u] = want[u] /\ found'[u] = found[u] /\ obj'[u] = obj[u]
    BY <1>1, Zenon DEF Only
  <2>2. Locals(u)
    BY Zenon DEF LInv
  <2>3. Locals(u)'
    BY <2>1, <2>2, Zenon DEF Locals, Cur
  <2>4. Holds(u)' = Holds(u)
    BY <2>1, Zenon DEF Holds, Cur, BothDirs
  <2> QED BY <2>3, <2>4, Zenon
<1>2. ASSUME NEW i \in Inos, NEW u \in Threads PROVE ilock'[i] = u <=> i \in Holds(u)'
  <2>1. CASE u = t
    BY <2>1, Zenon
  <2>2. CASE u # t
    <3>3. Mine(t, i) /\ u # Null
      BY NullNoThread, Zenon
    <3>1. ilock'[i] = u <=> ilock[i] = u
      BY <2>2, <3>3, Zenon DEF Mine
    <3>2. ilock[i] = u <=> i \in Holds(u)
      BY Zenon DEF LInv, Holding
    <3> QED BY <1>1, <2>2, <3>1, <3>2, Zenon
  <2> QED BY <2>1, <2>2, Zenon
<1>3. \A u \in Threads : Locals(u)'
  BY <1>1, Zenon
<1> QED BY <1>2, <1>3, Zenon DEF LInv, Holding

(* A call that returns gives up the locks it holds. *)
LEMMA Returns ==
  ASSUME LInv, NEW t \in Threads, Return(t), SharedTypes',
         NEW S, Unlock(S), Holds(t) = S
  PROVE  LInv'
<1> USE DEF Inos
<1>1. Types
  BY Zenon DEF LInv
<1>2. Only(t)
  BY <1>1, Zenon DEF Only, Return, Goto, Types, LocalTypes
<1>3. Types'
  BY <1>1, Zenon DEF Return, Goto, Types, LocalTypes, PCs
<1>4. /\ pc'[t] = "idle" /\ op'[t] = "none"
  BY <1>1, Zenon DEF Return, Goto, Types, LocalTypes
<1>5. Locals(t)'
  BY <1>4, Zenon DEF Locals, Looking, Moving
<1>6. \A i \in Inos : ilock'[i] = IF i \in S THEN Null ELSE ilock[i]
  BY Zenon DEF Unlock
<1>7. \A i \in Inos : ilock[i] = t <=> i \in S
  BY Zenon DEF LInv, Holding
<1>10. Holds(t)' = {}
  BY <1>4, Zenon DEF Holds, Moving
<1>8. \A i \in Inos : ilock'[i] # t /\ i \notin Holds(t)'
  BY <1>6, <1>7, <1>10, NullNoThread, Zenon
<1>9. \A i \in Inos : Mine(t, i)
  BY <1>6, <1>7, Zenon DEF Mine
<1> QED BY <1>2, <1>3, <1>5, <1>8, <1>9, StepOf, Zenon

(* A step that goes on and leaves the local variables alone.  Each lock is *)
(* kept, given up or taken, and those the thread has are the ones of the   *)
(* place it goes to.                                                       *)
LEMMA Goes ==
  ASSUME LInv, NEW t \in Threads, NEW p \in PCs, Goto(t, p),
         UNCHANGED <<op, path, dest, want, found, obj>>, SharedTypes', Locals(t)',
         \A i \in Inos : Mine(t, i) /\ (ilock'[i] = t <=> i \in Holds(t)')
  PROVE  LInv'
<1>1. Types
  BY Zenon DEF LInv
<1>2. Only(t)
  BY <1>1, Zenon DEF Only, Goto, Types, LocalTypes
<1>3. Types'
  BY <1>1, Zenon DEF Goto, Types, LocalTypes
<1> QED BY <1>2, <1>3, StepOf, Zenon
-----------------------------------------------------------------------------
(* No lock is held at first. *)
LEMMA InitL == Init => LInv
<1> SUFFICES ASSUME Init PROVE LInv
  OBVIOUS
<1>1. Types
  BY DEF Init, Types, SharedTypes, LocalTypes, InodeT, NoInode, Inos, PCs
<1>2. \A t \in Threads : Locals(t)
  BY Zenon DEF Init, Locals, Looking, Moving
<1>3. Holding
  BY NullNoThread, Zenon DEF Init, Holding, Inos, Holds, Moving
<1> QED BY <1>1, <1>2, <1>3, Zenon DEF LInv

(* A call begins without locks. *)
LEMMA BeginL == ASSUME LInv, NEW t \in Threads, Begin(t) PROVE LInv'
<1>1. Types /\ pc[t] = "idle"
  BY Zenon DEF LInv, Begin
<1>2. PICK o \in {"open", "creat", "unlink", "rename"}, p \in Paths, q \in Paths :
        /\ Allowed(t, o, p, q)
        /\ op' = [op EXCEPT ![t] = o]
        /\ path' = [path EXCEPT ![t] = p]
        /\ dest' = [dest EXCEPT ![t] = q]
        /\ want' = [want EXCEPT ![t] = p]
  BY Zenon DEF Begin
<1>3. pc' = [pc EXCEPT ![t] = "root"] /\ UNCHANGED <<ilock, entry, inode, table, fd, found, obj>>
  BY Zenon DEF Begin, Goto, inodes
<1>4. Types'
  BY <1>1, <1>2, <1>3, Zenon DEF Types, SharedTypes, LocalTypes, PCs, Looking
<1>5. Only(t)
  BY <1>1, <1>2, <1>3, Zenon DEF Only, Types, LocalTypes
<1>6. /\ pc'[t] = "root" /\ op'[t] = o /\ path'[t] = p /\ dest'[t] = q /\ want'[t] = p
  BY <1>1, <1>2, <1>3, Zenon DEF Types, LocalTypes
<1>7. o = "rename" => <<p, q>> \in Renames
  BY <1>2, Zenon DEF Allowed
<1>8. Locals(t)'
  BY <1>6, <1>7, Zenon DEF Locals, Moving
<1>9. \A i \in Inos : ilock'[i] = ilock[i] /\ ilock[i] # t
  <2>1. Holds(t) = {}
    BY <1>1, Zenon DEF Holds, Moving
  <2> QED BY <2>1, <1>3, Zenon DEF LInv, Holding
<1>10. Holds(t)' = {}
  BY <1>6, Zenon DEF Holds, Moving
<1>11. \A i \in Inos : Mine(t, i) /\ (ilock'[i] = t <=> i \in Holds(t)')
  BY <1>9, <1>10, Zenon DEF Mine
<1> QED BY <1>4, <1>5, <1>8, <1>11, StepOf, Zenon
(* path_lookup *)
LEMMA LookupL ==
  ASSUME LInv, NEW t \in Threads,
         LockRoot(t) \/ LockDir(t) \/ NotFound(t) \/ Found(t) \/ Iget(t)
  PROVE  LInv'
<1> USE DEF Inos
<1>1. SharedTypes /\ LocalTypes /\ Locals(t) /\ \A i \in Inos : ilock[i] = t <=> i \in Holds(t)
  BY Zenon DEF LInv, Types, Holding
<1>2. \A p \in Paths : p[1] \in Inos
  BY NamesAssumption, Zenon
<1>3. CASE LockRoot(t)
  <2>1. /\ ilock' = [ilock EXCEPT ![Root] = t] /\ pc[t] = "root" /\ Free(Root)
        /\ UNCHANGED <<entry, inode, table, fd, op, path, dest, want, found, obj>>
    BY <1>3, Zenon DEF LockRoot, inodes, regs
  <2>2. SharedTypes'
    BY <1>1, <2>1, Zenon DEF SharedTypes
  <2>3. PICK p \in {"last", "down"} : Goto(t, p) /\ (p = "last" <=> Cur(t) = Root)
    BY <1>3, Zenon DEF LockRoot
  <2>4. pc'[t] = p
    BY <1>1, <2>3, Zenon DEF Goto, LocalTypes
  <2>5. Locals(t)'
    BY <1>1, <2>1, <2>3, <2>4, Zenon DEF Locals, Cur, Looking, Moving
  <2>6. \A i \in Inos : ilock[i] # t
    BY <1>1, <2>1, Zenon DEF Holds, Moving
  <2>7. \A i \in Inos : Mine(t, i) /\ (ilock'[i] = t <=> i = Root)
    BY <1>1, <2>1, <2>6, NullNoThread, Zenon DEF SharedTypes, Mine, Free
  <2>8. Holds(t)' = {Root}
    BY <2>1, <2>3, <2>4, Zenon DEF Holds, Moving, Cur
  <2> QED BY <2>1, <2>2, <2>3, <2>5, <2>7, <2>8, Goes, Zenon DEF PCs, Looking
<1>4. CASE LockDir(t)
  <2>1. /\ ilock' = [ilock EXCEPT ![Cur(t)] = t, ![Root] = Null] /\ pc[t] = "down" /\ Goto(t, "last")
        /\ Free(Cur(t)) /\ Cur(t) # Root
        /\ UNCHANGED <<entry, inode, table, fd, op, path, dest, want, found, obj>>
    BY <1>1, <1>4, Zenon DEF LockDir, inodes, regs, Locals
  <2>2. SharedTypes'
    BY <1>1, <2>1, Zenon DEF SharedTypes
  <2>3. pc'[t] = "last"
    BY <1>1, <2>1, Zenon DEF Goto, LocalTypes
  <2>4. Locals(t)'
    BY <1>1, <2>1, <2>3, Zenon DEF Locals, Cur, Looking, Moving
  <2>5. \A i \in Inos : ilock[i] = t <=> i = Root
    BY <1>1, <2>1, Zenon DEF Holds, Moving
  <2>8. Cur(t) \in Inos
    BY <1>1, <1>2, <2>1, Zenon DEF Locals, Looking, Cur
  <2>9. \A i \in Inos : ilock'[i] = IF i = Root THEN Null ELSE IF i = Cur(t) THEN t ELSE ilock[i]
    BY <1>1, <2>1, <2>8, Zenon DEF SharedTypes
  <2>6. \A i \in Inos : Mine(t, i) /\ (ilock'[i] = t <=> i = Cur(t))
    BY <2>1, <2>5, <2>9, NullNoThread, Zenon DEF Mine, Free
  <2>7. Holds(t)' = {Cur(t)}
    BY <2>1, <2>3, Zenon DEF Holds, Moving, Cur
  <2> QED BY <2>1, <2>2, <2>4, <2>6, <2>7, Goes, Zenon DEF PCs, Looking
<1>5. CASE NotFound(t)
  <2>1. /\ pc[t] = "last" /\ Unlock({Cur(t)}) /\ Return(t)
        /\ UNCHANGED <<entry, inode, table, fd>>
    BY <1>5, Zenon DEF NotFound, inodes
  <2>2. SharedTypes'
    BY <1>1, <2>1, Zenon DEF SharedTypes, Unlock
  <2>3. Holds(t) = {Cur(t)}
    BY <2>1, Zenon DEF Holds, Moving
  <2> QED BY <2>1, <2>2, <2>3, Returns, Zenon
<1>6. CASE Found(t)
  <2>1. /\ pc[t] = "last" /\ entry[want[t]] # Null /\ pc' = [pc EXCEPT ![t] = "iget"]
        /\ found' = [found EXCEPT ![t] = entry[want[t]]]
        /\ UNCHANGED <<ilock, entry, inode, table, fd, op, path, dest, want, obj>>
    BY <1>6, Zenon DEF Found, Goto, inodes
  <2>2. entry[want[t]] \in Files
    BY <1>1, <2>1, Zenon DEF SharedTypes, Locals, Looking
  <2>3. Types'
    BY <1>1, <2>1, <2>2, Zenon DEF Types, SharedTypes, LocalTypes, PCs, Looking
  <2>4. Only(t) /\ pc'[t] = "iget" /\ found'[t] \in Files
    BY <1>1, <2>1, <2>2, Zenon DEF Only, LocalTypes
  <2>5. Locals(t)'
    BY <1>1, <2>1, <2>4, Zenon DEF Locals, Cur, Looking, Moving
  <2>6. Holds(t)' = Holds(t)
    BY <2>1, <2>4, Zenon DEF Holds, Moving, Cur
  <2> QED BY <1>1, <2>1, <2>3, <2>4, <2>5, <2>6, StepOf, Zenon DEF Mine
<1>7. CASE Iget(t)
  <2>1. /\ ilock' = [ilock EXCEPT ![found[t]] = t, ![Cur(t)] = IF op[t] = "open" THEN Null ELSE @]
        /\ pc[t] = "iget" /\ Goto(t, "got") /\ Free(found[t])
        /\ UNCHANGED <<entry, inode, table, fd, op, path, dest, want, found, obj>>
    BY <1>7, Zenon DEF Iget, inodes, regs
  <2>2. found[t] \in Files /\ Cur(t) \in Dirs /\ found[t] # Cur(t)
    BY <1>1, <2>1, NamesAssumption, Zenon DEF Locals, Looking, Cur
  <2>3. \A i \in Inos : ilock'[i] = IF i = found[t] THEN t
                                    ELSE IF i = Cur(t) /\ op[t] = "open" THEN Null ELSE ilock[i]
    BY <1>1, <2>1, <2>2, Zenon DEF SharedTypes
  <2>4. SharedTypes'
    BY <1>1, <2>1, <2>3, Zenon DEF SharedTypes
  <2>5. pc'[t] = "got"
    BY <1>1, <2>1, Zenon DEF Goto, LocalTypes
  <2>6. Locals(t)'
    BY <1>1, <2>1, <2>5, Zenon DEF Locals, Cur, Looking, Moving
  <2>7. \A i \in Inos : ilock[i] = t <=> i = Cur(t)
    BY <1>1, <2>1, Zenon DEF Holds, Moving
  <2>8. Holds(t)' = {found[t]} \union (IF op[t] = "open" THEN {} ELSE {Cur(t)})
    BY <2>1, <2>5, Zenon DEF Holds, Moving, Cur
  <2>9. \A i \in Inos : Mine(t, i) /\ (ilock'[i] = t <=> i \in Holds(t)')
    BY <2>1, <2>2, <2>3, <2>7, <2>8, NullNoThread, Zenon DEF Mine, Free
  <2> QED BY <2>1, <2>4, <2>6, <2>9, Goes, Zenon DEF PCs, Looking
<1> QED BY <1>3, <1>4, <1>5, <1>6, <1>7, Zenon

(* The counts of an inode_t are changed in place. *)
LEMMA InodeCounts ==
  ASSUME NEW x \in InodeT
  PROVE  [x EXCEPT !.ref = @ - 1] \in InodeT /\ [x EXCEPT !.link = @ - 1] \in InodeT
BY DEF InodeT

(* An inode_t replaced by another leaves the table of inode_t typed. *)
LEMMA InodeUpdate ==
  ASSUME inode \in [Objs -> InodeT], NEW o, NEW r, o \in Objs => r \in InodeT
  PROVE  [inode EXCEPT ![o] = r] \in [Objs -> InodeT]
BY Zenon

(* do_slotfs_open *)
LEMMA OpenL ==
  ASSUME LInv, NEW t \in Threads, Open(t) \/ Create(t) \/ Install(t)
  PROVE  LInv'
<1> USE DEF Inos
<1>1. SharedTypes /\ LocalTypes /\ Locals(t) /\ \A i \in Inos : ilock[i] = t <=> i \in Holds(t)
  BY Zenon DEF LInv, Types, Holding
<1>2. CASE Open(t)
  <2> DEFINE o == table[found[t]]
             S == {found[t]} \union (IF op[t] = "open" THEN {} ELSE {Cur(t)})
  <2>1. /\ pc[t] = "got" /\ Unlock(S) /\ Return(t)
        /\ inode' = [inode EXCEPT ![o].ref = IF op[t] = "open" THEN @ + 1 ELSE @]
        /\ fd' = [fd EXCEPT ![t] = o]
        /\ UNCHANGED <<entry, table>>
    BY <1>2, Zenon DEF Open
  <2>2. o \in Objs \union {Null}
    BY <1>1, <2>1, Zenon DEF SharedTypes, Locals
  <2>6. inode' \in [Objs -> InodeT]
    <3>1. CASE op[t] = "open"
      <4>1. inode' = [inode EXCEPT ![o] = [inode[o] EXCEPT !.ref = inode[o].ref + 1]]
        BY <2>1, <3>1, Zenon
      <4>2. o \in Objs => [inode[o] EXCEPT !.ref = inode[o].ref + 1] \in InodeT
        BY <1>1 DEF SharedTypes, InodeT
      <4> QED BY <1>1, <4>1, <4>2, InodeUpdate, Zenon DEF SharedTypes
    <3>2. CASE op[t] # "open"
      <4>1. inode' = [inode EXCEPT ![o] = [inode[o] EXCEPT !.ref = inode[o].ref]]
        BY <2>1, <3>2, Zenon
      <4>2. o \in Objs => [inode[o] EXCEPT !.ref = inode[o].ref] \in InodeT
        BY <1>1 DEF SharedTypes, InodeT
      <4> QED BY <1>1, <4>1, <4>2, InodeUpdate, Zenon DEF SharedTypes
    <3> QED BY <3>1, <3>2, Zenon
  <2>3. SharedTypes'
    BY <1>1, <2>1, <2>2, <2>6, Zenon DEF SharedTypes, Unlock
  <2>4. Holds(t) = S
    BY <2>1, Zenon DEF Holds, Moving
  <2> HIDE DEF S
  <2> QED BY <2>1, <2>3, <2>4, Returns, Zenon
<1>3. CASE Create(t)
  <2>1. PICK i \in Files, o \in Objs :
          /\ inode' = [inode EXCEPT ![o] = [ino |-> i, ref |-> 1, link |-> 1]]
          /\ entry' = [entry EXCEPT ![want[t]] = i]
          /\ obj' = [obj EXCEPT ![t] = o]
    BY <1>3, Zenon DEF Create
  <2>2. /\ pc[t] = "last" /\ op[t] = "creat" /\ pc' = [pc EXCEPT ![t] = "install"]
        /\ UNCHANGED <<ilock, table, fd, op, path, dest, want, found>>
    BY <1>3, Zenon DEF Create, Goto
  <2>7. inode' \in [Objs -> InodeT]
    <3>1. [ino |-> i, ref |-> 1, link |-> 1] \in InodeT
      BY DEF InodeT
    <3> QED BY <1>1, <2>1, <3>1, Zenon DEF SharedTypes
  <2>3. Types'
    BY <1>1, <2>1, <2>2, <2>7, Zenon DEF Types, SharedTypes, LocalTypes, PCs, Looking
  <2>4. Only(t) /\ pc'[t] = "install" /\ obj'[t] \in Objs
    BY <1>1, <2>1, <2>2, Zenon DEF Only, LocalTypes
  <2>5. Locals(t)'
    BY <1>1, <2>2, <2>4, Zenon DEF Locals, Cur, Looking, Moving
  <2>6. Holds(t)' = Holds(t)
    BY <2>2, <2>4, Zenon DEF Holds, Moving, Cur
  <2> QED BY <1>1, <2>2, <2>3, <2>4, <2>5, <2>6, StepOf, Zenon DEF Mine
<1>4. CASE Install(t)
  <2>1. /\ pc[t] = "install" /\ Unlock({Cur(t)}) /\ Return(t)
        /\ table' = [table EXCEPT ![inode[obj[t]].ino] = obj[t]]
        /\ fd' = [fd EXCEPT ![t] = obj[t]]
        /\ UNCHANGED <<entry, inode>>
    BY <1>4, Zenon DEF Install
  <2>2. obj[t] \in Objs
    BY <1>1, <2>1, Zenon DEF Locals
  <2>3. SharedTypes'
    BY <1>1, <2>1, <2>2, Zenon DEF SharedTypes, Unlock
  <2>4. Holds(t) = {Cur(t)}
    BY <2>1, Zenon DEF Holds, Moving
  <2> QED BY <2>1, <2>3, <2>4, Returns, Zenon
<1> QED BY <1>2, <1>3, <1>4, Zenon

(* slotfs_unlink and slotfs_close *)
LEMMA UnlinkL ==
  ASSUME LInv, NEW t \in Threads,
         Unlink(t) \/ UnlinkDone(t) \/ CloseLock(t) \/ Close(t) \/ CloseDone(t)
  PROVE  LInv'
<1> USE DEF Inos
<1>1. SharedTypes /\ LocalTypes /\ Locals(t) /\ \A i \in Inos : ilock[i] = t <=> i \in Holds(t)
  BY Zenon DEF LInv, Types, Holding
<1>2. CASE Unlink(t)
  <2> DEFINE o == table[found[t]]
  <2>1. /\ pc[t] = "got" /\ op[t] = "unlink" /\ Goto(t, "unlinked")
        /\ entry' = [entry EXCEPT ![want[t]] = Null]
        /\ inode' = [inode EXCEPT ![o] = [inode[o] EXCEPT !.link = @ - 1]]
        /\ UNCHANGED <<ilock, table, fd, op, path, dest, want, found, obj>>
    BY <1>2, Zenon DEF Unlink, regs
  <2>6. inode' \in [Objs -> InodeT]
    <3>1. o \in Objs => [inode[o] EXCEPT !.link = @ - 1] \in InodeT
      BY <1>1, InodeCounts, Zenon DEF SharedTypes
    <3> QED BY <1>1, <2>1, <3>1, InodeUpdate, Zenon DEF SharedTypes
  <2>2. SharedTypes'
    BY <1>1, <2>1, <2>6, Zenon DEF SharedTypes
  <2>3. pc'[t] = "unlinked"
    BY <1>1, <2>1, Zenon DEF Goto, LocalTypes
  <2>4. Locals(t)'
    BY <1>1, <2>1, <2>3, Zenon DEF Locals, Cur, Looking, Moving
  <2>5. Holds(t)' = Holds(t)
    BY <2>1, <2>3, Zenon DEF Holds, Moving, Cur
  <2> QED BY <1>1, <2>1, <2>2, <2>4, <2>5, Goes, Zenon DEF PCs, Looking, Mine
<1>3. CASE UnlinkDone(t)
  <2>1. /\ pc[t] = "unlinked" /\ Unlock({found[t], Cur(t)}) /\ Return(t)
        /\ UNCHANGED <<entry, inode, table, fd>>
    BY <1>3, Zenon DEF UnlinkDone, inodes
  <2>2. SharedTypes'
    BY <1>1, <2>1, Zenon DEF SharedTypes, Unlock
  <2>3. Holds(t) = {found[t], Cur(t)}
    BY <2>1, Zenon DEF Holds, Moving
  <2> QED BY <2>1, <2>2, <2>3, Returns, Zenon
<1>4. CASE CloseLock(t)
  <2> DEFINE n == inode[fd[t]].ino
  <2>1. /\ pc[t] = "idle" /\ fd[t] # Null /\ pc' = [pc EXCEPT ![t] = "close"]
        /\ Free(n) /\ ilock' = [ilock EXCEPT ![n] = t] /\ found' = [found EXCEPT ![t] = n]
        /\ UNCHANGED <<entry, inode, table, fd, op, path, dest, want, obj>>
    BY <1>4, Zenon DEF CloseLock, Goto, inodes
  <2>2. n \in Files \union {Null}
    BY <1>1, <2>1, Zenon DEF SharedTypes, InodeT
  <2>3. Types'
    BY <1>1, <2>1, <2>2, Zenon DEF Types, SharedTypes, LocalTypes, PCs
  <2>4. Only(t) /\ pc'[t] = "close" /\ found'[t] = n
    BY <1>1, <2>1, Zenon DEF Only, LocalTypes
  <2>5. Locals(t)'
    BY <1>1, <2>1, <2>4, Zenon DEF Locals, Looking, Moving
  <2>6. Holds(t)' = {n}
    BY <2>4, Zenon DEF Holds, Moving
  <2>7. \A i \in Inos : ilock[i] # t
    BY <1>1, <2>1, Zenon DEF Holds, Moving
  <2>8. \A i \in Inos : Mine(t, i) /\ (ilock'[i] = t <=> i = n)
    BY <1>1, <2>1, <2>7, Zenon DEF SharedTypes, Mine, Free
  <2> QED BY <2>3, <2>4, <2>5, <2>6, <2>8, StepOf, Zenon
<1>5. CASE Close(t)
  <2> DEFINE o == fd[t]
             n == [inode[o] EXCEPT !.ref = @ - 1]
  <2>1. /\ pc[t] = "close"
        /\ inode' = [inode EXCEPT ![o] = n]
        /\ fd' = [fd EXCEPT ![t] = Null]
        /\ UNCHANGED <<entry, table>>
    BY <1>5, Zenon DEF Close
  <2>2. inode' \in [Objs -> InodeT]
    <3>1. o \in Objs => [inode[o] EXCEPT !.ref = @ - 1] \in InodeT
      BY <1>1, InodeCounts, Zenon DEF SharedTypes
    <3> QED BY <1>1, <2>1, <3>1, InodeUpdate, Zenon DEF SharedTypes
  <2>3. CASE Gone(n)
    <3>1. Goto(t, "closed") /\ UNCHANGED <<ilock, op, path, dest, want, found, obj>>
      BY <1>5, <2>3, Zenon DEF Close, regs
    <3>2. SharedTypes'
      BY <1>1, <2>1, <2>2, <3>1, Zenon DEF SharedTypes
    <3>3. pc'[t] = "closed"
      BY <1>1, <3>1, Zenon DEF Goto, LocalTypes
    <3>4. Locals(t)'
      BY <1>1, <2>1, <3>1, <3>3, Zenon DEF Locals, Looking, Moving
    <3>5. Holds(t)' = Holds(t)
      BY <2>1, <3>1, <3>3, Zenon DEF Holds, Moving
    <3> QED BY <1>1, <3>1, <3>2, <3>4, <3>5, Goes, Zenon DEF PCs, Mine
  <2>4. CASE ~ Gone(n)
    <3>1. Unlock({found[t]}) /\ Return(t)
      BY <1>5, <2>4, Zenon DEF Close
    <3>2. SharedTypes'
      BY <1>1, <2>1, <2>2, <3>1, Zenon DEF SharedTypes, Unlock
    <3>3. Holds(t) = {found[t]}
      BY <2>1, Zenon DEF Holds, Moving
    <3> QED BY <3>1, <3>2, <3>3, Returns, Zenon
  <2> QED BY <2>3, <2>4, Zenon
<1>6. CASE CloseDone(t)
  <2>1. /\ pc[t] = "closed" /\ Unlock({found[t]}) /\ Return(t)
        /\ table' = [table EXCEPT ![found[t]] = Null]
        /\ UNCHANGED <<entry, inode, fd>>
    BY <1>6, Zenon DEF CloseDone
  <2>2. SharedTypes'
    BY <1>1, <2>1, Zenon DEF SharedTypes, Unlock
  <2>3. Holds(t) = {found[t]}
    BY <2>1, Zenon DEF Holds, Moving
  <2> QED BY <2>1, <2>2, <2>3, Returns, Zenon
<1> QED BY <1>2, <1>3, <1>4, <1>5, <1>6, Zenon

(* slotfs_rename up to both directories being locked *)
LEMMA RenameLocksL ==
  ASSUME LInv, NEW t \in Threads,
         RenameOld(t) \/ RenameNew(t) \/ LockOld(t) \/ RenameFails(t)
  PROVE  LInv'
<1> USE DEF Inos
<1>1. SharedTypes /\ LocalTypes /\ Locals(t) /\ \A i \in Inos : ilock[i] = t <=> i \in Holds(t)
  BY Zenon DEF LInv, Types, Holding
<1>2. CASE RenameOld(t)
  <2>1. /\ pc[t] = "last" /\ op[t] = "rename" /\ Unlock({Cur(t)})
        /\ op' = [op EXCEPT ![t] = "rename_to"] /\ want' = [want EXCEPT ![t] = dest[t]]
        /\ pc' = [pc EXCEPT ![t] = "root"]
        /\ UNCHANGED <<entry, inode, table, fd, path, dest, found, obj>>
    BY <1>2, Zenon DEF RenameOld, Goto, inodes, regs
  <2>2. Types'
    BY <1>1, <2>1, Zenon DEF Types, SharedTypes, LocalTypes, Unlock, PCs, Looking
  <2>3. Only(t) /\ pc'[t] = "root" /\ op'[t] = "rename_to" /\ want'[t] = dest[t]
    BY <1>1, <2>1, Zenon DEF Only, LocalTypes
  <2>4. Locals(t)'
    BY <1>1, <2>1, <2>3, Zenon DEF Locals, Looking, Moving
  <2>5. \A i \in Inos : ilock[i] = t <=> i = Cur(t)
    BY <1>1, <2>1, Zenon DEF Holds, Moving
  <2>7. Holds(t)' = {}
    BY <2>3, Zenon DEF Holds, Moving
  <2>6. \A i \in Inos : Mine(t, i) /\ (ilock'[i] = t <=> i \in Holds(t)')
    BY <2>1, <2>5, <2>7, NullNoThread, Zenon DEF Unlock, Mine
  <2> QED BY <2>2, <2>3, <2>4, <2>6, StepOf, Zenon
<1>3. CASE RenameNew(t)
  <2>1. /\ pc[t] = "last" /\ op[t] = "rename_to"
        /\ UNCHANGED <<entry, inode, table, fd>>
    BY <1>3, Zenon DEF RenameNew, inodes
  <2>2. Holds(t) = {Cur(t)} /\ Cur(t) = dest[t][1]
    BY <1>1, <2>1, Zenon DEF Holds, Moving, Locals, Cur
  <2>3. CASE path[t] = dest[t]
    <3>1. Unlock({Cur(t)}) /\ Return(t)
      BY <1>3, <2>3, Zenon DEF RenameNew
    <3>2. SharedTypes'
      BY <1>1, <2>1, <3>1, Zenon DEF SharedTypes, Unlock
    <3> QED BY <2>2, <3>1, <3>2, Returns, Zenon
  <2>4. CASE path[t] # dest[t]
    <3>1. PICK p \in {"check", "lock_old"} :
            Goto(t, p) /\ (p = "check" <=> path[t][1] = dest[t][1])
      BY <1>3, <2>4, Zenon DEF RenameNew
    <3>2. UNCHANGED <<ilock, op, path, dest, want, found, obj>>
      BY <1>3, <2>4, Zenon DEF RenameNew, regs
    <3>3. SharedTypes' /\ pc'[t] = p
      BY <1>1, <2>1, <3>1, <3>2, Zenon DEF SharedTypes, LocalTypes, Goto
    <3>4. Locals(t)'
      BY <1>1, <2>1, <3>1, <3>2, <3>3, Zenon DEF Locals, Looking, Moving
    <3>5. Holds(t)' = {Cur(t)}
      <4>1. CASE p = "check"
        <5>1. pc'[t] = "check"
          BY <3>3, <4>1, Zenon
        <5>2. Holds(t)' = {path[t][1], dest[t][1]}
          BY <3>2, <5>1, Zenon DEF Holds, Moving, BothDirs
        <5> QED BY <2>2, <3>1, <4>1, <5>2, Zenon
      <4>2. CASE p = "lock_old"
        <5>1. pc'[t] = "lock_old"
          BY <3>3, <4>2, Zenon
        <5> QED BY <2>2, <3>2, <5>1, Zenon DEF Holds, Moving
      <4> QED BY <3>1, <4>1, <4>2, Zenon
    <3>6. \A i \in Inos : Mine(t, i) /\ (ilock'[i] = t <=> i = Cur(t))
      BY <1>1, <2>2, <3>2, Zenon DEF Mine
    <3> QED BY <3>1, <3>2, <3>3, <3>4, <3>5, <3>6, Goes, Zenon DEF PCs, Looking, Moving
  <2> QED BY <2>3, <2>4, Zenon
<1>4. CASE LockOld(t)
  <2>1. /\ pc[t] = "lock_old" /\ ilock' = [ilock EXCEPT ![path[t][1]] = t] /\ Goto(t, "check")
        /\ Free(path[t][1])
        /\ UNCHANGED <<entry, inode, table, fd, op, path, dest, want, found, obj>>
    BY <1>4, Zenon DEF LockOld, inodes, regs
  <2>2. SharedTypes' /\ pc'[t] = "check"
    BY <1>1, <2>1, Zenon DEF SharedTypes, LocalTypes, Goto
  <2>3. Locals(t)'
    BY <1>1, <2>1, <2>2, Zenon DEF Locals, Looking, Moving
  <2>4. Holds(t) = {dest[t][1]} /\ Holds(t)' = {path[t][1], dest[t][1]}
    BY <2>1, <2>2, Zenon DEF Holds, Moving, BothDirs
  <2>5. \A i \in Inos : Mine(t, i) /\ (ilock'[i] = t <=> i \in Holds(t)')
    BY <1>1, <2>1, <2>4, NullNoThread, Zenon DEF SharedTypes, Mine, Free
  <2> QED BY <2>1, <2>2, <2>3, <2>5, Goes, Zenon DEF PCs, Looking, Moving
<1>5. CASE RenameFails(t)
  <2>1. /\ pc[t] = "check" /\ Unlock(BothDirs(t)) /\ Return(t)
        /\ UNCHANGED <<entry, inode, table, fd>>
    BY <1>5, Zenon DEF RenameFails, inodes
  <2>2. SharedTypes'
    BY <1>1, <2>1, Zenon DEF SharedTypes, Unlock
  <2>3. Holds(t) = BothDirs(t)
    BY <2>1, Zenon DEF Holds, Moving
  <2> QED BY <2>1, <2>2, <2>3, Returns, Zenon
<1> QED BY <1>2, <1>3, <1>4, <1>5, Zenon

(* A step of a rename between two places where it holds both directories. *)
LEMMA RenameGoes ==
  ASSUME LInv, NEW t \in Threads, NEW p \in Moving \ {"lock_old"}, Goto(t, p),
         pc[t] \in Moving \ {"lock_old"}, SharedTypes',
         UNCHANGED <<ilock, op, path, dest, want, found, obj>>
  PROVE  LInv'
<1>1. LocalTypes /\ Locals(t) /\ \A i \in Inos : ilock[i] = t <=> i \in Holds(t)
  BY Zenon DEF LInv, Types, Holding
<1>2. pc'[t] = p
  BY <1>1, Zenon DEF LocalTypes, Goto
<1>3. Locals(t)'
  BY <1>1, <1>2, Zenon DEF Locals, Looking, Moving
<1>4. Holds(t)' = Holds(t)
  BY <1>2, Zenon DEF Holds, Moving, BothDirs
<1> QED BY <1>1, <1>3, <1>4, Goes, Zenon DEF PCs, Looking, Mine

(* slotfs_rename under both locks *)
LEMMA RenameL ==
  ASSUME LInv, NEW t \in Threads,
         \/ JournalAlloc(t) \/ JournalValid(t) \/ JournalRecord(t) \/ RenameAppend(t)
         \/ RenameRemove(t) \/ JournalCommit(t) \/ JournalFree(t)
  PROVE  LInv'
<1>1. SharedTypes /\ Locals(t)
  BY Zenon DEF LInv, Types
<1>2. CASE JournalAlloc(t)
  <2>1. SharedTypes'
    BY <1>1, <1>2, Zenon DEF JournalAlloc, SharedTypes, inodes
  <2> QED BY <1>2, <2>1, RenameGoes, Zenon DEF JournalAlloc, Moving
<1>3. CASE JournalValid(t)
  <2>1. SharedTypes'
    BY <1>1, <1>3, Zenon DEF JournalValid, SharedTypes, inodes
  <2> QED BY <1>3, <2>1, RenameGoes, Zenon DEF JournalValid, Moving, regs
<1>4. CASE JournalRecord(t)
  <2>1. SharedTypes'
    BY <1>1, <1>4, Zenon DEF JournalRecord, SharedTypes, inodes
  <2> QED BY <1>4, <2>1, RenameGoes, Zenon DEF JournalRecord, Moving, regs
<1>5. CASE RenameAppend(t)
  <2>1. path[t] \in Paths
    BY <1>1, <1>5, Zenon DEF RenameAppend, Locals, Looking, Moving
  <2>2. SharedTypes'
    BY <1>1, <1>5, <2>1, Zenon DEF RenameAppend, SharedTypes, inodes
  <2> QED BY <1>5, <2>2, RenameGoes, Zenon DEF RenameAppend, Moving, regs
<1>6. CASE RenameRemove(t)
  <2>1. SharedTypes'
    BY <1>1, <1>6, Zenon DEF RenameRemove, SharedTypes, inodes
  <2> QED BY <1>6, <2>1, RenameGoes, Zenon DEF RenameRemove, Moving, regs
<1>7. CASE JournalCommit(t)
  <2>1. SharedTypes'
    BY <1>1, <1>7, Zenon DEF JournalCommit, SharedTypes, inodes
  <2> QED BY <1>7, <2>1, RenameGoes, Zenon DEF JournalCommit, Moving, regs
<1>8. CASE JournalFree(t)
  <2>1. /\ pc[t] = "journal_free" /\ Unlock(BothDirs(t)) /\ Return(t)
        /\ UNCHANGED <<entry, inode, table, fd>>
    BY <1>8, Zenon DEF JournalFree, inodes
  <2>2. SharedTypes'
    BY <1>1, <2>1, Zenon DEF SharedTypes, Unlock, Inos
  <2>3. Holds(t) = BothDirs(t)
    BY <2>1, Zenon DEF Holds, Moving
  <2> QED BY <2>1, <2>2, <2>3, Returns, Zenon
<1> QED BY <1>2, <1>3, <1>4, <1>5, <1>6, <1>7, <1>8, Zenon
(* A step that takes no lock and moves no thread *)
LEMMA Stays ==
  ASSUME LInv, SharedTypes', UNCHANGED <<ilock, pc, op, path, dest, want, found, obj>>
  PROVE  LInv'
<1>1. LocalTypes'
  BY Zenon DEF LInv, Types, LocalTypes
<1>2. ASSUME NEW t \in Threads PROVE Locals(t)' /\ Holds(t)' = Holds(t)
  <2>1. Locals(t)
    BY Zenon DEF LInv
  <2>2. Locals(t)'
    BY <2>1, Zenon DEF Locals, Cur
  <2>3. Holds(t)' = Holds(t)
    BY Zenon DEF Holds, Cur, BothDirs
  <2> QED BY <2>2, <2>3, Zenon
<1>3. Holding'
  BY <1>2, Zenon DEF LInv, Holding
<1> QED BY <1>1, <1>2, <1>3, Zenon DEF LInv, Types

(* ... such as the release thread's *)
LEMMA ReleaseL == ASSUME LInv, release_thread PROVE LInv'
<1>1. SharedTypes
  BY Zenon DEF LInv, Types
<1>2. UNCHANGED <<ilock, pc, op, path, dest, want, found, obj, entry, table, fd>>
  BY Zenon DEF release_thread, ReleaseTake, FreeIno, FreeInode, inodes, regs
<1>3. inode' \in [Objs -> InodeT]
  <2>1. NoInode \in InodeT
    BY SMTT(30) DEF NoInode, InodeT
  <2>2. inode' = inode \/ inode' = [inode EXCEPT ![rcur] = NoInode]
    BY Zenon DEF release_thread, ReleaseTake, FreeIno, FreeInode, inodes
  <2> QED BY <1>1, <2>1, <2>2, InodeUpdate, Zenon DEF SharedTypes
<1>4. SharedTypes'
  BY <1>1, <1>2, <1>3, Zenon DEF SharedTypes
<1> QED BY <1>2, <1>4, Stays, Zenon

(* The invariant is inductive. *)
LEMMA NextL == LInv /\ [Next]_vars => LInv'
<1> SUFFICES ASSUME LInv, [Next]_vars PROVE LInv'
  OBVIOUS
<1>1. CASE UNCHANGED vars
  <2>1. SharedTypes'
    BY <1>1, Zenon DEF LInv, Types, SharedTypes, vars, inodes
  <2> QED BY <1>1, <2>1, Stays, Zenon DEF vars, regs
<1>2. ASSUME NEW t \in Threads, rename(t) PROVE LInv'
  BY <1>2, RenameLocksL, RenameL, Zenon DEF rename
<1>3. CASE release_thread
  BY <1>3, ReleaseL, Zenon
<1> QED BY <1>1, <1>2, <1>3, BeginL, LookupL, OpenL, UnlinkL, Zenon DEF Next

(* It holds throughout. *)
LEMMA LocksL == Spec => []LInv
BY InitL, NextL, PTL DEF Spec

(* Whatever path a call takes through open, creat, unlink, rename or close,*)
(* its error returns included, it has given up every inode lock when it    *)
(* returns.                                                                *)
THEOREM CallsReturnLocks == Spec => []LocksReturned
<1>1. LInv => LocksReturned
  <2> SUFFICES ASSUME LInv, NEW i \in Inos, ilock[i] # Null, pc[ilock[i]] = "idle" PROVE FALSE
    BY Zenon DEF LocksReturned, Inos
  <2>1. ilock[i] \in Threads
    BY Zenon DEF LInv, Types, SharedTypes
  <2>2. i \in Holds(ilock[i])
    BY <2>1, Zenon DEF LInv, Holding
  <2> QED BY <2>2, Zenon DEF Holds, Moving
<1> QED BY <1>1, LocksL, PTL
-----------------------------------------------------------------------------
(* Every rename stays in its directory or goes to the root. *)
RenamesToRoot == \A r \in Renames : r[1][1] = r[2][1] \/ r[2][1] = Root

(* The order in which the locks are taken. *)
Rank(i) == IF i = Root THEN 0 ELSE IF i \in Dirs THEN 1 ELSE 2

(* A thread waits for a lock that comes after all those it holds. *)
LEMMA WaitsUp ==
  ASSUME RenamesToRoot, LInv, NEW t \in Threads, Wanted(t) # Null
  PROVE  Wanted(t) \in Inos /\ \A i \in Holds(t) : Rank(i) < Rank(Wanted(t))
<1>1. SharedTypes /\ LocalTypes /\ Locals(t)
  BY Zenon DEF LInv, Types
<1>2. Root \in Dirs /\ Dirs \intersect Files = {} /\ \A p \in Paths : p[1] \in Dirs
  BY NamesAssumption, Zenon
<1>3. pc[t] \in {"root", "down", "iget", "install", "lock_old"}
  BY Zenon DEF Wanted
<1>4. CASE pc[t] = "root"
  BY <1>2, <1>4, Zenon DEF Wanted, Holds, Moving, Inos
<1>5. CASE pc[t] = "down"
  <2>1. Cur(t) \in Dirs \ {Root}
    BY <1>1, <1>2, <1>5, Zenon DEF Locals, Looking, Cur
  <2>2. Wanted(t) = Cur(t) /\ Holds(t) = {Root}
    BY <1>5, Zenon DEF Wanted, Holds, Moving
  <2> QED BY <2>1, <2>2 DEF Rank, Inos
<1>6. CASE pc[t] = "iget"
  <2>1. Cur(t) \in Dirs /\ found[t] \in Files
    BY <1>1, <1>2, <1>6, Zenon DEF Locals, Looking, Cur
  <2>2. Wanted(t) = found[t] /\ Holds(t) = {Cur(t)}
    BY <1>6, Zenon DEF Wanted, Holds, Moving
  <2> QED BY <1>2, <2>1, <2>2 DEF Rank, Inos
<1>7. CASE pc[t] = "install"
  <2>1. Wanted(t) = inode[obj[t]].ino /\ Holds(t) = {Cur(t)}
    BY <1>7, Zenon DEF Wanted, Holds, Moving
  <2>2. Cur(t) \in Dirs /\ obj[t] \in Objs
    BY <1>1, <1>2, <1>7, Zenon DEF Locals, Looking, Cur
  <2>3. Wanted(t) \in Files
    BY <1>1, <2>1, <2>2, Zenon DEF SharedTypes, InodeT
  <2> QED BY <1>2, <2>1, <2>2, <2>3 DEF Rank, Inos
<1>8. CASE pc[t] = "lock_old"
  <2>1. Wanted(t) = path[t][1] /\ Holds(t) = {dest[t][1]}
    BY <1>8, Zenon DEF Wanted, Holds, Moving
  <2>2. <<path[t], dest[t]>> \in Renames /\ path[t] \in Paths /\ path[t][1] # dest[t][1]
    BY <1>1, <1>8, Zenon DEF Locals, Looking, Moving
  <2>3. dest[t][1] = Root
    BY <2>2, Zenon DEF RenamesToRoot
  <2> QED BY <1>2, <2>1, <2>2, <2>3 DEF Rank, Inos
<1> QED BY <1>3, <1>4, <1>5, <1>6, <1>7, <1>8, Zenon

(* The thread a waiting thread waits for waits, if it waits itself, for a  *)
(* later lock.                                                             *)
LEMMA BlockerWaitsHigher ==
  ASSUME RenamesToRoot, LInv, NEW t \in Threads, Blocker(t) \in Threads, Wanted(Blocker(t)) # Null
  PROVE  Rank(Wanted(t)) < Rank(Wanted(Blocker(t)))
<1>1. Wanted(t) # Null /\ Blocker(t) = ilock[Wanted(t)]
  BY NamesAssumption, Zenon DEF Blocker
<1>2. Wanted(t) \in Inos
  BY <1>1, WaitsUp, Zenon
<1>3. Wanted(t) \in Holds(Blocker(t))
  BY <1>1, <1>2, Zenon DEF LInv, Holding
<1> QED BY <1>3, WaitsUp, Zenon

(* Threads in path_lookup, iget, icache_install and the second half of a   *)
(* rename never wait for one another's inode locks in a circle, however    *)
(* many there are, if renames between directories go to the root.          *)
THEOREM NoDeadlock ==
  ASSUME RenamesToRoot
  PROVE  Spec => []NoCircularWait
<1>1. LInv => NoCircularWait
  <2> SUFFICES ASSUME LInv, NEW S \in (SUBSET Threads) \ {{}}, \A t \in S : Blocker(t) \in S
               PROVE  FALSE
    BY Zenon DEF NoCircularWait
  <2>1. \A t \in S : t \in Threads /\ Blocker(t) \in S /\ Blocker(t) \in Threads
    OBVIOUS
  <2>2. \A t \in S : Wanted(t) # Null
    BY <2>1, NamesAssumption, Zenon DEF Blocker
  <2>3. \A t \in S : Rank(Wanted(t)) < Rank(Wanted(Blocker(t)))
    BY <2>1, <2>2, BlockerWaitsHigher, Zenon
  <2>4. PICK t \in S : TRUE
    OBVIOUS
  <2> DEFINE b == Blocker(t)
             c == Blocker(b)
             d == Blocker(c)
  <2>5. b \in S /\ c \in S
    BY <2>1, Zenon
  <2>6. /\ Rank(Wanted(t)) < Rank(Wanted(b)) /\ Rank(Wanted(b)) < Rank(Wanted(c))
        /\ Rank(Wanted(c)) < Rank(Wanted(d))
    BY <2>3, <2>5, Zenon
  <2>7. \A i : Rank(i) \in 0 .. 2
    BY DEF Rank
  <2> HIDE DEF b, c, d
  <2> QED BY <2>6, <2>7
<1> QED BY <1>1, LocksL, PTL
-----------------------------------------------------------------------------
(* The inode_t whose number has been given back already. *)
Freed == IF rdone THEN {rcur} ELSE {}

(* The inode_t that are neither waiting to be freed nor still being made. *)
Settled == alive \ (Released \union Creating)

(* The threads ref counts: those with a descriptor and the one that will   *)
(* get one when it has installed the inode_t.                              *)
Users(o) == {t \in Threads : fd[t] = o \/ (pc[t] = "install" /\ obj[t] = o)}

Distinct(s) == \A m, n \in DOMAIN s : s[m] = s[n] => m = n

ReleaseOrder ==
  /\ iused \subseteq Files /\ alive \subseteq Objs
  /\ rlist \in Seq(Objs) /\ Released \subseteq alive
  /\ rcur \in Objs \union {Null} /\ rdone \in BOOLEAN /\ (rdone => rcur # Null)
  /\ Distinct(rlist) /\ rcur \notin Range(rlist)

Numbers ==
  /\ \A o \in alive : inode[o].ino \in Files
  /\ \A o \in alive \ Freed : inode[o].ino \in iused
  /\ \A o, p \in alive \ Freed : inode[o].ino = inode[p].ino => o = p

Tabled == \A o \in Settled : table[inode[o].ino] = o

Refs == \A o \in alive : inode[o].ref = Cardinality(Users(o))

Links ==
  /\ \A o \in alive : inode[o].link \in {0, 1}
  /\ \A o \in alive \ Freed : inode[o].link = 0 <=> NamesOf(inode[o].ino) = {}

Dead == \A o \in alive : o \in Released <=> inode[o].ref = 0 /\ inode[o].link = 0

Named == \A p \in Paths : entry[p] # Null => \E o \in alive \ Released : inode[o].ino = entry[p]

(* Two names of one file are those of a rename between its two stores. *)
Pairs ==
  \A p, q \in Paths : entry[p] # Null /\ entry[p] = entry[q] /\ p # q =>
    \E u \in Threads : pc[u] = "remove" /\ {p, q} = {path[u], dest[u]}

(* What a call has found out and still relies on: about itself, *)
Own(t) ==
  /\ op[t] \in {"open", "creat"} => fd[t] = Null
  /\ op[t] = "creat" => Owner[want[t]] = t
  /\ op[t] \in {"rename", "rename_to"} => Owner[path[t]] = t
  /\ pc[t] \in {"iget", "got"} => op[t] \in {"open", "unlink"}
  /\ pc[t] = "install" => op[t] = "creat"
  /\ pc[t] = "close" => fd[t] # Null
  /\ pc[t] \in Moving => path[t] # dest[t]

(* ... about the entries it has looked at, *)
Sees(t) ==
  /\ pc[t] \in {"root", "down", "last"} /\ op[t] = "creat" => entry[want[t]] = Null
  /\ pc[t] = "iget" => entry[want[t]] = found[t]
  /\ pc[t] = "got" /\ op[t] = "unlink" => entry[want[t]] = found[t]
  /\ pc[t] \in {"journal", "record", "append"} => entry[path[t]] # Null /\ entry[dest[t]] = Null
  /\ pc[t] = "remove" => entry[path[t]] # Null /\ entry[dest[t]] = entry[path[t]]

(* ... about the inode it has got, makes or closes. *)
Gets(t) ==
  pc[t] = "got" => NamesOf(found[t]) # {} /\ \E o \in Settled : inode[o].ino = found[t]

Makes(t) ==
  pc[t] = "install" =>
    obj[t] \in alive \ Released /\ NamesOf(inode[obj[t]].ino) = {want[t]} /\ Users(obj[t]) = {t}

Closes(t) ==
  /\ pc[t] = "close" => inode[fd[t]].ino = found[t]
  /\ pc[t] = "closed" => \A o \in Settled : inode[o].ino # found[t]

Relies(t) == Own(t) /\ Sees(t) /\ Gets(t) /\ Makes(t) /\ Closes(t)

Life ==
  /\ ReleaseOrder /\ Numbers /\ Tabled /\ Refs /\ Links /\ Dead /\ Named /\ Pairs
  /\ DescriptorsLive /\ \A t \in Threads : Relies(t)
-----------------------------------------------------------------------------
(* The release list *)
LEMMA Push ==
  ASSUME NEW S, NEW s \in Seq(S), NEW x \in S, x \notin Range(s), Distinct(s)
  PROVE  /\ <<x>> \o s \in Seq(S) /\ Distinct(<<x>> \o s)
         /\ Range(<<x>> \o s) = {x} \union Range(s)
<1> DEFINE r == <<x>> \o s
<1>1. r \in Seq(S) /\ Len(r) = Len(s) + 1 /\ r[1] = x
  OBVIOUS
<1>2. \A n \in 1 .. Len(s) : r[n + 1] = s[n]
  OBVIOUS
<1>3. DOMAIN r = 1 .. Len(s) + 1 /\ DOMAIN s = 1 .. Len(s)
  BY <1>1
<1> HIDE DEF r
<1>4. \A n \in DOMAIN r : n = 1 \/ (n - 1 \in DOMAIN s /\ r[n] = s[n - 1])
  BY <1>2, <1>3
<1>5. \A n \in DOMAIN s : n + 1 \in DOMAIN r /\ r[n + 1] = s[n]
  BY <1>2, <1>3
<1>6. 1 \in DOMAIN r
  BY <1>3
<1>7. Range(r) = {x} \union Range(s)
  <2>1. ASSUME NEW n \in DOMAIN r PROVE r[n] = x \/ r[n] \in Range(s)
    <3>1. CASE n = 1
      BY <1>1, <3>1, Zenon
    <3>2. CASE n # 1
      BY <1>4, <3>2, Zenon DEF Range
    <3> QED BY <3>1, <3>2, Zenon
  <2>4. \A y \in Range(r) : y = x \/ y \in Range(s)
    BY <2>1, Zenon DEF Range
  <2>2. x \in Range(r)
    BY <1>1, <1>6, Zenon DEF Range
  <2>3. \A y \in Range(s) : y \in Range(r)
    BY <1>5, Zenon DEF Range
  <2> QED BY <2>2, <2>3, <2>4, Zenon
<1>8. \A n \in DOMAIN s : s[n] # x
  BY Zenon DEF Range
<1>9. Distinct(r)
  <2> SUFFICES ASSUME NEW m \in DOMAIN r, NEW n \in DOMAIN r, r[m] = r[n] PROVE m = n
    BY Zenon DEF Distinct
  <2>1. m = 1 <=> n = 1
    <3>1. \A k \in DOMAIN r : k # 1 => r[k] # x
      BY <1>4, <1>8, Zenon
    <3> QED BY <1>1, <3>1, Zenon
  <2>2. CASE m # 1 /\ n # 1
    <3>1. m - 1 = n - 1
      BY <1>4, <2>2, Zenon DEF Distinct
    <3> QED BY <1>3, <3>1
  <2> QED BY <2>1, <2>2, Zenon
<1> QED BY <1>1, <1>7, <1>9, Zenon DEF r

(* Taking the head leaves the others, each once. *)
LEMMA Pop ==
  ASSUME NEW S, NEW s \in Seq(S), s # <<>>, Distinct(s)
  PROVE  /\ Tail(s) \in Seq(S) /\ Distinct(Tail(s)) /\ Head(s) \in S
         /\ Range(s) = {Head(s)} \union Range(Tail(s)) /\ Head(s) \notin Range(Tail(s))
<1> DEFINE r == Tail(s)
<1>1. r \in Seq(S) /\ Len(r) = Len(s) - 1 /\ Head(s) = s[1] /\ s[1] \in S /\ Len(s) \in Nat \ {0}
  OBVIOUS
<1>2. \A n \in 1 .. Len(s) - 1 : r[n] = s[n + 1]
  OBVIOUS
<1>3. DOMAIN r = 1 .. Len(s) - 1 /\ DOMAIN s = 1 .. Len(s)
  BY <1>1
<1> HIDE DEF r
<1>4. \A n \in DOMAIN r : n + 1 \in DOMAIN s /\ n + 1 # 1 /\ r[n] = s[n + 1]
  BY <1>1, <1>2, <1>3
<1>5. \A n \in DOMAIN s : n = 1 \/ (n - 1 \in DOMAIN r /\ r[n - 1] = s[n])
  BY <1>1, <1>2, <1>3
<1>6. 1 \in DOMAIN s
  BY <1>1, <1>3
<1>7. Range(s) = {s[1]} \union Range(r)
  <2>1. \A n \in DOMAIN s : s[n] = s[1] \/ s[n] \in Range(r)
    <3>1. ASSUME NEW n \in DOMAIN s, n # 1 PROVE s[n] \in Range(r)
      BY <1>5, <3>1, Zenon DEF Range
    <3> QED BY <3>1, Zenon
  <2>4. \A y \in Range(s) : y = s[1] \/ y \in Range(r)
    BY <2>1, Zenon DEF Range
  <2>2. s[1] \in Range(s)
    BY <1>6, Zenon DEF Range
  <2>3. \A y \in Range(r) : y \in Range(s)
    BY <1>4, Zenon DEF Range
  <2> QED BY <2>2, <2>3, <2>4, Zenon
<1>8. s[1] \notin Range(r)
  <2>1. \A n \in DOMAIN r : r[n] # s[1]
    BY <1>4, <1>6, Zenon DEF Distinct
  <2> QED BY <2>1, Zenon DEF Range
<1>9. Distinct(r)
  <2> SUFFICES ASSUME NEW m \in DOMAIN r, NEW n \in DOMAIN r, r[m] = r[n] PROVE m = n
    BY Zenon DEF Distinct
  <2>1. m + 1 = n + 1
    BY <1>4, Zenon DEF Distinct
  <2> QED BY <1>3, <2>1
<1> QED BY <1>1, <1>7, <1>8, <1>9, Zenon DEF r

(* References are counted one at a time. *)
Counting ==
  \A A \in SUBSET Threads : \A t \in Threads :
    /\ Cardinality(A) \in Nat /\ (Cardinality(A) = 0 <=> A = {}) /\ Cardinality({t}) = 1
    /\ t \notin A => Cardinality(A \union {t}) = Cardinality(A) + 1
    /\ t \in A => Cardinality(A \ {t}) = Cardinality(A) - 1
-----------------------------------------------------------------------------
(* A call that returns, and one that goes on, leave the other threads be. *)
LEMMA ReturnOnly ==
  ASSUME LInv, NEW t \in Threads, Return(t)
  PROVE  Only(t) /\ pc'[t] = "idle" /\ op'[t] = "none"
<1>1. LocalTypes
  BY Zenon DEF LInv, Types
<1> QED BY <1>1, Zenon DEF Only, Return, Goto, LocalTypes

(* Goto moves one thread and leaves its arguments alone. *)
LEMMA GotoOnly ==
  ASSUME LInv, NEW t \in Threads, NEW p, Goto(t, p), UNCHANGED <<op, path, dest, want, found, obj>>
  PROVE  /\ Only(t) /\ pc'[t] = p
         /\ op'[t] = op[t] /\ path'[t] = path[t] /\ dest'[t] = dest[t]
         /\ want'[t] = want[t] /\ found'[t] = found[t] /\ obj'[t] = obj[t]
<1>1. LocalTypes
  BY Zenon DEF LInv, Types
<1> QED BY <1>1, Zenon DEF Only, Goto, LocalTypes

(* A thread whose call has returned relies on nothing. *)
LEMMA IdleRelies ==
  ASSUME NEW t \in Threads, pc'[t] = "idle", op'[t] = "none"
  PROVE  Relies(t)'
<1>1. Own(t)'
  BY Zenon DEF Own, Moving
<1>2. Sees(t)'
  BY Zenon DEF Sees
<1>3. Gets(t)' /\ Makes(t)' /\ Closes(t)'
  BY Zenon DEF Gets, Makes, Closes
<1> QED BY <1>1, <1>2, <1>3, Zenon DEF Relies

(* A thread that a step leaves alone still knows what it knew of itself. *)
Same(u) ==
  /\ pc'[u] = pc[u] /\ op'[u] = op[u] /\ path'[u] = path[u] /\ dest'[u] = dest[u]
  /\ want'[u] = want[u] /\ found'[u] = found[u] /\ obj'[u] = obj[u] /\ fd'[u] = fd[u]

(* What a thread knows of itself it keeps while others move. *)
LEMMA OwnKept == ASSUME NEW u \in Threads, Own(u), Same(u) PROVE Own(u)'
BY Zenon DEF Own, Same

(* The paths whose directory a thread has locked to read or change them. *)
Guarded(t) ==
  IF pc[t] \in {"last", "iget", "install"} \/ (pc[t] = "got" /\ op[t] # "open") THEN {want[t]}
  ELSE IF pc[t] \in Moving \ {"lock_old"} THEN {path[t], dest[t]} ELSE {}

(* The directory of a guarded path is locked. *)
LEMMA GuardedHeld ==
  ASSUME LInv, NEW t \in Threads, NEW p \in Guarded(t)
  PROVE  p \in Paths /\ p[1] \in Holds(t)
<1>1. Locals(t)
  BY Zenon DEF LInv
<1>2. CASE pc[t] \in {"last", "iget", "install"}
  <2>1. p = want[t]
    BY <1>2, Zenon DEF Guarded
  <2>2. Holds(t) = {Cur(t)}
    BY <1>2, Zenon DEF Holds, Moving
  <2> QED BY <1>1, <1>2, <2>1, <2>2, Zenon DEF Locals, Looking, Cur
<1>3. CASE pc[t] = "got" /\ op[t] # "open"
  <2>1. p = want[t]
    BY <1>3, Zenon DEF Guarded
  <2>2. Cur(t) \in Holds(t)
    BY <1>3, Zenon DEF Holds, Moving
  <2> QED BY <1>1, <1>3, <2>1, <2>2, Zenon DEF Locals, Looking, Cur
<1>4. CASE pc[t] \in Moving \ {"lock_old"}
  <2>1. p \in {path[t], dest[t]}
    BY <1>4, Zenon DEF Guarded, Moving
  <2>2. Holds(t) = {path[t][1], dest[t][1]}
    BY <1>4, Zenon DEF Holds, Moving, BothDirs
  <2>3. path[t] \in Paths /\ dest[t] \in Paths
    BY <1>1, <1>4, Zenon DEF Locals, Looking
  <2> QED BY <2>1, <2>2, <2>3, Zenon
<1> QED BY <1>2, <1>3, <1>4, Zenon DEF Guarded

(* Two threads never have the same path locked, nor the same inode. *)
LEMMA HeldApart ==
  ASSUME LInv, NEW t \in Threads, NEW u \in Threads, t # u, NEW i \in Inos, i \in Holds(t)
  PROVE  i \notin Holds(u)
BY Zenon DEF LInv, Holding

(* No path is guarded by two threads. *)
LEMMA GuardedApart ==
  ASSUME LInv, NEW t \in Threads, NEW u \in Threads, t # u, NEW p, p \in Guarded(t)
  PROVE  p \notin Guarded(u)
<1> SUFFICES ASSUME p \in Guarded(u) PROVE FALSE
  OBVIOUS
<1>1. p \in Paths /\ p[1] \in Holds(t) /\ p[1] \in Holds(u)
  BY GuardedHeld, Zenon
<1>2. p[1] \in Inos
  BY <1>1, NamesAssumption, Zenon DEF Inos
<1> QED BY <1>1, <1>2, HeldApart, Zenon

(* What a thread has seen of the entries does not change under it: another *)
(* changes only entries it has locked, and enters only names it owns.      *)
Changes(t) ==
  \A p \in Paths : \/ entry'[p] = entry[p]
                   \/ p \in Guarded(t) /\ (entry'[p] = Null \/ Owner[p] = t)

(* What a thread has seen of the entries stays true while others move. *)
LEMMA SeesKept ==
  ASSUME LInv, NEW t \in Threads, NEW u \in Threads, t # u, Same(u), Own(u), Sees(u), Changes(t)
  PROVE  Sees(u)'
<1>1. Locals(u)
  BY Zenon DEF LInv
<1>2. \A p \in Paths : p \in Guarded(u) => entry'[p] = entry[p]
  BY GuardedApart, Zenon DEF Changes
<1>3. pc[u] \in {"root", "down", "last"} /\ op[u] = "creat" => entry'[want[u]] = Null
  <2> SUFFICES ASSUME pc[u] \in {"root", "down", "last"}, op[u] = "creat" PROVE entry'[want[u]] = Null
    OBVIOUS
  <2>1. want[u] \in Paths /\ Owner[want[u]] = u /\ entry[want[u]] = Null
    BY <1>1, Zenon DEF Locals, Looking, Own, Sees
  <2> QED BY <2>1, Zenon DEF Changes
<1>4. pc[u] = "iget" \/ (pc[u] = "got" /\ op[u] = "unlink") => entry'[want[u]] = entry[want[u]]
  BY <1>1, <1>2, Zenon DEF Guarded, Locals, Looking
<1>5. pc[u] \in {"journal", "record", "append", "remove"} =>
        entry'[path[u]] = entry[path[u]] /\ entry'[dest[u]] = entry[dest[u]]
  BY <1>1, <1>2, Zenon DEF Guarded, Locals, Looking, Moving
<1> QED BY <1>3, <1>4, <1>5, Zenon DEF Sees, Same
-----------------------------------------------------------------------------
(* A step that changes no name, inode or descriptor and neither begins nor *)
(* ends a creation or the middle of a rename: only what the thread itself  *)
(* relies on from here on is to be shown.                                  *)
Frame == UNCHANGED <<entry, iused, alive, inode, table, rlist, rcur, rdone, fd>>

Plain(p) == p \notin {"install", "remove"}

(* A step of t that opens and closes nothing leaves the others alone. *)
LEMMA ThreadsSame ==
  ASSUME NEW t \in Threads, Only(t), fd' = fd
  PROVE  \A u \in Threads : u # t => Same(u)
BY Zenon DEF Only, Same

(* Who makes and uses an inode_t does not change unless someone begins or  *)
(* ends a creation.                                                        *)
LEMMA MakersSame ==
  ASSUME NEW t \in Threads, Only(t), pc[t] # "install", pc'[t] # "install"
  PROVE  Creating' = Creating
<1>1. \A u \in Threads : pc'[u] = "install" <=> pc[u] = "install"
  BY Zenon DEF Only
<1>2. \A u \in Threads : pc[u] = "install" => obj'[u] = obj[u]
  BY Zenon DEF Only
<1>3. \A o : o \in Creating' <=> o \in Creating
  BY <1>1, <1>2, Zenon DEF Creating
<1> QED BY <1>3, Zenon

(* ... nor do the users of an inode_t. *)
LEMMA UsersSame ==
  ASSUME NEW t \in Threads, Only(t), pc[t] # "install", pc'[t] # "install",
         NEW o, \A u \in Threads : (fd'[u] = o) <=> (fd[u] = o)
  PROVE  Users(o)' = Users(o)
<1>1. \A u \in Threads : pc'[u] = "install" /\ obj'[u] = o <=> pc[u] = "install" /\ obj[u] = o
  BY Zenon DEF Only
<1>2. \A u \in Threads : u \in Users(o)' <=> u \in Users(o)
  BY <1>1, Zenon DEF Users
<1>3. \A u \in Users(o) \union Users(o)' : u \in Threads
  BY Zenon DEF Users
<1> QED BY <1>2, <1>3, Zenon

(* Taking names away leaves no new pair. *)
LEMMA PairsKept ==
  ASSUME Pairs, NEW t \in Threads, Only(t), pc[t] # "remove",
         \A p \in Paths : entry'[p] = entry[p] \/ entry'[p] = Null
  PROVE  Pairs'
<1>1. ASSUME NEW p \in Paths, NEW q \in Paths, entry'[p] # Null, entry'[p] = entry'[q], p # q
      PROVE  \E u \in Threads : pc'[u] = "remove" /\ {p, q} = {path'[u], dest'[u]}
  <2>1. entry[p] # Null /\ entry[p] = entry[q]
    BY <1>1, Zenon
  <2>2. PICK u \in Threads : pc[u] = "remove" /\ {p, q} = {path[u], dest[u]}
    BY <1>1, <2>1, Zenon DEF Pairs
  <2>3. pc'[u] = "remove" /\ path'[u] = path[u] /\ dest'[u] = dest[u]
    BY <2>2, Zenon DEF Only
  <2> QED BY <2>2, <2>3, Zenon
<1> QED BY <1>1, Zenon DEF Pairs

(* What is about to be freed is released. *)
LEMMA FreedReleased == ASSUME Life PROVE \A o \in alive \ Released : o \in alive \ Freed
BY Zenon DEF Life, ReleaseOrder, Freed, Released

(* A step that changes the locals of a thread only keeps Life. *)
LEMMA Quiet ==
  ASSUME LInv, Life, NEW t \in Threads, Only(t), Frame, Plain(pc[t]), Plain(pc'[t]), Relies(t)'
  PROVE  Life'
<1>1. /\ entry' = entry /\ iused' = iused /\ alive' = alive /\ inode' = inode /\ table' = table
      /\ rlist' = rlist /\ rcur' = rcur /\ rdone' = rdone /\ fd' = fd
  BY Zenon DEF Frame
<1>2. Released' = Released /\ Freed' = Freed /\ Creating' = Creating
  <2>1. Creating' = Creating
    BY MakersSame, Zenon DEF Plain
  <2> QED BY <1>1, <2>1, Zenon DEF Released, Freed
<1>3. Settled' = Settled
  BY <1>1, <1>2, Zenon DEF Settled
<1>4. \A o : Users(o)' = Users(o)
  BY <1>1, UsersSame, Zenon DEF Plain
<1>5. \A i : NamesOf(i)' = NamesOf(i)
  BY <1>1, Zenon DEF NamesOf
<1>6. ReleaseOrder' /\ Numbers' /\ Tabled'
  BY <1>1, <1>2, <1>3, Zenon DEF Life, ReleaseOrder, Numbers, Tabled
<1>7. Refs' /\ Links' /\ Dead'
  BY <1>1, <1>2, <1>4, <1>5, Zenon DEF Life, Refs, Links, Dead
<1>8. Named' /\ DescriptorsLive'
  BY <1>1, <1>2, Zenon DEF Life, Named, DescriptorsLive
<1>9. Pairs'
  BY <1>1, PairsKept, Zenon DEF Life, Plain
<1>10. ASSUME NEW u \in Threads, u # t PROVE Relies(u)'
  <2>1. Same(u) /\ Relies(u)
    BY <1>1, <1>10, ThreadsSame, Zenon DEF Life
  <2>2. Own(u)' /\ Sees(u)'
    BY <1>1, <2>1, Zenon DEF Relies, Own, Sees, Same
  <2>3. Gets(u)' /\ Makes(u)' /\ Closes(u)'
    BY <1>1, <1>2, <1>3, <1>4, <1>5, <2>1, Zenon DEF Relies, Gets, Makes, Closes, Same
  <2> QED BY <2>2, <2>3, Zenon DEF Relies
<1>11. \A u \in Threads : Relies(u)'
  BY <1>10, Zenon
<1> QED BY <1>6, <1>7, <1>8, <1>9, <1>11, Zenon DEF Life

(* The empty file system satisfies Life. *)
LEMMA InitLife == Init => Life
<1> SUFFICES ASSUME Init PROVE Life
  OBVIOUS
<1>1. iused = {} /\ alive = {} /\ rlist = <<>> /\ rcur = Null /\ rdone = FALSE
  BY Zenon DEF Init
<1>2. \A t \in Threads : pc[t] = "idle" /\ op[t] = "none" /\ fd[t] = Null
  BY Zenon DEF Init
<1>3. \A p \in Paths : entry[p] = Null
  BY Zenon DEF Init
<1>4. Range(<<>>) = {} /\ Distinct(<<>>) /\ <<>> \in Seq(Objs)
  BY DEF Range, Distinct
<1>5. Released = {} /\ Settled = {}
  BY <1>1, <1>4, Zenon DEF Released, Settled
<1>6. ReleaseOrder
  BY <1>1, <1>4, <1>5, Zenon DEF ReleaseOrder
<1>7. Numbers /\ Tabled /\ Refs /\ Links /\ Dead
  BY <1>1, <1>5, Zenon DEF Numbers, Tabled, Refs, Links, Dead
<1>8. Named /\ Pairs /\ DescriptorsLive
  BY <1>2, <1>3, Zenon DEF Named, Pairs, DescriptorsLive
<1>9. ASSUME NEW t \in Threads PROVE Relies(t)
  <2>1. Own(t) /\ Sees(t)
    BY <1>2, Zenon DEF Own, Sees, Moving
  <2>2. Gets(t) /\ Makes(t) /\ Closes(t)
    BY <1>2, Zenon DEF Gets, Makes, Closes
  <2> QED BY <2>1, <2>2, Zenon DEF Relies
<1> QED BY <1>6, <1>7, <1>8, <1>9, Zenon DEF Life
-----------------------------------------------------------------------------
(* Where a call has no inode in its hands, it relies on entries only. *)
LEMMA EarlyRelies ==
  ASSUME NEW t \in Threads, pc'[t] \notin {"got", "install", "close", "closed"}, Own(t)', Sees(t)'
  PROVE  Relies(t)'
<1>1. Gets(t)' /\ Makes(t)' /\ Closes(t)'
  BY Zenon DEF Gets, Makes, Closes
<1> QED BY <1>1, Zenon DEF Relies

(* A call begins. *)
LEMMA BeginLife == ASSUME LInv, Life, NEW t \in Threads, Begin(t) PROVE Life'
<1>1. LocalTypes /\ pc[t] = "idle"
  BY Zenon DEF LInv, Types, Begin
<1>2. PICK o \in {"open", "creat", "unlink", "rename"}, p \in Paths, q \in Paths :
        /\ Allowed(t, o, p, q)
        /\ op' = [op EXCEPT ![t] = o]
        /\ path' = [path EXCEPT ![t] = p]
        /\ dest' = [dest EXCEPT ![t] = q]
        /\ want' = [want EXCEPT ![t] = p]
  BY Zenon DEF Begin
<1>3. pc' = [pc EXCEPT ![t] = "root"] /\ UNCHANGED <<found, obj>> /\ Frame
  BY Zenon DEF Begin, Goto, inodes, release, Frame
<1>4. /\ pc'[t] = "root" /\ op'[t] = o /\ path'[t] = p /\ want'[t] = p
      /\ fd' = fd /\ entry' = entry
  BY <1>1, <1>2, <1>3, Zenon DEF LocalTypes, Frame
<1>5. Only(t)
  BY <1>1, <1>2, <1>3, Zenon DEF Only, LocalTypes
<1>6. /\ o \in {"open", "creat"} => fd[t] = Null
      /\ o \in {"creat", "rename"} => Owner[p] = t
      /\ o = "creat" => entry[p] = Null
  BY <1>2, Zenon DEF Allowed
<1>7. Own(t)' /\ Sees(t)'
  BY <1>4, <1>6, Zenon DEF Own, Sees, Moving
<1>8. Relies(t)'
  BY <1>4, <1>7, EarlyRelies, Zenon
<1> QED BY <1>1, <1>3, <1>4, <1>5, <1>8, Quiet, Zenon DEF Plain

(* The path walk takes the root, then the directory. *)
LEMMA LocksLife == ASSUME LInv, Life, NEW t \in Threads, LockRoot(t) \/ LockDir(t) PROVE Life'
<1>1. Frame /\ UNCHANGED <<op, path, dest, want, found, obj>> /\ pc[t] \in {"root", "down"}
  BY Zenon DEF LockRoot, LockDir, inodes, release, regs, Frame
<1>2. PICK p \in {"last", "down"} : Goto(t, p)
  BY Zenon DEF LockRoot, LockDir
<1>3. /\ Only(t) /\ pc'[t] = p /\ op'[t] = op[t] /\ path'[t] = path[t] /\ want'[t] = want[t]
      /\ fd' = fd /\ entry' = entry
  BY <1>1, <1>2, GotoOnly, Zenon DEF Frame
<1>4. Own(t) /\ Sees(t)
  BY Zenon DEF Life, Relies
<1>5. Own(t)' /\ Sees(t)'
  BY <1>1, <1>2, <1>3, <1>4, Zenon DEF Own, Sees, Moving
<1>6. Relies(t)'
  BY <1>2, <1>3, <1>5, EarlyRelies, Zenon
<1> QED BY <1>1, <1>2, <1>3, <1>6, Quiet, Zenon DEF Plain

(* Returning without having changed anything *)
LEMMA ReturnLife ==
  ASSUME LInv, Life, NEW t \in Threads, Return(t), Frame, Plain(pc[t])
  PROVE  Life'
<1>1. Only(t) /\ pc'[t] = "idle" /\ op'[t] = "none"
  BY ReturnOnly, Zenon
<1>2. Relies(t)'
  BY <1>1, IdleRelies, Zenon
<1> QED BY <1>1, <1>2, Quiet, Zenon DEF Plain

(* The lookup has found the entry. *)
LEMMA FoundLife == ASSUME LInv, Life, NEW t \in Threads, Found(t) PROVE Life'
<1>1. LocalTypes /\ Own(t) /\ Sees(t) /\ pc[t] = "last"
  BY Zenon DEF LInv, Types, Life, Relies, Found
<1>2. /\ entry[want[t]] # Null /\ op[t] \in {"open", "unlink", "creat"}
      /\ found' = [found EXCEPT ![t] = entry[want[t]]]
      /\ pc' = [pc EXCEPT ![t] = "iget"] /\ Frame /\ UNCHANGED <<op, path, dest, want, obj>>
  BY Zenon DEF Found, Goto, inodes, release, Frame
<1>3. /\ Only(t) /\ pc'[t] = "iget" /\ op'[t] = op[t] /\ path'[t] = path[t] /\ want'[t] = want[t]
      /\ found'[t] = entry[want[t]] /\ fd' = fd /\ entry' = entry
  BY <1>1, <1>2, Zenon DEF Only, LocalTypes, Frame
<1>4. op[t] # "creat"
  BY <1>1, <1>2, Zenon DEF Sees
<1>5. Own(t)' /\ Sees(t)'
  BY <1>1, <1>2, <1>3, <1>4, Zenon DEF Own, Sees, Moving
<1>6. Relies(t)'
  BY <1>3, <1>5, EarlyRelies, Zenon
<1> QED BY <1>1, <1>2, <1>3, <1>6, Quiet, Zenon DEF Plain

(* No thread can have got an inode that is still being made: its one name  *)
(* is in a directory the maker has locked.                                 *)
LEMMA MadeUnseen ==
  ASSUME LInv, Life, NEW u \in Threads, pc[u] = "install", NEW t \in Threads, t # u,
         NEW p \in Guarded(t), p \in Paths
  PROVE  entry[p] # inode[obj[u]].ino
<1>1. NamesOf(inode[obj[u]].ino) = {want[u]}
  BY Zenon DEF Life, Relies, Makes
<1>2. want[u] \in Guarded(u)
  BY Zenon DEF Guarded
<1>3. p # want[u]
  BY <1>2, GuardedApart, Zenon
<1> QED BY <1>1, <1>3, Zenon DEF NamesOf

(* iget locks the inode the entry names, which is settled. *)
LEMMA IgetLife == ASSUME LInv, Life, NEW t \in Threads, Iget(t) PROVE Life'
<1>1. Locals(t) /\ Own(t) /\ Sees(t) /\ pc[t] = "iget"
  BY Zenon DEF LInv, Life, Relies, Iget
<1>2. Goto(t, "got") /\ Frame /\ UNCHANGED <<op, path, dest, want, found, obj>>
  BY Zenon DEF Iget, inodes, release, regs, Frame
<1>3. /\ Only(t) /\ pc'[t] = "got" /\ op'[t] = op[t] /\ path'[t] = path[t] /\ want'[t] = want[t]
      /\ found'[t] = found[t] /\ fd' = fd /\ entry' = entry
  BY <1>2, GotoOnly, Zenon DEF Frame
<1>4. Own(t)' /\ Sees(t)'
  BY <1>1, <1>3, Zenon DEF Own, Sees, Moving
<1>5. want[t] \in Paths /\ entry[want[t]] = found[t] /\ found[t] \in Files /\ want[t] \in Guarded(t)
  BY <1>1, Zenon DEF Locals, Looking, Sees, Guarded
<1>6. found[t] # Null
  BY <1>5, NamesAssumption, Zenon
<1>7. PICK o \in alive \ Released : inode[o].ino = found[t]
  BY <1>5, <1>6, Zenon DEF Life, Named
<1>8. o \notin Creating
  <2> SUFFICES ASSUME NEW u \in Threads, pc[u] = "install", obj[u] = o PROVE FALSE
    BY Zenon DEF Creating
  <2>1. u # t
    BY <1>1, Zenon
  <2> QED BY <1>5, <1>7, <2>1, MadeUnseen, Zenon
<1>9. o \in Settled
  BY <1>7, <1>8, Zenon DEF Settled
<1>10. Settled' = Settled /\ inode' = inode
  <2>1. Creating' = Creating
    BY <1>1, <1>3, MakersSame, Zenon
  <2> QED BY <1>2, <2>1, Zenon DEF Settled, Released, Frame
<1>11. NamesOf(found[t]) # {} /\ NamesOf(found[t])' = NamesOf(found[t])
  BY <1>3, <1>5, Zenon DEF NamesOf
<1>12. Gets(t)'
  BY <1>3, <1>7, <1>9, <1>10, <1>11, Zenon DEF Gets
<1>13. Makes(t)' /\ Closes(t)'
  BY <1>3, Zenon DEF Makes, Closes
<1>14. Relies(t)'
  BY <1>4, <1>12, <1>13, Zenon DEF Relies
<1> QED BY <1>1, <1>2, <1>3, <1>14, Quiet, Zenon DEF Plain

(* slotfs_close locks the inode of the descriptor. *)
LEMMA CloseLockLife == ASSUME LInv, Life, NEW t \in Threads, CloseLock(t) PROVE Life'
<1>1. LocalTypes /\ Locals(t) /\ pc[t] = "idle" /\ fd[t] # Null
  BY Zenon DEF LInv, Types, CloseLock
<1>2. /\ found' = [found EXCEPT ![t] = inode[fd[t]].ino]
      /\ pc' = [pc EXCEPT ![t] = "close"] /\ Frame /\ UNCHANGED <<op, path, dest, want, obj>>
  BY Zenon DEF CloseLock, Goto, inodes, release, Frame
<1>3. /\ Only(t) /\ pc'[t] = "close" /\ op'[t] = op[t] /\ found'[t] = inode[fd[t]].ino
      /\ fd' = fd /\ inode' = inode
  BY <1>1, <1>2, Zenon DEF Only, LocalTypes, Frame
<1>4. op[t] = "none"
  BY <1>1, Zenon DEF Locals
<1>5. Own(t)' /\ Sees(t)'
  BY <1>1, <1>3, <1>4, Zenon DEF Own, Sees, Moving
<1>6. Gets(t)' /\ Makes(t)' /\ Closes(t)'
  BY <1>3, Zenon DEF Gets, Makes, Closes
<1>7. Relies(t)'
  BY <1>5, <1>6, Zenon DEF Relies
<1> QED BY <1>1, <1>2, <1>3, <1>7, Quiet, Zenon DEF Plain

(* The steps of a rename that touch no entry *)
LEMMA RenameOldLife == ASSUME LInv, Life, NEW t \in Threads, RenameOld(t) PROVE Life'
<1>1. LocalTypes /\ Own(t) /\ pc[t] = "last" /\ op[t] = "rename"
  BY Zenon DEF LInv, Types, Life, Relies, RenameOld
<1>2. /\ op' = [op EXCEPT ![t] = "rename_to"] /\ want' = [want EXCEPT ![t] = dest[t]]
      /\ pc' = [pc EXCEPT ![t] = "root"] /\ Frame /\ UNCHANGED <<path, dest, found, obj>>
  BY Zenon DEF RenameOld, Goto, inodes, release, regs, Frame
<1>3. Only(t) /\ pc'[t] = "root" /\ op'[t] = "rename_to" /\ path'[t] = path[t]
  BY <1>1, <1>2, Zenon DEF Only, LocalTypes
<1>4. Own(t)' /\ Sees(t)'
  BY <1>1, <1>3, Zenon DEF Own, Sees, Moving
<1>5. Relies(t)'
  BY <1>3, <1>4, EarlyRelies, Zenon
<1> QED BY <1>1, <1>2, <1>3, <1>5, Quiet, Zenon DEF Plain

(* A rename goes from one of its steps to the next. *)
LEMMA RenameGoesLife ==
  ASSUME LInv, Life, NEW t \in Threads, op[t] = "rename_to", Plain(pc[t]),
         NEW p \in Moving, Goto(t, p), Plain(p), path[t] # dest[t],
         Frame, UNCHANGED <<op, path, dest, want, found, obj>>,
         p \in {"journal", "record", "append"} => entry[path[t]] # Null /\ entry[dest[t]] = Null
  PROVE  Life'
<1>1. /\ Only(t) /\ pc'[t] = p /\ op'[t] = op[t] /\ path'[t] = path[t] /\ want'[t] = want[t]
      /\ dest'[t] = dest[t] /\ fd' = fd /\ entry' = entry
  BY GotoOnly, Zenon DEF Frame
<1>2. p \notin {"root", "down", "last", "iget", "got", "install", "close", "closed", "remove"}
  BY Zenon DEF Moving, Plain
<1>3. Own(t)
  BY Zenon DEF Life, Relies
<1>4. Own(t)' /\ Sees(t)'
  BY <1>1, <1>2, <1>3, Zenon DEF Own, Sees
<1>5. Relies(t)'
  BY <1>1, <1>2, <1>4, EarlyRelies, Zenon
<1> QED BY <1>1, <1>5, Quiet, Zenon

(* The steps of a rename that touch locks and the journal only. *)
LEMMA RenameQuietLife ==
  ASSUME LInv, Life, NEW t \in Threads,
         \/ RenameNew(t) \/ LockOld(t) \/ RenameFails(t) \/ JournalAlloc(t) \/ JournalValid(t)
         \/ JournalRecord(t) \/ JournalCommit(t) \/ JournalFree(t)
  PROVE  Life'
<1>1. Locals(t) /\ Own(t) /\ Sees(t)
  BY Zenon DEF LInv, Life, Relies
<1>2. Frame
  BY Zenon DEF RenameNew, LockOld, RenameFails, JournalAlloc, JournalValid, JournalRecord,
       JournalCommit, JournalFree, Frame, inodes, release
<1>3. CASE RenameNew(t)
  <2>1. pc[t] = "last" /\ op[t] = "rename_to"
    BY <1>3, Zenon DEF RenameNew
  <2>2. CASE path[t] = dest[t]
    BY <1>2, <1>3, <2>1, <2>2, ReturnLife, Zenon DEF RenameNew, Plain
  <2>3. CASE path[t] # dest[t]
    <3>1. PICK p \in {"check", "lock_old"} : Goto(t, p)
      BY <1>3, <2>3, Zenon DEF RenameNew
    <3>2. UNCHANGED <<op, path, dest, want, found, obj>>
      BY <1>3, <2>3, Zenon DEF RenameNew, regs
    <3> QED BY <1>2, <2>1, <2>3, <3>1, <3>2, RenameGoesLife, Zenon DEF Plain, Moving
  <2> QED BY <2>2, <2>3, Zenon
<1>4. CASE RenameFails(t) \/ JournalFree(t)
  BY <1>2, <1>4, ReturnLife, Zenon DEF RenameFails, JournalFree, Plain
<1>5. CASE LockOld(t) \/ JournalAlloc(t) \/ JournalValid(t) \/ JournalRecord(t) \/ JournalCommit(t)
  <2>1. UNCHANGED <<op, path, dest, want, found, obj>>
    BY <1>5, Zenon DEF LockOld, JournalAlloc, JournalValid, JournalRecord, JournalCommit, regs
  <2>2. pc[t] \in Moving
    BY <1>5, Zenon DEF LockOld, JournalAlloc, JournalValid, JournalRecord, JournalCommit, Moving
  <2>3. op[t] = "rename_to" /\ path[t] # dest[t]
    BY <1>1, <2>2, Zenon DEF Locals, Own
  <2>4. CASE LockOld(t)
    BY <1>2, <2>1, <2>3, <2>4, RenameGoesLife, Zenon DEF LockOld, Plain, Moving
  <2>5. CASE JournalAlloc(t)
    BY <1>2, <2>1, <2>3, <2>5, RenameGoesLife, Zenon DEF JournalAlloc, Plain, Moving
  <2>6. CASE JournalValid(t)
    BY <1>1, <1>2, <2>1, <2>3, <2>6, RenameGoesLife, Zenon DEF JournalValid, Plain, Moving, Sees
  <2>7. CASE JournalRecord(t)
    BY <1>1, <1>2, <2>1, <2>3, <2>7, RenameGoesLife, Zenon DEF JournalRecord, Plain, Moving, Sees
  <2>8. CASE JournalCommit(t)
    <3>1. pc[t] = "commit"
      BY <2>8, Zenon DEF JournalCommit
    <3> QED BY <1>2, <2>1, <2>3, <2>8, <3>1, RenameGoesLife, Zenon DEF JournalCommit, Plain, Moving
  <2> QED BY <1>5, <2>4, <2>5, <2>6, <2>7, <2>8, Zenon
<1> QED BY <1>3, <1>4, <1>5, Zenon
-----------------------------------------------------------------------------
(* Making an inode_t leaves it with its maker only. *)
LEMMA MakerAlone ==
  ASSUME Life, NEW u \in Threads, pc[u] = "install"
  PROVE  obj[u] \in Creating /\ obj[u] \in alive \ Released /\ Users(obj[u]) = {u}
<1>1. obj[u] \in Creating
  BY Zenon DEF Creating
<1>2. obj[u] \in alive \ Released /\ Users(obj[u]) = {u}
  BY Zenon DEF Life, Relies, Makes
<1> QED BY <1>1, <1>2, Zenon

(* An inode_t whose number has not been given back has it to itself. *)
LEMMA LiveNumber ==
  ASSUME Life, NEW x \in alive \ Freed
  PROVE  /\ inode[x].ino \in Files /\ inode[x].ino \in iused /\ inode[x].ino # Null
         /\ \A y \in alive \ Freed : inode[y].ino = inode[x].ino => y = x
<1>1. Numbers
  BY Zenon DEF Life
<1>2. inode[x].ino \in Files /\ inode[x].ino \in iused
  BY <1>1, Zenon DEF Numbers
<1>3. inode[x].ino # Null
  BY <1>2, NamesAssumption, Zenon
<1>4. \A y \in alive \ Freed : inode[y].ino = inode[x].ino => y = x
  BY <1>1, Zenon DEF Numbers
<1> QED BY <1>2, <1>3, <1>4, Zenon

(* The names and the links of the inode_t that stay are what they were, *)
LEMMA LinksKept ==
  ASSUME Links, \A j : NamesOf(j)' = NamesOf(j), \A x \in alive' \ Freed' : x \in alive \ Freed,
         \A x \in alive' : x \in alive /\ inode'[x].link = inode[x].link /\ inode'[x].ino = inode[x].ino
  PROVE  Links'
<1>1. \A x \in alive' : inode'[x].link \in {0, 1}
  BY Zenon DEF Links
<1>2. ASSUME NEW x \in alive' \ Freed', NEW j, j = inode'[x].ino
      PROVE  inode'[x].link = 0 <=> NamesOf(j)' = {}
  <2>1. x \in alive \ Freed /\ j = inode[x].ino /\ inode'[x].link = inode[x].link
    BY <1>2, Zenon
  <2>2. inode[x].link = 0 <=> NamesOf(j) = {}
    BY <2>1, Zenon DEF Links
  <2> QED BY <2>1, <2>2, Zenon
<1> QED BY <1>1, <1>2, Zenon DEF Links

(* ... and so the names lead where they led. *)
LEMMA NamedKept ==
  ASSUME Named, entry' = entry,
         \A x \in alive \ Released : x \in alive' \ Released' /\ inode'[x].ino = inode[x].ino
  PROVE  Named'
<1>1. ASSUME NEW p \in Paths, entry[p] # Null PROVE \E x \in alive' \ Released' : inode'[x].ino = entry[p]
  <2>1. PICK x \in alive \ Released : inode[x].ino = entry[p]
    BY <1>1, Zenon DEF Named
  <2> QED BY <2>1, Zenon
<1> QED BY <1>1, Zenon DEF Named

(* slotfs_open takes a reference to what iget has returned. *)
LEMMA OpenLife == ASSUME Counting, LInv, Life, NEW t \in Threads, Open(t) PROVE Life'
<1>1. SharedTypes /\ Relies(t) /\ pc[t] = "got"
  BY Zenon DEF LInv, Types, Life, Open
<1>2. op[t] = "open" /\ fd[t] = Null
  <2>1. op[t] \in {"open", "creat"}
    BY Zenon DEF Open
  <2> QED BY <1>1, <2>1, Zenon DEF Relies, Own
<1>3. PICK o \in Settled : inode[o].ino = found[t]
  BY <1>1, Zenon DEF Relies, Gets
<1>21. table[found[t]] = o
  BY <1>3, Zenon DEF Life, Tabled
<1>4. alive \subseteq Objs /\ o \in Objs /\ o \in alive \ Released
  BY <1>3, Zenon DEF Settled, Life, ReleaseOrder
<1>5. /\ Only(t) /\ pc'[t] = "idle" /\ op'[t] = "none"
      /\ fd' = [fd EXCEPT ![t] = o]
      /\ inode' = [inode EXCEPT ![o].ref = @ + 1]
      /\ entry' = entry /\ iused' = iused /\ alive' = alive /\ table' = table
      /\ rlist' = rlist /\ rcur' = rcur /\ rdone' = rdone
  BY <1>2, <1>21, ReturnOnly, Zenon DEF Open, release
<1>6. /\ fd'[t] = o /\ \A u \in Threads : u # t => Same(u)
  BY <1>1, <1>5, Zenon DEF SharedTypes, Only, Same
<1>7. /\ \A x \in Objs : inode'[x].ino = inode[x].ino /\ inode'[x].link = inode[x].link
      /\ inode'[o].ref = inode[o].ref + 1
      /\ \A x \in Objs : x # o => inode'[x].ref = inode[x].ref
  BY <1>1, <1>4, <1>5 DEF SharedTypes, InodeT
<1>8. Released' = Released /\ Freed' = Freed /\ Creating' = Creating
  <2>1. Creating' = Creating
    BY <1>1, <1>5, MakersSame, Zenon
  <2> QED BY <1>5, <2>1, Zenon DEF Released, Freed
<1>9. Settled' = Settled /\ \A i : NamesOf(i)' = NamesOf(i)
  BY <1>5, <1>8, Zenon DEF Settled, NamesOf
<1>10. t \notin Users(o) /\ Users(o)' = Users(o) \union {t}
  <2>1. t \notin Users(o)
    BY <1>1, <1>2, <1>4, NamesAssumption, Zenon DEF Users
  <2>2. \A u \in Threads : u \in Users(o)' <=> u \in Users(o) \union {t}
    <3>1. t \in Users(o)'
      BY <1>6, Zenon DEF Users
    <3>2. ASSUME NEW u \in Threads, u # t PROVE u \in Users(o)' <=> u \in Users(o)
      BY <1>6, <3>2, Zenon DEF Users, Same
    <3> QED BY <3>1, <3>2, Zenon
  <2>3. \A u : u \in Users(o)' \/ u \in Users(o) => u \in Threads
    BY Zenon DEF Users
  <2> QED BY <2>1, <2>2, <2>3, Zenon
<1>11. ASSUME NEW x \in Objs, x # o PROVE Users(x)' = Users(x)
  <2>1. \A u \in Threads : (fd'[u] = x) <=> (fd[u] = x)
    BY <1>2, <1>6, <1>11, NamesAssumption, Zenon DEF Same
  <2> QED BY <1>1, <1>5, <2>1, UsersSame, Zenon
<1>12. ReleaseOrder' /\ Numbers' /\ Tabled'
  <2>1. ReleaseOrder'
    BY <1>5, <1>8, Zenon DEF Life, ReleaseOrder
  <2>2. Numbers'
    <3>1. Numbers
      BY Zenon DEF Life
    <3>2. \A x \in alive : inode'[x].ino = inode[x].ino
      BY <1>4, <1>7, Zenon
    <3>3. \A x, y \in alive \ Freed : inode'[x].ino = inode'[y].ino => x = y
      BY <3>1, <3>2, Zenon DEF Numbers
    <3>4. \A x \in alive : inode'[x].ino \in Files
      BY <3>1, <3>2, Zenon DEF Numbers
    <3>5. \A x \in alive \ Freed : inode'[x].ino \in iused
      BY <3>1, <3>2, Zenon DEF Numbers
    <3> QED BY <1>5, <1>8, <3>3, <3>4, <3>5, Zenon DEF Numbers
  <2>3. \A x \in Settled : x \in Objs
    BY <1>4, Zenon DEF Settled
  <2> QED BY <1>5, <1>7, <1>9, <2>1, <2>2, <2>3, Zenon DEF Life, Tabled
<1>13. inode[o].ref = Cardinality(Users(o)) /\ Cardinality(Users(o)) \in Nat
       /\ Cardinality(Users(o)') = Cardinality(Users(o)) + 1
  <2>1. Users(o) \in SUBSET Threads
    BY Zenon DEF Users
  <2>2. /\ Cardinality(Users(o) \union {t}) = Cardinality(Users(o)) + 1
        /\ Cardinality(Users(o)) \in Nat
    BY <1>10, <2>1, Zenon DEF Counting
  <2>3. inode[o].ref = Cardinality(Users(o))
    BY <1>4, Zenon DEF Life, Refs
  <2> QED BY <1>10, <2>2, <2>3, Zenon
<1>14. Refs'
  <2>1. ASSUME NEW x \in alive, x # o PROVE inode'[x].ref = Cardinality(Users(x)')
    BY <1>4, <1>7, <1>11, <2>1, Zenon DEF Life, Refs
  <2>2. inode'[o].ref = Cardinality(Users(o)')
    BY <1>7, <1>13, Zenon
  <2> QED BY <1>5, <2>1, <2>2, Zenon DEF Refs
<1>15. Links'
  <2>1. Links /\ \A x \in alive : inode'[x].link = inode[x].link /\ inode'[x].ino = inode[x].ino
    BY <1>4, <1>7, Zenon DEF Life
  <2> QED BY <1>5, <1>8, <1>9, <2>1, LinksKept, Zenon
<1>16. Dead'
  <2>1. inode'[o].ref # 0
    BY <1>7, <1>13
  <2> QED BY <1>4, <1>5, <1>7, <1>8, <2>1, Zenon DEF Life, Dead
<1>17. Named' /\ DescriptorsLive'
  <2>1. Named'
    <3>1. Named /\ \A x \in alive : inode'[x].ino = inode[x].ino
      BY <1>4, <1>7, Zenon DEF Life
    <3> QED BY <1>5, <1>8, <3>1, NamedKept, Zenon
  <2> QED BY <1>4, <1>5, <1>6, <1>8, <2>1, Zenon DEF Life, DescriptorsLive, Same
<1>18. Pairs'
  BY <1>1, <1>5, PairsKept, Zenon DEF Life
<1>19. ASSUME NEW u \in Threads, u # t PROVE Relies(u)'
  <2>1. Same(u) /\ Relies(u)
    BY <1>6, <1>19, Zenon DEF Life
  <2>2. Own(u)' /\ Sees(u)'
    BY <1>5, <2>1, Zenon DEF Relies, Own, Sees, Same
  <2>3. Gets(u)'
    BY <1>4, <1>7, <1>9, <2>1, Zenon DEF Relies, Gets, Same, Settled
  <2>4. Makes(u)'
    <3> SUFFICES ASSUME pc[u] = "install" PROVE Makes(u)'
      BY <2>1, Zenon DEF Makes, Same
    <3>1. obj[u] # o /\ obj[u] \in Objs
      BY <1>3, <1>4, MakerAlone, Zenon DEF Settled
    <3> QED BY <1>5, <1>7, <1>8, <1>9, <1>11, <2>1, <3>1, Zenon DEF Relies, Makes, Same
  <2>5. Closes(u)'
    <3>1. pc[u] = "close" => fd[u] \in Objs
      BY <1>4, <2>1, Zenon DEF Relies, Own, Life, DescriptorsLive
    <3>2. \A x \in Settled : inode'[x].ino = inode[x].ino
      BY <1>4, <1>7, Zenon DEF Settled
    <3> QED BY <1>7, <1>9, <2>1, <3>1, <3>2, Zenon DEF Relies, Closes, Same
  <2> QED BY <2>2, <2>3, <2>4, <2>5, Zenon DEF Relies
<1>20. \A u \in Threads : Relies(u)'
  BY <1>5, <1>19, IdleRelies, Zenon
<1> QED BY <1>12, <1>14, <1>15, <1>16, <1>17, <1>18, <1>20, Zenon DEF Life

(* slotfs_creat makes an inode_t with a fresh number and enters its name. *)
LEMMA CreateLife == ASSUME Counting, LInv, Life, NEW t \in Threads, Create(t) PROVE Life'
<1>1. SharedTypes /\ LocalTypes /\ Locals(t) /\ Relies(t) /\ pc[t] = "last" /\ op[t] = "creat"
  BY Zenon DEF LInv, Types, Life, Create
<1>2. PICK i \in Files \ iused, o \in Objs \ alive :
        /\ iused' = iused \union {i}
        /\ alive' = alive \union {o}
        /\ inode' = [inode EXCEPT ![o] = [ino |-> i, ref |-> 1, link |-> 1]]
        /\ entry' = [entry EXCEPT ![want[t]] = i]
        /\ obj' = [obj EXCEPT ![t] = o]
  BY Zenon DEF Create
<1>27. /\ i \in Files /\ i \notin iused /\ o \notin alive /\ alive \subseteq Objs
       /\ \A x : x \in alive' <=> x \in alive \/ x = o
       /\ \A j : j \in iused' <=> j \in iused \/ j = i
  BY <1>2, Zenon DEF Life, ReleaseOrder
<1>3. /\ pc' = [pc EXCEPT ![t] = "install"] /\ table' = table /\ fd' = fd
      /\ rlist' = rlist /\ rcur' = rcur /\ rdone' = rdone
      /\ UNCHANGED <<op, path, dest, want, found>>
  BY Zenon DEF Create, Goto, release
<1>4. /\ Only(t) /\ pc'[t] = "install" /\ obj'[t] = o /\ op'[t] = op[t] /\ want'[t] = want[t]
  BY <1>1, <1>2, <1>3, Zenon DEF Only, LocalTypes
<1>5. \A u \in Threads : u # t => Same(u)
  BY <1>3, <1>4, ThreadsSame, Zenon
<1>6. /\ want[t] \in Paths /\ entry[want[t]] = Null /\ entry'[want[t]] = i
      /\ \A p \in Paths : p # want[t] => entry'[p] = entry[p]
  BY <1>1, <1>2, Zenon DEF SharedTypes, Locals, Looking, Relies, Sees
<1>7. /\ inode'[o].ino = i /\ inode'[o].ref = 1 /\ inode'[o].link = 1
      /\ \A x \in alive : inode'[x] = inode[x]
  <2>1. inode'[o] = [ino |-> i, ref |-> 1, link |-> 1] /\ \A x \in Objs : x # o => inode'[x] = inode[x]
    BY <1>1, <1>2, Zenon DEF SharedTypes
  <2>2. inode'[o].ino = i /\ inode'[o].ref = 1 /\ inode'[o].link = 1
    BY <2>1
  <2>3. \A x \in alive : x \in Objs /\ x # o
    BY <1>27, Zenon
  <2> QED BY <2>1, <2>2, <2>3, Zenon
<1>8. i # Null /\ \A p \in Paths : entry[p] # i
  <2>1. i # Null
    BY NamesAssumption, Zenon
  <2>2. ASSUME NEW p \in Paths, entry[p] = i PROVE FALSE
    <3>1. PICK x \in alive \ Released : inode[x].ino = i
      BY <2>1, <2>2, Zenon DEF Life, Named
    <3> QED BY <1>27, <3>1, FreedReleased, LiveNumber, Zenon
  <2> QED BY <2>1, <2>2, Zenon
<1>9. NamesOf(i)' = {want[t]} /\ \A j : j \notin {i, Null} => NamesOf(j)' = NamesOf(j)
  BY <1>6, <1>8, Zenon DEF NamesOf
<1>10. /\ Released' = Released /\ Freed' = Freed /\ o \notin Released /\ o \notin Freed
       /\ Creating' = Creating \union {o}
  <2>1. \A u \in Threads : u # t => (pc'[u] = pc[u] /\ obj'[u] = obj[u])
    BY <1>5, Zenon DEF Same
  <2>2. \A x : x \in Creating' <=> x \in Creating \/ x = o
    BY <1>1, <1>4, <2>1, Zenon DEF Creating
  <2>3. Released \subseteq alive
    BY Zenon DEF Life, ReleaseOrder
  <2>4. rdone => rcur \in Released
    BY Zenon DEF Life, ReleaseOrder, Released
  <2>5. Released' = Released /\ Freed' = Freed
    BY <1>3, Zenon DEF Released, Freed
  <2> QED BY <1>2, <2>2, <2>3, <2>4, <2>5, Zenon DEF Freed
<1>11. Settled' = Settled
  <2>1. \A x : x \in Settled' <=> x \in Settled
    BY <1>2, <1>10, Zenon DEF Settled
  <2> QED BY <2>1, Zenon
<1>12. Users(o)' = {t}
  <2>1. \A u \in Threads : u # t => (pc'[u] = pc[u] /\ obj'[u] = obj[u] /\ fd'[u] = fd[u])
    BY <1>5, Zenon DEF Same
  <2>2. \A u \in Threads : fd[u] # o
    BY <1>2, NamesAssumption, Zenon DEF Life, DescriptorsLive
  <2>3. \A u \in Threads : pc[u] = "install" => obj[u] # o
    BY <1>2, MakerAlone, Zenon
  <2>4. \A u \in Threads : u \in Users(o)' <=> u = t
    BY <1>4, <2>1, <2>2, <2>3, Zenon DEF Users
  <2>5. \A u \in Users(o)' : u \in Threads
    BY Zenon DEF Users
  <2> QED BY <2>4, <2>5, Zenon
<1>13. ASSUME NEW x \in alive PROVE Users(x)' = Users(x)
  <2>1. \A u \in Threads : u # t => (pc'[u] = pc[u] /\ obj'[u] = obj[u])
    BY <1>5, Zenon DEF Same
  <2>2. \A u \in Threads : u \in Users(x)' <=> u \in Users(x)
    BY <1>1, <1>3, <1>4, <1>27, <2>1, Zenon DEF Users
  <2>3. \A u \in Users(x) \union Users(x)' : u \in Threads
    BY Zenon DEF Users
  <2> QED BY <2>2, <2>3, Zenon
<1>14. ReleaseOrder'
  BY <1>2, <1>3, <1>10, Zenon DEF Life, ReleaseOrder
<1>15. Numbers'
  <2>1. Numbers
    BY Zenon DEF Life
  <2>2. \A x \in alive' : inode'[x].ino \in Files
    BY <1>2, <1>7, <2>1, Zenon DEF Numbers
  <2>3. \A x \in alive \ Freed : inode'[x].ino \in iused /\ inode'[x].ino # i
    BY <1>7, <1>27, LiveNumber, Zenon
  <2>4. \A x \in alive' \ Freed' : inode'[x].ino \in iused'
    BY <1>7, <1>10, <1>27, <2>3, Zenon
  <2>5. \A x, y \in alive \ Freed : inode'[x].ino = inode'[y].ino => x = y
    BY <1>7, <2>1, Zenon DEF Numbers
  <2>6. \A x, y \in alive' \ Freed' : inode'[x].ino = inode'[y].ino => x = y
    BY <1>7, <1>10, <1>27, <2>3, <2>5, Zenon
  <2> QED BY <2>2, <2>4, <2>6, Zenon DEF Numbers
<1>16. Tabled'
  BY <1>3, <1>7, <1>11, Zenon DEF Life, Tabled, Settled
<1>17. Refs'
  <2>1. inode'[o].ref = Cardinality(Users(o)')
    BY <1>7, <1>12, Zenon DEF Counting
  <2>2. ASSUME NEW x \in alive PROVE inode'[x].ref = Cardinality(Users(x)')
    BY <1>7, <1>13, Zenon DEF Life, Refs
  <2> QED BY <1>2, <2>1, <2>2, Zenon DEF Refs
<1>18. Links'
  <2>1. Links /\ Numbers
    BY Zenon DEF Life
  <2>2. \A x \in alive' : inode'[x].link \in {0, 1}
    BY <1>2, <1>7, <2>1, Zenon DEF Links
  <2>3. ASSUME NEW x \in alive \ Freed, NEW j, j = inode'[x].ino
        PROVE  inode'[x].link = 0 <=> NamesOf(j)' = {}
    <3>1. j = inode[x].ino /\ j \notin {i, Null}
      BY <1>7, <1>27, <2>3, LiveNumber, Zenon
    <3>2. NamesOf(j)' = NamesOf(j)
      BY <1>9, <3>1, Zenon
    <3>3. inode[x].link = 0 <=> NamesOf(j) = {}
      BY <2>1, <3>1, Zenon DEF Links
    <3> QED BY <1>7, <3>2, <3>3, Zenon
  <2>4. inode'[o].link # 0 /\ NamesOf(i)' # {}
    BY <1>7, <1>9
  <2>5. \A x \in alive' \ Freed' : \A j : j = inode'[x].ino => (inode'[x].link = 0 <=> NamesOf(j)' = {})
    <3>1. ASSUME NEW x \in alive' \ Freed', NEW j, j = inode'[x].ino
          PROVE  inode'[x].link = 0 <=> NamesOf(j)' = {}
      <4>1. CASE x = o
        BY <1>7, <2>4, <3>1, <4>1, Zenon
      <4>2. CASE x # o
        BY <1>2, <1>10, <2>3, <3>1, <4>2, Zenon
      <4> QED BY <4>1, <4>2, Zenon
    <3> QED BY <3>1, Zenon
  <2> QED BY <2>2, <2>5, Zenon DEF Links
<1>19. Dead'
  <2>1. inode'[o].ref # 0
    BY <1>7
  <2> QED BY <1>2, <1>7, <1>10, <2>1, Zenon DEF Life, Dead
<1>20. Named'
  <2>1. ASSUME NEW p \in Paths, entry'[p] # Null PROVE \E x \in alive' \ Released' : inode'[x].ino = entry'[p]
    <3>1. CASE p = want[t]
      BY <1>2, <1>6, <1>7, <1>10, <3>1, Zenon
    <3>2. CASE p # want[t]
      <4>1. PICK x \in alive \ Released : inode[x].ino = entry[p]
        BY <1>6, <2>1, <3>2, Zenon DEF Life, Named
      <4> QED BY <1>2, <1>6, <1>7, <1>10, <3>2, <4>1, Zenon
    <3> QED BY <3>1, <3>2, Zenon
  <2> QED BY <2>1, Zenon DEF Named
<1>21. Pairs'
  <2>1. ASSUME NEW p \in Paths, NEW q \in Paths, entry'[p] # Null, entry'[p] = entry'[q], p # q
        PROVE  \E u \in Threads : pc'[u] = "remove" /\ {p, q} = {path'[u], dest'[u]}
    <3>1. p # want[t] /\ q # want[t]
      BY <1>6, <1>8, <2>1, Zenon
    <3>4. entry[p] # Null /\ entry[p] = entry[q]
      BY <1>6, <2>1, <3>1, Zenon
    <3>2. PICK u \in Threads : pc[u] = "remove" /\ {p, q} = {path[u], dest[u]}
      BY <2>1, <3>4, Zenon DEF Life, Pairs
    <3>3. pc'[u] = "remove" /\ path'[u] = path[u] /\ dest'[u] = dest[u]
      BY <1>1, <1>4, <3>2, Zenon DEF Only
    <3> QED BY <3>2, <3>3, Zenon
  <2> QED BY <2>1, Zenon DEF Pairs
<1>22. DescriptorsLive'
  BY <1>2, <1>3, <1>10, Zenon DEF Life, DescriptorsLive
<1>23. Changes(t)
  <2>1. want[t] \in Guarded(t) /\ Owner[want[t]] = t
    BY <1>1, Zenon DEF Guarded, Relies, Own
  <2> QED BY <1>6, <2>1, Zenon DEF Changes
<1>24. ASSUME NEW u \in Threads, u # t PROVE Relies(u)'
  <2>1. Same(u) /\ Relies(u)
    BY <1>5, <1>24, Zenon DEF Life
  <2>2. Own(u)' /\ Sees(u)'
    BY <1>23, <1>24, <2>1, OwnKept, SeesKept, Zenon DEF Relies
  <2>3. Gets(u)'
    <3> SUFFICES ASSUME pc[u] = "got" PROVE Gets(u)'
      BY <2>1, Zenon DEF Gets, Same
    <3>1. found'[u] = found[u] /\ NamesOf(found[u]) # {} /\ \E x \in Settled : inode[x].ino = found[u]
      BY <2>1, Zenon DEF Relies, Gets, Same
    <3>2. found[u] \in Files /\ found[u] # Null
      BY NamesAssumption, Zenon DEF LInv, Locals
    <3>3. NamesOf(found[u])' # {}
      <4>1. PICK p \in Paths : entry[p] = found[u]
        BY <3>1, Zenon DEF NamesOf
      <4>2. entry'[p] = found[u]
        BY <1>6, <3>2, <4>1, Zenon
      <4> QED BY <3>1, <4>2, Zenon DEF NamesOf
    <3>4. \E x \in Settled' : inode'[x].ino = found[u]
      BY <1>7, <1>11, <3>1, Zenon DEF Settled
    <3> QED BY <3>1, <3>3, <3>4, Zenon DEF Gets
  <2>4. Makes(u)'
    <3> SUFFICES ASSUME pc[u] = "install" PROVE Makes(u)'
      BY <2>1, Zenon DEF Makes, Same
    <3>1. PICK x \in alive \ Released : x = obj[u] /\ x = obj'[u] /\ Users(x) = {u}
      BY <2>1, MakerAlone, Zenon DEF Same
    <3>2. NamesOf(inode[x].ino) = {want[u]}
      BY <2>1, <3>1, Zenon DEF Relies, Makes
    <3>3. PICK j \in Files \ {i, Null} : j = inode[x].ino /\ j = inode'[x].ino
      <4>1. inode[x].ino \in Files /\ inode[x].ino \in iused /\ inode[x].ino # Null
        BY FreedReleased, LiveNumber, Zenon
      <4>2. inode'[x].ino = inode[x].ino
        BY <1>7, Zenon
      <4> QED BY <1>27, <4>1, <4>2, Zenon
    <3>4. NamesOf(j)' = {want'[u]}
      BY <1>9, <2>1, <3>2, <3>3, Zenon DEF Same
    <3>5. Users(x)' = {u} /\ x \in alive' \ Released'
      BY <1>2, <1>10, <1>13, <3>1, Zenon
    <3> QED BY <3>1, <3>3, <3>4, <3>5, Zenon DEF Makes
  <2>5. Closes(u)'
    <3>1. pc[u] = "close" => fd[u] \in alive
      BY <2>1, Zenon DEF Relies, Own, Life, DescriptorsLive
    <3> QED BY <1>7, <1>11, <2>1, <3>1, Zenon DEF Relies, Closes, Same, Settled
  <2> QED BY <2>2, <2>3, <2>4, <2>5, Zenon DEF Relies
<1>25. Relies(t)'
  <2>1. Own(t)' /\ Sees(t)'
    BY <1>1, <1>3, <1>4, Zenon DEF Relies, Own, Sees, Moving
  <2>2. Makes(t)'
    BY <1>4, <1>7, <1>9, <1>10, <1>12, <1>27, Zenon DEF Makes
  <2>3. Gets(t)' /\ Closes(t)'
    BY <1>4, Zenon DEF Gets, Closes
  <2> QED BY <2>1, <2>2, <2>3, Zenon DEF Relies
<1>26. \A u \in Threads : Relies(u)'
  BY <1>24, <1>25, Zenon
<1> QED BY <1>14, <1>15, <1>16, <1>17, <1>18, <1>19, <1>20, <1>21, <1>22, <1>26, Zenon DEF Life
-----------------------------------------------------------------------------
(* What a thread that a step leaves alone keeps *)
LEMMA GetsKept ==
  ASSUME NEW u \in Threads, Same(u), Gets(u),
         pc[u] = "got" => /\ NamesOf(found[u])' # {}
                          /\ \A x \in Settled : inode[x].ino = found[u] =>
                               x \in Settled' /\ inode'[x].ino = found[u]
  PROVE  Gets(u)'
<1> SUFFICES ASSUME pc[u] = "got" PROVE Gets(u)'
  BY Zenon DEF Gets, Same
<1>1. found'[u] = found[u]
  BY Zenon DEF Same
<1>2. \E x \in Settled' : inode'[x].ino = found'[u]
  BY <1>1, Zenon DEF Gets
<1> QED BY <1>1, <1>2, Zenon DEF Gets

(* What a creator keeps, *)
LEMMA MakesKept ==
  ASSUME Life, NEW u \in Threads, Same(u),
         pc[u] = "install" => \A x : x = obj[u] =>
           /\ x \in alive' \ Released' /\ inode'[x].ino = inode[x].ino /\ Users(x)' = Users(x)
           /\ \A j : j = inode[x].ino => NamesOf(j)' = NamesOf(j)
  PROVE  Makes(u)'
<1> SUFFICES ASSUME pc[u] = "install" PROVE Makes(u)'
  BY Zenon DEF Makes, Same
<1>1. PICK x : x = obj[u]
  OBVIOUS
<1>2. PICK j : j = inode[x].ino
  OBVIOUS
<1>3. NamesOf(j) = {want[u]} /\ Users(x) = {u}
  BY <1>1, <1>2, Zenon DEF Life, Relies, Makes
<1>4. /\ x \in alive' \ Released' /\ inode'[x].ino = j /\ Users(x)' = {u} /\ NamesOf(j)' = {want[u]}
  BY <1>1, <1>2, <1>3, Zenon
<1>5. obj'[u] = x /\ want'[u] = want[u]
  BY <1>1, Zenon DEF Same
<1> QED BY <1>4, <1>5, Zenon DEF Makes

(* ... and what a thread that closes keeps. *)
LEMMA ClosesKept ==
  ASSUME NEW u \in Threads, Same(u), Closes(u),
         pc[u] = "close" => inode'[fd[u]].ino = inode[fd[u]].ino,
         pc[u] = "closed" => \A x \in Settled' : inode'[x].ino = found[u] =>
                               x \in Settled /\ inode[x].ino = found[u]
  PROVE  Closes(u)'
BY Zenon DEF Closes, Same

(* A step that moves only names *)
LEMMA EntryStep ==
  ASSUME LInv, Life, NEW t \in Threads, Only(t), pc[t] # "install", pc'[t] # "install",
         UNCHANGED <<iused, alive, inode, table, rlist, rcur, rdone, fd>>,
         Changes(t), Named', Pairs', Relies(t)',
         \A x \in alive \ Freed : \A j : j = inode[x].ino => (NamesOf(j)' = {} <=> NamesOf(j) = {}),
         \A u \in Threads : u # t /\ pc[u] = "install" =>
           \A j : j = inode[obj[u]].ino => NamesOf(j)' = NamesOf(j)
  PROVE  Life'
<1>1. Released' = Released /\ Freed' = Freed /\ Creating' = Creating
  <2>1. Creating' = Creating
    BY MakersSame, Zenon
  <2> QED BY <2>1, Zenon DEF Released, Freed
<1>2. Settled' = Settled
  BY <1>1, Zenon DEF Settled
<1>3. \A o : Users(o)' = Users(o)
  BY UsersSame, Zenon
<1>4. ReleaseOrder' /\ Numbers' /\ Tabled'
  BY <1>1, <1>2, Zenon DEF Life, ReleaseOrder, Numbers, Tabled
<1>5. Refs' /\ Dead' /\ DescriptorsLive'
  BY <1>1, <1>3, Zenon DEF Life, Refs, Dead, DescriptorsLive
<1>6. Links'
  <2>1. Links
    BY Zenon DEF Life
  <2>2. \A x \in alive : inode[x].link \in {0, 1}
    BY <2>1, Zenon DEF Links
  <2>3. \A x \in alive \ Freed : \A j : j = inode[x].ino => (inode[x].link = 0 <=> NamesOf(j)' = {})
    BY <2>1, Zenon DEF Links
  <2> QED BY <1>1, <2>2, <2>3, Zenon DEF Links
<1>7. ASSUME NEW u \in Threads, u # t PROVE Relies(u)'
  <2>1. Same(u) /\ Relies(u)
    BY <1>7, ThreadsSame, Zenon DEF Life
  <2>2. Own(u)' /\ Sees(u)'
    BY <1>7, <2>1, OwnKept, SeesKept, Zenon DEF Relies
  <2>3. Gets(u)'
    <3>1. Gets(u)
      BY <2>1, Zenon DEF Relies
    <3>2. pc[u] = "got" => NamesOf(found[u])' # {}
      <4> SUFFICES ASSUME pc[u] = "got" PROVE NamesOf(found[u])' # {}
        OBVIOUS
      <4>1. PICK j : j = found[u] /\ j = found'[u]
        BY <2>1, Zenon DEF Same
      <4>2. PICK x \in Settled : inode[x].ino = j
        BY <3>1, <4>1, Zenon DEF Gets
      <4>3. x \in alive \ Freed
        BY FreedReleased, Zenon DEF Settled
      <4>4. NamesOf(j) # {}
        BY <3>1, <4>1, Zenon DEF Gets
      <4>5. NamesOf(j)' # {}
        BY <4>2, <4>3, <4>4, Zenon
      <4> QED BY <4>1, <4>5, Zenon
    <3> QED BY <1>2, <2>1, <3>1, <3>2, GetsKept, Zenon
  <2>4. Makes(u)'
    BY <1>1, <1>3, <1>7, <2>1, MakerAlone, MakesKept, Zenon
  <2>5. Closes(u)'
    BY <1>2, <2>1, ClosesKept, Zenon DEF Relies
  <2> QED BY <2>2, <2>3, <2>4, <2>5, Zenon DEF Relies
<1>8. \A u \in Threads : Relies(u)'
  BY <1>7, Zenon
<1> QED BY <1>4, <1>5, <1>6, <1>8, Zenon DEF Life

(* A rename enters the new name: the file has two. *)
LEMMA RenameAppendLife == ASSUME LInv, Life, NEW t \in Threads, RenameAppend(t) PROVE Life'
<1>1. SharedTypes /\ Locals(t) /\ Relies(t) /\ pc[t] = "append"
  BY Zenon DEF LInv, Types, Life, RenameAppend
<1>2. /\ entry' = [entry EXCEPT ![dest[t]] = entry[path[t]]] /\ Goto(t, "remove")
      /\ UNCHANGED <<iused, alive, inode, table, rlist, rcur, rdone, fd>>
      /\ UNCHANGED <<op, path, dest, want, found, obj>>
  BY Zenon DEF RenameAppend, inodes, release, regs
<1>3. /\ Only(t) /\ pc'[t] = "remove" /\ op'[t] = op[t] /\ path'[t] = path[t] /\ dest'[t] = dest[t]
      /\ want'[t] = want[t]
  BY <1>2, GotoOnly, Zenon
<1>4. PICK p \in Paths, d \in Paths, i \in Files :
        p = path[t] /\ d = dest[t] /\ i = entry[p] /\ i # Null /\ entry[d] = Null /\ p # d
  BY <1>1, Zenon DEF Locals, Looking, Moving, Relies, Own, Sees, SharedTypes
<1>5. entry'[d] = i /\ \A q \in Paths : q # d => entry'[q] = entry[q]
  BY <1>1, <1>2, <1>4, Zenon DEF SharedTypes
<1>6. p \in Guarded(t) /\ d \in Guarded(t)
  BY <1>1, <1>4, Zenon DEF Guarded, Moving
<1>7. Changes(t)
  <2>1. Owner[d] = t
    <3>1. op[t] = "rename_to"
      BY <1>1, Zenon DEF Locals, Moving
    <3>2. Owner[p] = t /\ <<p, d>> \in Renames
      BY <1>1, <1>4, <3>1, Zenon DEF Relies, Own, Locals
    <3>3. Owner[<<p, d>>[1]] = Owner[<<p, d>>[2]]
      BY <3>2, NamesAssumption, Zenon
    <3> QED BY <3>2, <3>3
  <2> QED BY <1>5, <1>6, <2>1, Zenon DEF Changes
<1>8. \A j : j \notin {i, Null} => NamesOf(j)' = NamesOf(j)
  BY <1>4, <1>5, Zenon DEF NamesOf
<1>9. NamesOf(i)' # {} /\ NamesOf(i) # {}
  BY <1>4, <1>5, Zenon DEF NamesOf
<1>10. \A x \in alive \ Freed : \A j : j = inode[x].ino => (NamesOf(j)' = {} <=> NamesOf(j) = {})
  BY <1>8, <1>9, LiveNumber, Zenon
<1>11. ASSUME NEW u \in Threads, u # t, pc[u] = "install", NEW j, j = inode[obj[u]].ino
       PROVE  NamesOf(j)' = NamesOf(j)
  <2>1. j # i
    BY <1>4, <1>6, <1>11, MadeUnseen, Zenon
  <2>2. obj[u] \in alive \ Freed
    BY <1>11, MakerAlone, FreedReleased, Zenon
  <2>3. j # Null
    BY <1>11, <2>2, LiveNumber, Zenon
  <2> QED BY <1>8, <2>1, <2>3, Zenon
<1>12. Named'
  <2>1. ASSUME NEW q \in Paths, entry'[q] # Null PROVE \E x \in alive \ Released : inode[x].ino = entry'[q]
    <3>1. PICK r \in Paths : entry[r] = entry'[q]
      BY <1>4, <1>5, Zenon
    <3> QED BY <2>1, <3>1, Zenon DEF Life, Named
  <2>2. Released' = Released
    BY <1>2, Zenon DEF Released
  <2> QED BY <1>2, <2>1, <2>2, Zenon DEF Named
<1>13. Pairs'
  <2>1. ASSUME NEW q \in Paths, NEW r \in Paths, entry[q] # Null, entry[q] = entry[r], q # r
        PROVE  q \notin Guarded(t) /\ \E u \in Threads : pc'[u] = "remove" /\ {q, r} = {path'[u], dest'[u]}
    <3>1. PICK u \in Threads : pc[u] = "remove" /\ {q, r} = {path[u], dest[u]}
      BY <2>1, Zenon DEF Life, Pairs
    <3>2. u # t
      BY <1>1, <3>1, Zenon
    <3>3. q \in Guarded(u)
      BY <3>1, Zenon DEF Guarded, Moving
    <3>4. q \notin Guarded(t)
      BY <3>2, <3>3, GuardedApart, Zenon
    <3>5. pc'[u] = "remove" /\ path'[u] = path[u] /\ dest'[u] = dest[u]
      BY <1>3, <3>1, <3>2, Zenon DEF Only
    <3> QED BY <3>1, <3>4, <3>5, Zenon
  <2>2. \A q \in Paths : q \notin {p, d} => entry[q] # i
    BY <1>4, <1>6, <2>1, Zenon
  <2>3. ASSUME NEW q \in Paths, NEW r \in Paths, entry'[q] # Null, entry'[q] = entry'[r], q # r
        PROVE  \E u \in Threads : pc'[u] = "remove" /\ {q, r} = {path'[u], dest'[u]}
    <3>1. CASE q # d /\ r # d
      <4>1. entry[q] # Null /\ entry[q] = entry[r]
        BY <1>5, <2>3, <3>1, Zenon
      <4> QED BY <2>1, <2>3, <4>1, Zenon
    <3>2. CASE q = d
      <4>1. r = p
        BY <1>5, <2>2, <2>3, <3>2, Zenon
      <4> QED BY <1>3, <1>4, <3>2, <4>1, Zenon
    <3>3. CASE r = d
      <4>1. q = p
        BY <1>5, <2>2, <2>3, <3>3, Zenon
      <4> QED BY <1>3, <1>4, <3>3, <4>1, Zenon
    <3> QED BY <3>1, <3>2, <3>3, Zenon
  <2> QED BY <2>3, Zenon DEF Pairs
<1>14. Relies(t)'
  <2>1. Own(t)'
    BY <1>1, <1>2, <1>3, Zenon DEF Relies, Own, Moving
  <2>2. Sees(t)'
    BY <1>3, <1>4, <1>5, Zenon DEF Sees
  <2> QED BY <1>3, <2>1, <2>2, EarlyRelies, Zenon
<1> QED BY <1>1, <1>2, <1>3, <1>7, <1>10, <1>11, <1>12, <1>13, <1>14, EntryStep, Zenon

(* A rename removes the old name: the file has one again. *)
LEMMA RenameRemoveLife == ASSUME LInv, Life, NEW t \in Threads, RenameRemove(t) PROVE Life'
<1>1. SharedTypes /\ Locals(t) /\ Relies(t) /\ pc[t] = "remove"
  BY Zenon DEF LInv, Types, Life, RenameRemove
<1>2. /\ entry' = [entry EXCEPT ![path[t]] = Null] /\ Goto(t, "commit")
      /\ UNCHANGED <<iused, alive, inode, table, rlist, rcur, rdone, fd>>
      /\ UNCHANGED <<op, path, dest, want, found, obj>>
  BY Zenon DEF RenameRemove, inodes, release, regs
<1>3. /\ Only(t) /\ pc'[t] = "commit" /\ op'[t] = op[t] /\ path'[t] = path[t] /\ dest'[t] = dest[t]
      /\ want'[t] = want[t]
  BY <1>2, GotoOnly, Zenon
<1>4. PICK p \in Paths, d \in Paths, i \in Files :
        p = path[t] /\ d = dest[t] /\ i = entry[p] /\ i # Null /\ entry[d] = i /\ p # d
  BY <1>1, Zenon DEF Locals, Looking, Moving, Relies, Own, Sees, SharedTypes
<1>5. entry'[p] = Null /\ \A q \in Paths : q # p => entry'[q] = entry[q]
  BY <1>1, <1>2, <1>4, Zenon DEF SharedTypes
<1>6. p \in Guarded(t) /\ Changes(t)
  <2>1. p \in Guarded(t)
    BY <1>1, <1>4, Zenon DEF Guarded, Moving
  <2> QED BY <1>5, <2>1, Zenon DEF Changes
<1>8. \A j : j \notin {i, Null} => NamesOf(j)' = NamesOf(j)
  BY <1>4, <1>5, Zenon DEF NamesOf
<1>9. NamesOf(i)' # {} /\ NamesOf(i) # {}
  BY <1>4, <1>5, Zenon DEF NamesOf
<1>10. \A x \in alive \ Freed : \A j : j = inode[x].ino => (NamesOf(j)' = {} <=> NamesOf(j) = {})
  BY <1>8, <1>9, LiveNumber, Zenon
<1>11. ASSUME NEW u \in Threads, u # t, pc[u] = "install", NEW j, j = inode[obj[u]].ino
       PROVE  NamesOf(j)' = NamesOf(j)
  <2>1. j # i
    BY <1>4, <1>6, <1>11, MadeUnseen, Zenon
  <2>2. obj[u] \in alive \ Freed
    BY <1>11, MakerAlone, FreedReleased, Zenon
  <2>3. j # Null
    BY <1>11, <2>2, LiveNumber, Zenon
  <2> QED BY <1>8, <2>1, <2>3, Zenon
<1>12. Named'
  <2>1. ASSUME NEW q \in Paths, entry'[q] # Null PROVE \E x \in alive \ Released : inode[x].ino = entry'[q]
    <3>1. entry[q] = entry'[q]
      BY <1>5, <2>1, Zenon
    <3> QED BY <2>1, <3>1, Zenon DEF Life, Named
  <2>2. Released' = Released
    BY <1>2, Zenon DEF Released
  <2> QED BY <1>2, <2>1, <2>2, Zenon DEF Named
<1>13. Pairs'
  <2>1. ASSUME NEW q \in Paths, NEW r \in Paths, entry'[q] # Null, entry'[q] = entry'[r], q # r
        PROVE  \E u \in Threads : pc'[u] = "remove" /\ {q, r} = {path'[u], dest'[u]}
    <3>1. q # p /\ r # p /\ entry[q] # Null /\ entry[q] = entry[r]
      BY <1>5, <2>1, Zenon
    <3>2. PICK u \in Threads : pc[u] = "remove" /\ {q, r} = {path[u], dest[u]}
      BY <2>1, <3>1, Zenon DEF Life, Pairs
    <3>3. u # t
      BY <1>4, <3>1, <3>2, Zenon
    <3>4. pc'[u] = "remove" /\ path'[u] = path[u] /\ dest'[u] = dest[u]
      BY <1>3, <3>2, <3>3, Zenon DEF Only
    <3> QED BY <3>2, <3>4, Zenon
  <2> QED BY <2>1, Zenon DEF Pairs
<1>14. Relies(t)'
  <2>1. Own(t)' /\ Sees(t)'
    BY <1>1, <1>2, <1>3, Zenon DEF Relies, Own, Sees, Moving
  <2> QED BY <1>3, <2>1, EarlyRelies, Zenon
<1> QED BY <1>1, <1>2, <1>3, <1>6, <1>10, <1>11, <1>12, <1>13, <1>14, EntryStep, Zenon
=============================================================================
