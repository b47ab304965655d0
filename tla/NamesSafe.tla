----------------------------- MODULE NamesSafe ------------------------------
(***************************************************************************)
(* The life of inodes (NamesProofs) through the steps that change names,   *)
(* inodes or descriptors: open, creat, unlink, close, the two stores of a  *)
(* rename, and the release thread's.                                       *)
(***************************************************************************)
EXTENDS NamesProofs

-----------------------------------------------------------------------------
(* One of the counts of an inode_t goes down, and inode_release takes it   *)
(* if nothing refers to it any more.                                       *)
LEMMA Drop ==
  ASSUME Life, NEW o \in Settled, NEW gone \in BOOLEAN,
         rlist' = IF gone THEN <<o>> \o rlist ELSE rlist, Creating' = Creating,
         UNCHANGED <<iused, alive, table, rcur, rdone>>,
         \A x \in Objs : inode'[x].ino = inode[x].ino
  PROVE  /\ ReleaseOrder' /\ Numbers' /\ Tabled' /\ Freed' = Freed
         /\ \A x : x \in Released' <=> x \in Released \/ (gone /\ x = o)
         /\ \A x : x \in Settled' <=> x \in Settled /\ ~(gone /\ x = o)
<1>1. ReleaseOrder /\ Numbers /\ Tabled
  BY Zenon DEF Life
<1>2. o \in alive /\ o \in Objs /\ o \notin Range(rlist) /\ o # rcur
  <2>1. o \in alive /\ o \in Objs /\ o \notin Released
    BY <1>1, Zenon DEF ReleaseOrder, Settled
  <2>2. o # Null
    BY <2>1, NamesAssumption, Zenon
  <2> QED BY <2>1, <2>2, Zenon DEF Released
<1>3. /\ rlist' \in Seq(Objs) /\ Distinct(rlist')
      /\ \A x : x \in Range(rlist') <=> x \in Range(rlist) \/ (gone /\ x = o)
  <2>1. CASE gone
    <3>1. rlist \in Seq(Objs) /\ Distinct(rlist) /\ rlist' = <<o>> \o rlist
      BY <1>1, <2>1, Zenon DEF ReleaseOrder
    <3>2. /\ <<o>> \o rlist \in Seq(Objs) /\ Distinct(<<o>> \o rlist)
          /\ Range(<<o>> \o rlist) = {o} \union Range(rlist)
      BY <1>2, <3>1, Push, Zenon
    <3> QED BY <2>1, <3>1, <3>2, Zenon
  <2>2. CASE ~ gone
    BY <1>1, <2>2, Zenon DEF ReleaseOrder
  <2> QED BY <2>1, <2>2, Zenon
<1>4. \A x : x \in Released' <=> x \in Released \/ (gone /\ x = o)
  BY <1>3, Zenon DEF Released
<1>5. \A x : x \in Settled' <=> x \in Settled /\ ~(gone /\ x = o)
  BY <1>4, Zenon DEF Settled
<1>6. Freed' = Freed
  BY Zenon DEF Freed
<1>7. ReleaseOrder'
  <2>1. rcur' \notin Range(rlist')
    BY <1>1, <1>2, <1>3, Zenon DEF ReleaseOrder
  <2>2. Released' \subseteq alive'
    <3>1. Released \subseteq alive
      BY <1>1, Zenon DEF ReleaseOrder
    <3>2. alive' = alive
      OBVIOUS
    <3>3. \A x : x \in Released' => x \in Released \/ x = o
      BY <1>4, Zenon
    <3>4. \A x : x \in Released' => x \in alive
      BY <1>2, <3>1, <3>3, Zenon
    <3> QED BY <3>2, <3>4, Zenon
  <2> QED BY <1>1, <1>3, <2>1, <2>2, Zenon DEF ReleaseOrder
<1>8. \A x \in alive : inode'[x].ino = inode[x].ino
  BY <1>1, Zenon DEF ReleaseOrder
<1>9. Numbers'
  <2>1. \A x \in alive : inode'[x].ino \in Files
    BY <1>1, <1>8, Zenon DEF Numbers
  <2>2. \A x \in alive \ Freed : inode'[x].ino \in iused
    BY <1>1, <1>8, Zenon DEF Numbers
  <2>3. \A x, y \in alive \ Freed : inode'[x].ino = inode'[y].ino => x = y
    BY <1>1, <1>8, Zenon DEF Numbers
  <2> QED BY <1>6, <2>1, <2>2, <2>3, Zenon DEF Numbers
<1>10. Tabled'
  <2>1. \A x \in Settled : table[inode'[x].ino] = x
    BY <1>1, <1>8, Zenon DEF Tabled, Settled
  <2> QED BY <1>5, <2>1, Zenon DEF Tabled
<1> QED BY <1>4, <1>5, <1>6, <1>7, <1>9, <1>10, Zenon

(* slotfs_unlink removes the name, and the inode if nobody has it open. *)
LEMMA UnlinkLife == ASSUME Counting, LInv, Life, NEW t \in Threads, Unlink(t) PROVE Life'
<1>1. SharedTypes /\ Locals(t) /\ Relies(t) /\ pc[t] = "got" /\ op[t] = "unlink"
  BY Zenon DEF LInv, Types, Life, Unlink
<1>2. PICK i \in Files, w \in Paths : i = found[t] /\ w = want[t] /\ entry[w] = i
  BY <1>1, Zenon DEF Locals, Looking, Relies, Sees
<1>3. PICK o \in Settled : inode[o].ino = i
  BY <1>1, <1>2, Zenon DEF Relies, Gets
<1>4. table[found[t]] = o
  BY <1>2, <1>3, Zenon DEF Life, Tabled
<1>5. /\ entry' = [entry EXCEPT ![w] = Null]
      /\ inode' = [inode EXCEPT ![o] = [inode[o] EXCEPT !.link = @ - 1]]
      /\ rlist' = IF Gone([inode[o] EXCEPT !.link = @ - 1]) THEN <<o>> \o rlist ELSE rlist
      /\ Goto(t, "unlinked")
      /\ UNCHANGED <<iused, alive, table, rcur, rdone, fd>>
      /\ UNCHANGED <<op, path, dest, want, found, obj>>
  BY <1>2, <1>4, Zenon DEF Unlink, regs
<1>6. /\ Only(t) /\ pc'[t] = "unlinked" /\ op'[t] = "unlink"
  BY <1>1, <1>5, GotoOnly, Zenon
<1>7. \A u \in Threads : u # t => Same(u)
  BY <1>5, <1>6, ThreadsSame, Zenon
<1>8. entry'[w] = Null /\ \A q \in Paths : q # w => entry'[q] = entry[q]
  BY <1>1, <1>2, <1>5, Zenon DEF SharedTypes
<1>9. /\ alive \subseteq Objs /\ o \in Objs /\ o \in alive \ Released /\ o \in alive \ Freed
      /\ i # Null /\ o \notin Creating
  <2>1. alive \subseteq Objs /\ o \in alive \ Released /\ o \notin Creating
    BY Zenon DEF Settled, Life, ReleaseOrder
  <2>2. i # Null
    BY NamesAssumption, Zenon
  <2> QED BY <2>1, <2>2, FreedReleased, Zenon
<1>10. inode[o].link = 1
  <2>1. NamesOf(i) # {}
    BY <1>2, Zenon DEF NamesOf
  <2> QED BY <1>3, <1>9, <2>1, Zenon DEF Life, Links
<1>11. /\ \A x \in Objs : inode'[x].ino = inode[x].ino /\ inode'[x].ref = inode[x].ref
       /\ inode'[o].link = 0
       /\ \A x \in Objs : x # o => inode'[x].link = inode[x].link
  BY <1>1, <1>5, <1>9, <1>10 DEF SharedTypes, InodeT
<1>12. PICK gone \in BOOLEAN : gone <=> inode[o].ref = 0
  BY Zenon
<1>13. rlist' = IF gone THEN <<o>> \o rlist ELSE rlist
  <2>1. Gone([inode[o] EXCEPT !.link = @ - 1]) <=> inode[o].ref = 0
    BY <1>1, <1>9, <1>10 DEF SharedTypes, InodeT, Gone
  <2> QED BY <1>5, <1>12, <2>1, Zenon
<1>14. Creating' = Creating /\ \A x : Users(x)' = Users(x)
  BY <1>1, <1>5, <1>6, MakersSame, UsersSame, Zenon
<1>15. /\ ReleaseOrder' /\ Numbers' /\ Tabled' /\ Freed' = Freed
       /\ \A x : x \in Released' <=> x \in Released \/ (gone /\ x = o)
       /\ \A x : x \in Settled' <=> x \in Settled /\ ~(gone /\ x = o)
  BY <1>5, <1>11, <1>13, <1>14, Drop, Zenon
<1>16. w \in Guarded(t)
  BY <1>1, <1>2, Zenon DEF Guarded
<1>17. \A q \in Paths : entry[q] = i => q = w
  <2> SUFFICES ASSUME NEW q \in Paths, entry[q] = i, q # w PROVE FALSE
    OBVIOUS
  <2>1. PICK u \in Threads : pc[u] = "remove" /\ {w, q} = {path[u], dest[u]}
    <3>1. entry[w] # Null /\ entry[w] = entry[q]
      BY <1>2, <1>9, Zenon
    <3> QED BY <3>1, Zenon DEF Life, Pairs
  <2>2. u # t /\ w \in Guarded(u)
    BY <1>1, <2>1, Zenon DEF Guarded, Moving
  <2> QED BY <1>16, <2>2, GuardedApart, Zenon
<1>18. NamesOf(i)' = {} /\ \A j : j \notin {i, Null} => NamesOf(j)' = NamesOf(j)
  BY <1>2, <1>8, <1>9, <1>17, Zenon DEF NamesOf
<1>19. Refs'
  BY <1>5, <1>9, <1>11, <1>14, Zenon DEF Life, Refs
<1>20. Links'
  <2>1. Links
    BY Zenon DEF Life
  <2>2. \A x \in alive : inode'[x].link \in {0, 1}
    BY <1>9, <1>11, <2>1, Zenon DEF Links
  <2>3. ASSUME NEW x \in alive \ Freed, NEW j, j = inode'[x].ino
        PROVE  inode'[x].link = 0 <=> NamesOf(j)' = {}
    <3>1. CASE x = o
      BY <1>3, <1>9, <1>11, <1>18, <2>3, <3>1, Zenon
    <3>2. CASE x # o
      <4>1. x \in Objs /\ j = inode[x].ino
        BY <1>9, <1>11, <2>3, Zenon
      <4>2. j # i /\ j # Null
        BY <1>3, <1>9, <3>2, <4>1, LiveNumber, Zenon
      <4>3. inode[x].link = 0 <=> NamesOf(j) = {}
        BY <2>1, <4>1, Zenon DEF Links
      <4> QED BY <1>11, <1>18, <3>2, <4>1, <4>2, <4>3, Zenon
    <3> QED BY <3>1, <3>2, Zenon
  <2> QED BY <1>5, <1>15, <2>2, <2>3, Zenon DEF Links
<1>21. Dead'
  <2>1. ASSUME NEW x \in alive PROVE x \in Released' <=> inode'[x].ref = 0 /\ inode'[x].link = 0
    <3>1. CASE x = o
      BY <1>9, <1>11, <1>12, <1>15, <3>1, Zenon
    <3>2. CASE x # o
      BY <1>9, <1>11, <1>15, <3>2, Zenon DEF Life, Dead
    <3> QED BY <3>1, <3>2, Zenon
  <2> QED BY <1>5, <2>1, Zenon DEF Dead
<1>22. Named'
  <2>1. ASSUME NEW q \in Paths, entry'[q] # Null PROVE \E x \in alive' \ Released' : inode'[x].ino = entry'[q]
    <3>1. entry[q] = entry'[q] /\ entry[q] # i
      BY <1>8, <1>17, <2>1, Zenon
    <3>2. PICK x \in alive \ Released : inode[x].ino = entry[q]
      BY <2>1, <3>1, Zenon DEF Life, Named
    <3>3. x # o /\ x \in Objs
      BY <1>3, <1>9, <3>1, <3>2, Zenon
    <3> QED BY <1>5, <1>11, <1>15, <3>1, <3>2, <3>3, Zenon
  <2> QED BY <2>1, Zenon DEF Named
<1>23. Pairs'
  BY <1>1, <1>6, <1>8, PairsKept, Zenon DEF Life
<1>24. DescriptorsLive'
  <2>1. gone => \A u \in Threads : fd[u] # o
    <3>1. Users(o) \in SUBSET Threads
      BY Zenon DEF Users
    <3>2. gone => Cardinality(Users(o)) = 0
      BY <1>9, <1>12, Zenon DEF Life, Refs
    <3>3. gone => Users(o) = {}
      BY <3>1, <3>2, Zenon DEF Counting
    <3> QED BY <3>3, Zenon DEF Users
  <2>2. ASSUME NEW u \in Threads, fd[u] # Null PROVE fd[u] \in alive \ Released'
    <3>1. fd[u] \in alive /\ fd[u] \notin Released
      BY <2>2, Zenon DEF Life, DescriptorsLive
    <3>2. ~(gone /\ fd[u] = o)
      BY <2>1, Zenon
    <3> QED BY <1>15, <3>1, <3>2, Zenon
  <2> QED BY <1>5, <2>2, Zenon DEF DescriptorsLive
<1>25. ASSUME NEW u \in Threads, u # t PROVE Relies(u)'
  <2>1. Same(u) /\ Relies(u)
    BY <1>7, <1>25, Zenon DEF Life
  <2>2. Own(u)' /\ Sees(u)'
    <3>1. Changes(t)
      BY <1>8, <1>16, Zenon DEF Changes
    <3> QED BY <1>25, <2>1, <3>1, OwnKept, SeesKept, Zenon DEF Relies
  <2>3. Gets(u)'
    <3>1. Gets(u) /\ Locals(u)
      BY <2>1, Zenon DEF Relies, LInv
    <3>2. ASSUME pc[u] = "got"
          PROVE  /\ NamesOf(found[u])' # {}
                 /\ \A x \in Settled : inode[x].ino = found[u] => x \in Settled' /\ inode'[x].ino = found[u]
      <4>1. PICK j \in Files : j = found[u] /\ j = found'[u]
        BY <2>1, <3>1, <3>2, Zenon DEF Locals, Same
      <4>2. j \in Holds(u) /\ i \in Holds(t)
        BY <1>1, <1>2, <3>2, <4>1, Zenon DEF Holds, Moving
      <4>3. j # i
        BY <1>25, <4>2, HeldApart, Zenon DEF Inos
      <4>4. j # Null
        BY <4>1, NamesAssumption, Zenon
      <4>5. NamesOf(j)' # {}
        BY <1>18, <3>1, <3>2, <4>1, <4>3, <4>4, Zenon DEF Gets
      <4>6. \A x \in Settled : x \in Objs
        BY <1>9, Zenon DEF Settled
      <4> QED BY <1>3, <1>11, <1>15, <4>1, <4>3, <4>5, <4>6, Zenon
    <3> QED BY <2>1, <3>1, <3>2, GetsKept, Zenon
  <2>4. Makes(u)'
    <3>1. ASSUME pc[u] = "install", NEW x, x = obj[u]
          PROVE  /\ x \in alive' \ Released' /\ inode'[x].ino = inode[x].ino /\ Users(x)' = Users(x)
                 /\ \A j : j = inode[x].ino => NamesOf(j)' = NamesOf(j)
      <4>1. x \in Creating /\ x \in alive \ Released /\ x # o /\ x \in Objs
        BY <1>9, <3>1, MakerAlone, Zenon
      <4>2. inode[x].ino # i /\ inode[x].ino # Null
        BY <1>3, <1>9, <4>1, FreedReleased, LiveNumber, Zenon
      <4> QED BY <1>5, <1>11, <1>14, <1>15, <1>18, <4>1, <4>2, Zenon
    <3> QED BY <2>1, <3>1, MakesKept, Zenon
  <2>5. Closes(u)'
    <3>1. pc[u] = "close" => fd[u] \in Objs
      BY <1>9, <2>1, Zenon DEF Relies, Own, Life, DescriptorsLive
    <3>2. \A x \in Settled : x \in Objs
      BY <1>9, Zenon DEF Settled
    <3> QED BY <1>11, <1>15, <2>1, <3>1, <3>2, ClosesKept, Zenon DEF Relies
  <2> QED BY <2>2, <2>3, <2>4, <2>5, Zenon DEF Relies
<1>26. Relies(t)'
  <2>1. Own(t)' /\ Sees(t)'
    BY <1>6, Zenon DEF Own, Sees, Moving
  <2> QED BY <1>6, <2>1, EarlyRelies, Zenon
<1>27. \A u \in Threads : Relies(u)'
  BY <1>25, <1>26, Zenon
<1> QED BY <1>15, <1>19, <1>20, <1>21, <1>22, <1>23, <1>24, <1>27, Zenon DEF Life

(* slotfs_close: the reference is dropped. *)
LEMMA CloseLife == ASSUME Counting, LInv, Life, NEW t \in Threads, Close(t) PROVE Life'
<1>1. SharedTypes /\ LocalTypes /\ Locals(t) /\ Relies(t) /\ pc[t] = "close"
  BY Zenon DEF LInv, Types, Life, Close
<1>2. PICK o \in alive \ Released : o = fd[t] /\ inode[o].ino = found[t]
  BY <1>1, Zenon DEF Relies, Own, Closes, Life, DescriptorsLive
<1>3. PICK i : i = inode[o].ino
  OBVIOUS
<1>4. o \in Settled
  <2>1. ASSUME NEW u \in Threads, pc[u] = "install", obj[u] = o PROVE FALSE
    <3>1. t \in Users(o) /\ Users(o) = {u}
      BY <1>2, <2>1, MakerAlone, Zenon DEF Users
    <3> QED BY <1>1, <2>1, <3>1, Zenon
  <2> QED BY <1>2, <2>1, Zenon DEF Settled, Creating
<1>5. /\ alive \subseteq Objs /\ o \in Objs /\ o \in alive \ Freed /\ o # Null
  <2>1. alive \subseteq Objs
    BY Zenon DEF Life, ReleaseOrder
  <2>2. o # Null
    BY <1>2, <2>1, NamesAssumption, Zenon
  <2> QED BY <1>2, <2>1, <2>2, FreedReleased, Zenon
<1>6. PICK gone \in BOOLEAN : gone <=> Gone([inode[o] EXCEPT !.ref = @ - 1])
  BY Zenon
<1>7. /\ inode' = [inode EXCEPT ![o] = [inode[o] EXCEPT !.ref = @ - 1]]
      /\ fd' = [fd EXCEPT ![t] = Null]
      /\ rlist' = IF gone THEN <<o>> \o rlist ELSE rlist
      /\ UNCHANGED <<entry, iused, alive, table, rcur, rdone>>
  BY <1>2, <1>6, Zenon DEF Close
<1>8. \/ /\ gone /\ Only(t) /\ pc'[t] = "closed" /\ op'[t] = op[t] /\ found'[t] = found[t]
      \/ ~ gone /\ Only(t) /\ pc'[t] = "idle" /\ op'[t] = "none"
  <2>1. CASE gone
    <3>1. Goto(t, "closed") /\ UNCHANGED <<op, path, dest, want, found, obj>>
      BY <1>2, <1>6, <2>1, Zenon DEF Close, regs
    <3> QED BY <2>1, <3>1, GotoOnly, Zenon
  <2>2. CASE ~ gone
    <3>1. Return(t)
      BY <1>2, <1>6, <2>2, Zenon DEF Close
    <3> QED BY <2>2, <3>1, ReturnOnly, Zenon
  <2> QED BY <2>1, <2>2, Zenon
<1>9. Only(t) /\ pc'[t] # "install" /\ pc[t] # "install" /\ pc[t] # "remove"
  BY <1>1, <1>8, Zenon
<1>10. fd'[t] = Null /\ \A u \in Threads : u # t => Same(u)
  BY <1>1, <1>7, <1>9, Zenon DEF SharedTypes, Only, Same
<1>11. /\ \A x \in Objs : inode'[x].ino = inode[x].ino /\ inode'[x].link = inode[x].link
       /\ inode'[o].ref = inode[o].ref - 1
       /\ \A x \in Objs : x # o => inode'[x].ref = inode[x].ref
  BY <1>1, <1>5, <1>7 DEF SharedTypes, InodeT
<1>12. gone <=> inode'[o].ref = 0 /\ inode[o].link = 0
  BY <1>1, <1>5, <1>6, <1>11 DEF SharedTypes, InodeT, Gone
<1>13. Creating' = Creating /\ \A j : NamesOf(j)' = NamesOf(j)
  <2>1. Creating' = Creating
    BY <1>9, MakersSame, Zenon
  <2> QED BY <1>7, <2>1, Zenon DEF NamesOf
<1>14. /\ ReleaseOrder' /\ Numbers' /\ Tabled' /\ Freed' = Freed
       /\ \A x : x \in Released' <=> x \in Released \/ (gone /\ x = o)
       /\ \A x : x \in Settled' <=> x \in Settled /\ ~(gone /\ x = o)
  BY <1>4, <1>7, <1>11, <1>13, Drop, Zenon
<1>15. t \in Users(o) /\ Users(o)' = Users(o) \ {t} /\ Users(o) \in SUBSET Threads
  <2>1. t \in Users(o)
    BY <1>2, Zenon DEF Users
  <2>2. ASSUME NEW u \in Threads PROVE u \in Users(o)' <=> u \in Users(o) /\ u # t
    <3>1. CASE u = t
      BY <1>5, <1>9, <1>10, <3>1, Zenon DEF Users
    <3>2. CASE u # t
      BY <1>10, <3>2, Zenon DEF Users, Same
    <3> QED BY <3>1, <3>2, Zenon
  <2>3. \A u : u \in Users(o)' \/ u \in Users(o) => u \in Threads
    BY Zenon DEF Users
  <2> QED BY <2>1, <2>2, <2>3, Zenon
<1>16. ASSUME NEW x \in alive, x # o PROVE Users(x)' = Users(x)
  <2>1. x # Null
    BY <1>5, NamesAssumption, Zenon
  <2>2. \A u \in Threads : (fd'[u] = x) <=> (fd[u] = x)
    BY <1>2, <1>10, <1>16, <2>1, Zenon DEF Same
  <2> QED BY <1>9, <2>2, UsersSame, Zenon
<1>17. inode'[o].ref = Cardinality(Users(o)')
  <2>1. Cardinality(Users(o) \ {t}) = Cardinality(Users(o)) - 1
    BY <1>15, Zenon DEF Counting
  <2>2. inode[o].ref = Cardinality(Users(o))
    BY <1>2, Zenon DEF Life, Refs
  <2> QED BY <1>11, <1>15, <2>1, <2>2, Zenon
<1>18. Refs'
  <2>1. ASSUME NEW x \in alive, x # o PROVE inode'[x].ref = Cardinality(Users(x)')
    BY <1>5, <1>11, <1>16, <2>1, Zenon DEF Life, Refs
  <2> QED BY <1>7, <1>17, <2>1, Zenon DEF Refs
<1>19. Links'
  <2>1. Links
    BY Zenon DEF Life
  <2>2. \A x \in alive : inode'[x].link = inode[x].link /\ inode'[x].ino = inode[x].ino
    BY <1>5, <1>11, Zenon
  <2> QED BY <1>7, <1>13, <1>14, <2>1, <2>2, LinksKept, Zenon
<1>20. Dead'
  <2>1. ASSUME NEW x \in alive PROVE x \in Released' <=> inode'[x].ref = 0 /\ inode'[x].link = 0
    <3>1. CASE x = o
      BY <1>2, <1>5, <1>11, <1>12, <1>14, <3>1, Zenon
    <3>2. CASE x # o
      BY <1>5, <1>11, <1>14, <3>2, Zenon DEF Life, Dead
    <3> QED BY <3>1, <3>2, Zenon
  <2> QED BY <1>7, <2>1, Zenon DEF Dead
<1>21. gone => NamesOf(i) = {}
  BY <1>3, <1>5, <1>12, Zenon DEF Life, Links
<1>22. Named'
  <2>1. ASSUME NEW q \in Paths, entry[q] # Null PROVE \E x \in alive' \ Released' : inode'[x].ino = entry[q]
    <3>1. PICK x \in alive \ Released : inode[x].ino = entry[q]
      BY <2>1, Zenon DEF Life, Named
    <3>2. ~(gone /\ x = o)
      BY <1>3, <1>21, <3>1, Zenon DEF NamesOf
    <3> QED BY <1>5, <1>7, <1>11, <1>14, <3>1, <3>2, Zenon
  <2> QED BY <1>7, <2>1, Zenon DEF Named
<1>23. Pairs'
  BY <1>7, <1>9, PairsKept, Zenon DEF Life
<1>24. DescriptorsLive'
  <2>1. gone => Users(o)' = {}
    <3>1. Users(o) \ {t} \in SUBSET Threads
      BY <1>15, Zenon
    <3> QED BY <1>12, <1>15, <1>17, <3>1, Zenon DEF Counting
  <2>2. ASSUME NEW u \in Threads, fd'[u] # Null PROVE fd'[u] \in alive \ Released'
    <3>1. u # t /\ fd'[u] = fd[u]
      BY <1>10, <2>2, Zenon DEF Same
    <3>2. fd[u] \in alive /\ fd[u] \notin Released
      BY <2>2, <3>1, Zenon DEF Life, DescriptorsLive
    <3>3. ~(gone /\ fd[u] = o)
      BY <2>1, <3>1, Zenon DEF Users
    <3> QED BY <1>14, <3>1, <3>2, <3>3, Zenon
  <2> QED BY <1>7, <2>2, Zenon DEF DescriptorsLive
<1>25. ASSUME NEW u \in Threads, u # t PROVE Relies(u)'
  <2>1. Same(u) /\ Relies(u)
    BY <1>10, <1>25, Zenon DEF Life
  <2>2. Own(u)' /\ Sees(u)'
    BY <1>7, <2>1, Zenon DEF Relies, Own, Sees, Same
  <2>3. Gets(u)'
    <3>1. Gets(u)
      BY <2>1, Zenon DEF Relies
    <3>2. ASSUME pc[u] = "got"
          PROVE  /\ NamesOf(found[u])' # {}
                 /\ \A x \in Settled : inode[x].ino = found[u] => x \in Settled' /\ inode'[x].ino = found[u]
      <4>1. PICK j : j = found[u] /\ j = found'[u]
        BY <2>1, Zenon DEF Same
      <4>2. NamesOf(j) # {} /\ NamesOf(j)' # {}
        BY <1>13, <3>1, <3>2, <4>1, Zenon DEF Gets
      <4>3. gone => j # i
        BY <1>21, <4>2, Zenon
      <4>4. \A x \in Settled : x \in Objs
        BY <1>5, Zenon DEF Settled
      <4> QED BY <1>3, <1>11, <1>14, <4>1, <4>2, <4>3, <4>4, Zenon
    <3> QED BY <2>1, <3>1, <3>2, GetsKept, Zenon
  <2>4. Makes(u)'
    <3>1. ASSUME pc[u] = "install", NEW x, x = obj[u]
          PROVE  /\ x \in alive' \ Released' /\ inode'[x].ino = inode[x].ino /\ Users(x)' = Users(x)
                 /\ \A j : j = inode[x].ino => NamesOf(j)' = NamesOf(j)
      <4>1. x \in Creating /\ x \in alive \ Released /\ x # o /\ x \in Objs
        BY <1>4, <1>5, <3>1, MakerAlone, Zenon DEF Settled
      <4> QED BY <1>7, <1>11, <1>13, <1>14, <1>16, <4>1, Zenon
    <3> QED BY <2>1, <3>1, MakesKept, Zenon
  <2>5. Closes(u)'
    <3>1. pc[u] = "close" => fd[u] \in Objs
      BY <1>5, <2>1, Zenon DEF Relies, Own, Life, DescriptorsLive
    <3>2. \A x \in Settled : x \in Objs
      BY <1>5, Zenon DEF Settled
    <3> QED BY <1>11, <1>14, <2>1, <3>1, <3>2, ClosesKept, Zenon DEF Relies
  <2> QED BY <2>2, <2>3, <2>4, <2>5, Zenon DEF Relies
<1>26. Relies(t)'
  <2>1. CASE ~ gone
    BY <1>8, <2>1, IdleRelies, Zenon
  <2>2. CASE gone
    <3>1. pc'[t] = "closed" /\ op'[t] = "none" /\ found'[t] = i
      BY <1>1, <1>2, <1>3, <1>8, <2>2, Zenon DEF Locals
    <3>2. Own(t)' /\ Sees(t)'
      BY <3>1, Zenon DEF Own, Sees, Moving
    <3>3. Gets(t)' /\ Makes(t)'
      BY <3>1, Zenon DEF Gets, Makes
    <3>4. ASSUME NEW x \in Settled' PROVE inode'[x].ino # i
      <4>1. x \in Settled /\ x # o
        BY <1>14, <2>2, <3>4, Zenon
      <4>2. x \in alive \ Freed /\ x \in Objs
        BY <1>5, <4>1, FreedReleased, Zenon DEF Settled
      <4>3. inode[x].ino # i
        BY <1>3, <1>5, <4>1, <4>2, LiveNumber, Zenon
      <4> QED BY <1>11, <4>2, <4>3, Zenon
    <3>5. Closes(t)'
      BY <3>1, <3>4, Zenon DEF Closes
    <3> QED BY <3>2, <3>3, <3>5, Zenon DEF Relies
  <2> QED BY <2>1, <2>2, Zenon
<1>27. \A u \in Threads : Relies(u)'
  BY <1>25, <1>26, Zenon
<1> QED BY <1>14, <1>18, <1>19, <1>20, <1>22, <1>23, <1>24, <1>27, Zenon DEF Life

(* The creator puts the inode_t into the table and gets its descriptor. *)
LEMMA InstallLife == ASSUME LInv, Life, NEW t \in Threads, Install(t) PROVE Life'
<1>1. SharedTypes /\ LocalTypes /\ Relies(t) /\ pc[t] = "install"
  BY Zenon DEF LInv, Types, Life, Install
<1>2. PICK o : o = obj[t]
  OBVIOUS
<1>3. PICK i : i = inode[o].ino
  OBVIOUS
<1>4. /\ Free(i) /\ Return(t)
      /\ table' = [table EXCEPT ![i] = o]
      /\ fd' = [fd EXCEPT ![t] = o]
      /\ UNCHANGED <<entry, iused, alive, inode, rlist, rcur, rdone>>
  BY <1>2, <1>3, Zenon DEF Install, release
<1>5. Only(t) /\ pc'[t] = "idle" /\ op'[t] = "none"
  BY <1>4, ReturnOnly, Zenon
<1>6. /\ o \in Creating /\ o \in alive \ Released /\ Users(o) = {t} /\ o \in alive \ Freed
      /\ i \in Files /\ i # Null /\ \A y \in alive \ Freed : inode[y].ino = i => y = o
  BY <1>1, <1>2, <1>3, MakerAlone, LiveNumber, FreedReleased, Zenon
<1>7. /\ fd'[t] = o /\ fd[t] = Null
      /\ \A u \in Threads : u # t => Same(u)
  BY <1>1, <1>4, <1>5, Zenon DEF SharedTypes, Only, Same, Relies, Own
<1>8. table'[i] = o /\ \A j \in Files : j # i => table'[j] = table[j]
  BY <1>1, <1>4, <1>6, Zenon DEF SharedTypes
<1>9. /\ Released' = Released /\ Freed' = Freed /\ \A j : NamesOf(j)' = NamesOf(j)
  BY <1>4, Zenon DEF Released, Freed, NamesOf
<1>10. \A x : x \in Creating' <=> x \in Creating /\ x # o
  <2>1. \A u \in Threads : pc'[u] = "install" <=> pc[u] = "install" /\ u # t
    BY <1>5, Zenon DEF Only
  <2>2. \A u \in Threads : u # t => obj'[u] = obj[u]
    BY <1>5, Zenon DEF Only
  <2>3. \A u \in Threads : pc[u] = "install" /\ obj[u] = o => u = t
    BY <1>6, Zenon DEF Users
  <2>4. ASSUME NEW x \in Creating' PROVE x \in Creating /\ x # o
    <3>1. PICK u \in Threads : pc'[u] = "install" /\ x = obj'[u]
      BY <2>4, Zenon DEF Creating
    <3>2. pc[u] = "install" /\ u # t /\ x = obj[u]
      BY <2>1, <2>2, <3>1, Zenon
    <3> QED BY <2>3, <3>2, Zenon DEF Creating
  <2>5. ASSUME NEW x \in Creating, x # o PROVE x \in Creating'
    <3>1. PICK u \in Threads : pc[u] = "install" /\ x = obj[u]
      BY <2>5, Zenon DEF Creating
    <3>2. u # t /\ pc'[u] = "install" /\ x = obj'[u]
      BY <1>2, <2>1, <2>2, <2>5, <3>1, Zenon
    <3> QED BY <3>2, Zenon DEF Creating
  <2> QED BY <2>4, <2>5, Zenon
<1>11. \A x : x \in Settled' <=> x \in Settled \/ x = o
  BY <1>4, <1>6, <1>9, <1>10, Zenon DEF Settled
<1>12. ASSUME NEW x \in alive PROVE Users(x)' = Users(x)
  <2>1. x # Null
    BY NamesAssumption, Zenon DEF Life, ReleaseOrder
  <2>2. ASSUME NEW u \in Threads PROVE u \in Users(x)' <=> u \in Users(x)
    <3>1. CASE u = t
      BY <1>1, <1>2, <1>5, <1>7, <2>1, <3>1, Zenon DEF Users
    <3>2. CASE u # t
      BY <1>7, <3>2, Zenon DEF Users, Same
    <3> QED BY <3>1, <3>2, Zenon
  <2>3. \A u \in Users(x) \union Users(x)' : u \in Threads
    BY Zenon DEF Users
  <2> QED BY <2>2, <2>3, Zenon
<1>13. ReleaseOrder' /\ Numbers' /\ Dead' /\ Named'
  BY <1>4, <1>9, Zenon DEF Life, ReleaseOrder, Numbers, Dead, Named
<1>14. Links' /\ Refs'
  <2>1. Links'
    BY <1>4, <1>9, LinksKept, Zenon DEF Life
  <2>2. Refs'
    BY <1>4, <1>12, Zenon DEF Life, Refs
  <2> QED BY <2>1, <2>2, Zenon
<1>15. Tabled'
  <2>1. ASSUME NEW x \in Settled' PROVE table'[inode'[x].ino] = x
    <3>1. CASE x = o
      BY <1>3, <1>4, <1>8, <3>1, Zenon
    <3>2. CASE x # o
      <4>1. x \in Settled /\ x \in alive \ Freed
        BY <1>11, <2>1, <3>2, FreedReleased, Zenon DEF Settled
      <4>2. inode[x].ino \in Files /\ inode[x].ino # i
        BY <1>6, <3>2, <4>1, LiveNumber, Zenon
      <4>3. table[inode[x].ino] = x
        BY <4>1, Zenon DEF Life, Tabled
      <4> QED BY <1>4, <1>8, <4>2, <4>3, Zenon
    <3> QED BY <3>1, <3>2, Zenon
  <2> QED BY <2>1, Zenon DEF Tabled
<1>16. Pairs'
  BY <1>1, <1>4, <1>5, PairsKept, Zenon DEF Life
<1>17. DescriptorsLive'
  BY <1>4, <1>6, <1>7, <1>9, Zenon DEF Life, DescriptorsLive, Same
<1>18. ASSUME NEW u \in Threads, u # t PROVE Relies(u)'
  <2>1. Same(u) /\ Relies(u)
    BY <1>7, <1>18, Zenon DEF Life
  <2>2. Own(u)' /\ Sees(u)'
    BY <1>4, <2>1, Zenon DEF Relies, Own, Sees, Same
  <2>3. Gets(u)'
    <3>1. Gets(u)
      BY <2>1, Zenon DEF Relies
    <3>2. pc[u] = "got" => /\ NamesOf(found[u])' # {}
                           /\ \A x \in Settled : inode[x].ino = found[u] =>
                                x \in Settled' /\ inode'[x].ino = found[u]
      <4>1. PICK j : j = found[u] /\ j = found'[u]
        BY <2>1, Zenon DEF Same
      <4>2. pc[u] = "got" => NamesOf(j)' # {}
        BY <1>9, <3>1, <4>1, Zenon DEF Gets
      <4> QED BY <1>4, <1>11, <4>1, <4>2, Zenon
    <3> QED BY <2>1, <3>1, <3>2, GetsKept, Zenon
  <2>4. Makes(u)'
    <3>1. ASSUME pc[u] = "install", NEW x, x = obj[u]
          PROVE  /\ x \in alive' \ Released' /\ inode'[x].ino = inode[x].ino /\ Users(x)' = Users(x)
                 /\ \A j : j = inode[x].ino => NamesOf(j)' = NamesOf(j)
      <4>1. x \in alive \ Released
        BY <3>1, MakerAlone, Zenon
      <4> QED BY <1>4, <1>9, <1>12, <4>1, Zenon
    <3> QED BY <2>1, <3>1, MakesKept, Zenon
  <2>5. pc[u] = "closed" => found[u] # i
    <3>1. ASSUME pc[u] = "closed", found[u] = i PROVE FALSE
      <4>1. i \in Holds(u)
        BY <3>1, Zenon DEF Holds, Moving
      <4>2. i \in Inos /\ ilock[i] = Null
        BY <1>4, <1>6, Zenon DEF Inos, Free
      <4>3. ilock[i] = u
        BY <4>1, <4>2, Zenon DEF LInv, Holding
      <4> QED BY <4>2, <4>3, NullNoThread, Zenon
    <3> QED BY <3>1, Zenon
  <2>6. Closes(u)'
    BY <1>3, <1>4, <1>11, <2>1, <2>5, ClosesKept, Zenon DEF Relies
  <2> QED BY <2>2, <2>3, <2>4, <2>6, Zenon DEF Relies
<1>19. \A u \in Threads : Relies(u)'
  BY <1>5, <1>18, IdleRelies, Zenon
<1> QED BY <1>13, <1>14, <1>15, <1>16, <1>17, <1>19, Zenon DEF Life

(* The last close clears the table's pointer to what it has released. *)
LEMMA CloseDoneLife == ASSUME LInv, Life, NEW t \in Threads, CloseDone(t) PROVE Life'
<1>1. /\ pc[t] = "closed" /\ Return(t) /\ table' = [table EXCEPT ![found[t]] = Null]
      /\ UNCHANGED <<entry, iused, alive, inode, rlist, rcur, rdone, fd>>
  BY Zenon DEF CloseDone, release
<1>2. Only(t) /\ pc'[t] = "idle" /\ op'[t] = "none"
  BY <1>1, ReturnOnly, Zenon
<1>3. Released' = Released /\ Freed' = Freed /\ Creating' = Creating /\ \A j : NamesOf(j)' = NamesOf(j)
  <2>1. Creating' = Creating
    BY <1>1, <1>2, MakersSame, Zenon
  <2> QED BY <1>1, <2>1, Zenon DEF Released, Freed, NamesOf
<1>4. Settled' = Settled
  BY <1>1, <1>3, Zenon DEF Settled
<1>5. \A o : Users(o)' = Users(o)
  BY <1>1, <1>2, UsersSame, Zenon
<1>6. ReleaseOrder' /\ Numbers' /\ Dead' /\ Named' /\ DescriptorsLive'
  BY <1>1, <1>3, Zenon DEF Life, ReleaseOrder, Numbers, Dead, Named, DescriptorsLive
<1>7. Links' /\ Refs'
  <2>1. Links'
    BY <1>1, <1>3, LinksKept, Zenon DEF Life
  <2>2. Refs'
    BY <1>1, <1>5, Zenon DEF Life, Refs
  <2> QED BY <2>1, <2>2, Zenon
<1>8. Tabled'
  <2>1. ASSUME NEW x \in Settled PROVE table'[inode[x].ino] = x
    <3>1. x \in alive \ Freed /\ inode[x].ino # found[t]
      BY <1>1, FreedReleased, Zenon DEF Life, Relies, Closes, Settled
    <3>2. inode[x].ino \in Files /\ table[inode[x].ino] = x
      BY <3>1, LiveNumber, Zenon DEF Life, Tabled
    <3>3. table \in [Files -> Objs \union {Null}]
      BY Zenon DEF LInv, Types, SharedTypes
    <3> QED BY <1>1, <3>1, <3>2, <3>3, Zenon
  <2> QED BY <1>1, <1>4, <2>1, Zenon DEF Tabled
<1>9. Pairs'
  BY <1>1, <1>2, PairsKept, Zenon DEF Life
<1>10. ASSUME NEW u \in Threads, u # t PROVE Relies(u)'
  <2>1. Same(u) /\ Relies(u)
    BY <1>1, <1>2, <1>10, ThreadsSame, Zenon DEF Life
  <2>2. Own(u)' /\ Sees(u)' /\ Closes(u)'
    BY <1>1, <1>4, <2>1, Zenon DEF Relies, Own, Sees, Closes, Same
  <2>3. Gets(u)'
    BY <1>1, <1>3, <1>4, <2>1, Zenon DEF Relies, Gets, Same
  <2>4. Makes(u)'
    BY <1>1, <1>3, <1>5, <2>1, Zenon DEF Relies, Makes, Same
  <2> QED BY <2>2, <2>3, <2>4, Zenon DEF Relies
<1>11. \A u \in Threads : Relies(u)'
  BY <1>2, <1>10, IdleRelies, Zenon
<1> QED BY <1>6, <1>7, <1>8, <1>9, <1>11, Zenon DEF Life
-----------------------------------------------------------------------------
(* The release thread works on what nothing refers to. *)
LEMMA ReleaseStep ==
  ASSUME LInv, Life, UNCHANGED <<entry, table, fd, pc, op, path, dest, want, found, obj>>,
         ReleaseOrder', Numbers',
         \A x \in alive' : x \in alive /\ inode'[x] = inode[x] /\ (x \in Released' <=> x \in Released),
         \A x \in alive \ Released : x \in alive',
         \A x \in alive' \ Freed' : x \in alive \ Freed
  PROVE  Life'
<1>1. Creating' = Creating /\ \A x : Users(x)' = Users(x) /\ NamesOf(x)' = NamesOf(x)
  BY Zenon DEF Creating, Users, NamesOf
<1>2. \A x : x \in Settled' <=> x \in Settled
  BY <1>1, Zenon DEF Settled
<1>3. Tabled'
  <2>1. \A x \in Settled : inode'[x] = inode[x]
    BY Zenon DEF Settled
  <2> QED BY <1>2, <2>1, Zenon DEF Life, Tabled
<1>4. Refs' /\ Links' /\ Dead'
  <2>1. Refs'
    BY <1>1, Zenon DEF Life, Refs
  <2>2. Links'
    BY <1>1, LinksKept, Zenon DEF Life
  <2>3. Dead'
    BY Zenon DEF Life, Dead
  <2> QED BY <2>1, <2>2, <2>3, Zenon
<1>5. Named' /\ Pairs'
  <2>1. \A x \in alive \ Released : x \in alive' \ Released' /\ inode'[x] = inode[x]
    BY Zenon
  <2>2. Named'
    BY <2>1, NamedKept, Zenon DEF Life
  <2>3. Pairs
    BY Zenon DEF Life
  <2>4. Pairs'
    <3>1. ASSUME NEW p \in Paths, NEW q \in Paths, entry[p] # Null, entry[p] = entry[q], p # q
          PROVE  \E u \in Threads : pc[u] = "remove" /\ {p, q} = {path[u], dest[u]}
      BY <2>3, <3>1, Zenon DEF Pairs
    <3> QED BY <3>1, Zenon DEF Pairs
  <2> QED BY <2>2, <2>4, Zenon
<1>6. DescriptorsLive'
  BY Zenon DEF Life, DescriptorsLive
<1>7. ASSUME NEW u \in Threads PROVE Relies(u)'
  <2>1. Same(u) /\ Relies(u)
    BY Zenon DEF Life, Same
  <2>2. Own(u)' /\ Sees(u)'
    BY <2>1, Zenon DEF Relies, Own, Sees
  <2>3. Gets(u)'
    <3>1. pc[u] = "got" => /\ NamesOf(found[u])' # {}
                           /\ \A x \in Settled : inode[x].ino = found[u] =>
                                x \in Settled' /\ inode'[x].ino = found[u]
      <4>1. pc[u] = "got" => NamesOf(found[u])' # {}
        BY <1>1, <2>1, Zenon DEF Relies, Gets
      <4> QED BY <1>2, <4>1, Zenon DEF Settled
    <3> QED BY <2>1, <3>1, GetsKept, Zenon DEF Relies
  <2>4. Makes(u)'
    <3>1. ASSUME pc[u] = "install", NEW x, x = obj[u]
          PROVE  /\ x \in alive' \ Released' /\ inode'[x].ino = inode[x].ino /\ Users(x)' = Users(x)
                 /\ \A j : j = inode[x].ino => NamesOf(j)' = NamesOf(j)
      <4>1. x \in alive \ Released
        BY <3>1, MakerAlone, Zenon
      <4> QED BY <1>1, <4>1, Zenon
    <3> QED BY <2>1, <3>1, MakesKept, Zenon
  <2>5. Closes(u)'
    <3>1. pc[u] = "close" => inode'[fd[u]].ino = inode[fd[u]].ino
      BY <2>1, Zenon DEF Relies, Own, Life, DescriptorsLive
    <3>2. \A x \in Settled' : x \in Settled /\ inode'[x].ino = inode[x].ino
      BY <1>2, Zenon DEF Settled
    <3> QED BY <2>1, <3>1, <3>2, ClosesKept, Zenon DEF Relies
  <2> QED BY <2>2, <2>3, <2>4, <2>5, Zenon DEF Relies
<1> QED BY <1>3, <1>4, <1>5, <1>6, <1>7, Zenon DEF Life

(* It takes one inode_t at a time off the list, gives its number back and  *)
(* frees it.                                                               *)
LEMMA ReleaseLife == ASSUME LInv, Life, release_thread PROVE Life'
<1>1. /\ alive \subseteq Objs /\ rlist \in Seq(Objs) /\ Released \subseteq alive
      /\ rcur \in Objs \union {Null} /\ (rdone => rcur # Null)
      /\ Distinct(rlist) /\ rcur \notin Range(rlist) /\ iused \subseteq Files /\ rdone \in BOOLEAN
  BY Zenon DEF Life, ReleaseOrder
<1>2. CASE ReleaseTake
  <2>1. /\ rcur = Null /\ rlist # <<>> /\ rcur' = Head(rlist) /\ rlist' = Tail(rlist)
        /\ UNCHANGED <<iused, alive, inode, rdone>>
        /\ UNCHANGED <<entry, table, fd, pc, op, path, dest, want, found, obj>>
    BY <1>2, Zenon DEF ReleaseTake, inodes, regs
  <2>2. /\ rlist' \in Seq(Objs) /\ Distinct(rlist') /\ rcur' \in Objs
        /\ Range(rlist) = {rcur'} \union Range(rlist') /\ rcur' \notin Range(rlist')
    BY <1>1, <2>1, Pop, Zenon
  <2>3. rcur' # Null /\ ~ rdone
    BY <1>1, <2>1, <2>2, NamesAssumption, Zenon
  <2>4. Released' = Released
    <3>1. \A x : x \in Released' <=> x \in Range(rlist') \/ x = rcur'
      BY <2>3, Zenon DEF Released
    <3>2. \A x : x \in Released <=> x \in Range(rlist)
      BY <2>1, Zenon DEF Released
    <3>3. \A x : x \in Released' <=> x \in Released
      BY <2>2, <3>1, <3>2, Zenon
    <3> QED BY <3>3, Zenon
  <2>5. Freed' = Freed
    BY <2>1, <2>3, Zenon DEF Freed
  <2>6. ReleaseOrder'
    BY <1>1, <2>1, <2>2, <2>3, <2>4, Zenon DEF ReleaseOrder, Distinct
  <2>7. Numbers'
    BY <2>1, <2>5, Zenon DEF Life, Numbers
  <2> QED BY <2>1, <2>4, <2>5, <2>6, <2>7, ReleaseStep, Zenon
<1>3. CASE FreeIno
  <2>1. /\ rcur # Null /\ ~ rdone /\ rdone' = TRUE /\ iused' = iused \ {inode[rcur].ino}
        /\ UNCHANGED <<alive, inode, rlist, rcur>>
        /\ UNCHANGED <<entry, table, fd, pc, op, path, dest, want, found, obj>>
    BY <1>3, Zenon DEF FreeIno, regs
  <2>2. Released' = Released
    BY <2>1, Zenon DEF Released
  <2>3. (\A x : x \notin Freed) /\ (\A x : x \in Freed' <=> x = rcur) /\ rcur \in alive
    BY <1>1, <2>1, Zenon DEF Freed, Released
  <2>4. ReleaseOrder'
    BY <1>1, <2>1, <2>2, Zenon DEF ReleaseOrder, Distinct
  <2>5. Numbers'
    <3>1. ASSUME NEW x \in alive, x # rcur PROVE inode[x].ino \in iused'
      <4>1. rcur \in alive \ Freed /\ x \in alive \ Freed
        BY <2>3, <3>1, Zenon
      <4>2. inode[x].ino \in iused /\ inode[x].ino # inode[rcur].ino
        BY <3>1, <4>1, LiveNumber, Zenon
      <4> QED BY <2>1, <4>2, Zenon
    <3>2. Numbers
      BY Zenon DEF Life
    <3>3. \A x \in alive \ Freed' : x \in alive \ Freed /\ x # rcur
      BY <2>3, Zenon
    <3>4. \A x, y \in alive \ Freed' : inode[x].ino = inode[y].ino => x = y
      BY <3>2, <3>3, Zenon DEF Numbers
    <3> QED BY <2>1, <3>1, <3>2, <3>3, <3>4, Zenon DEF Numbers
  <2> QED BY <2>1, <2>2, <2>3, <2>4, <2>5, ReleaseStep, Zenon
<1>4. CASE FreeInode
  <2>1. /\ rdone /\ rdone' = FALSE /\ alive' = alive \ {rcur} /\ rcur' = Null
        /\ inode' = [inode EXCEPT ![rcur] = NoInode]
        /\ UNCHANGED <<iused, rlist>>
        /\ UNCHANGED <<entry, table, fd, pc, op, path, dest, want, found, obj>>
    BY <1>4, Zenon DEF FreeInode, regs
  <2>2. rcur # Null /\ rcur \in Released
    BY <1>1, <2>1, Zenon DEF Released
  <2>3. \A x : x \in Released' <=> x \in Released /\ x # rcur
    <3>1. \A x : x \in Released' <=> x \in Range(rlist)
      BY <2>1, Zenon DEF Released
    <3>2. \A x : x \in Released <=> x \in Range(rlist) \/ x = rcur
      BY <2>2, Zenon DEF Released
    <3> QED BY <1>1, <3>1, <3>2, Zenon
  <2>4. (\A x : x \in Freed <=> x = rcur) /\ (\A x : x \notin Freed')
    BY <2>1, Zenon DEF Freed
  <2>5. \A x \in alive' : x \in alive /\ x # rcur /\ inode'[x] = inode[x]
    <3>1. inode \in [Objs -> InodeT]
      BY Zenon DEF LInv, Types, SharedTypes
    <3> QED BY <1>1, <2>1, <3>1, Zenon
  <2>6. ReleaseOrder'
    <3>1. Null \notin Range(rlist)
      BY <1>1, <2>2, NamesAssumption, Zenon DEF Released
    <3> QED BY <1>1, <2>1, <2>3, <3>1, Zenon DEF ReleaseOrder, Distinct
  <2>7. Numbers'
    <3>1. Numbers
      BY Zenon DEF Life
    <3>2. \A x \in alive' : x \in alive \ Freed /\ inode'[x].ino = inode[x].ino
      BY <2>4, <2>5, Zenon
    <3>3. \A x \in alive' : inode[x].ino \in Files /\ inode[x].ino \in iused
      BY <3>1, <3>2, Zenon DEF Numbers
    <3>4. \A x, y \in alive' : inode'[x].ino = inode'[y].ino => x = y
      BY <3>1, <3>2, Zenon DEF Numbers
    <3>5. \A x \in alive' : inode'[x].ino \in Files /\ inode'[x].ino \in iused
      BY <3>2, <3>3, Zenon
    <3>6. iused' = iused
      BY <2>1, Zenon
    <3> QED BY <3>4, <3>5, <3>6, Zenon DEF Numbers
  <2>8. \A x \in alive \ Released : x \in alive'
    BY <2>1, <2>2, Zenon
  <2> QED BY <2>1, <2>3, <2>4, <2>5, <2>6, <2>7, <2>8, ReleaseStep, Zenon
<1> QED BY <1>2, <1>3, <1>4, Zenon DEF release_thread

(* Life is inductive. *)
LEMMA NextLife == ASSUME Counting, LInv, Life, [Next]_vars PROVE Life'
<1>1. ASSUME NEW t \in Threads, NotFound(t) \/ UnlinkDone(t) PROVE Life'
  <2>1. Return(t) /\ Frame /\ Plain(pc[t])
    BY <1>1, Zenon DEF NotFound, UnlinkDone, Frame, Plain, inodes, release
  <2> QED BY <2>1, ReturnLife, Zenon
<1>2. ASSUME NEW t \in Threads, rename(t) PROVE Life'
  BY <1>2, RenameOldLife, RenameAppendLife, RenameRemoveLife, RenameQuietLife, Zenon DEF rename
<1>3. ASSUME NEW t \in Threads,
             \/ Begin(t) \/ LockRoot(t) \/ LockDir(t) \/ Found(t) \/ Iget(t) \/ Open(t)
             \/ Create(t) \/ Install(t) \/ Unlink(t) \/ CloseLock(t) \/ Close(t) \/ CloseDone(t)
      PROVE  Life'
  BY <1>3, BeginLife, LocksLife, FoundLife, IgetLife, OpenLife, CreateLife, InstallLife, UnlinkLife,
     CloseLockLife, CloseLife, CloseDoneLife, Zenon
<1>4. CASE UNCHANGED vars
  <2>1. Frame /\ UNCHANGED <<pc, op, path, dest, want, found, obj>>
    BY <1>4, Zenon DEF vars, Frame, inodes, release, regs
  <2>2. ReleaseOrder' /\ Numbers'
    BY <2>1, Zenon DEF Frame, Life, ReleaseOrder, Numbers, Freed, Released, Distinct
  <2>3. Released' = Released /\ Freed' = Freed
    BY <2>1, Zenon DEF Frame, Released, Freed
  <2> QED BY <2>1, <2>2, <2>3, ReleaseStep, Zenon DEF Frame
<1>5. CASE release_thread
  BY <1>5, ReleaseLife, Zenon
<1> QED BY <1>1, <1>2, <1>3, <1>4, <1>5, Zenon DEF Next
-----------------------------------------------------------------------------
(* What the invariant says of names and releases *)
LEMMA NamesLeadNow == ASSUME Life PROVE NamesLive
<1> SUFFICES ASSUME NEW p \in Paths, entry[p] # Null
    PROVE  /\ entry[p] \in iused
           /\ \/ \E o \in Creating : inode[o].ino = entry[p]
              \/ /\ table[entry[p]] \in alive \ Released
                 /\ inode[table[entry[p]]].ino = entry[p]
  BY Zenon DEF NamesLive
<1>1. PICK x \in alive \ Released : inode[x].ino = entry[p]
  BY Zenon DEF Life, Named
<1>2. entry[p] \in iused
  BY <1>1, FreedReleased, LiveNumber, Zenon
<1>3. CASE x \in Creating
  BY <1>1, <1>2, <1>3, Zenon
<1>4. CASE x \notin Creating
  <2>1. table[entry[p]] = x
    BY <1>1, <1>4, Zenon DEF Life, Tabled, Settled
  <2> QED BY <1>1, <1>2, <2>1, Zenon
<1> QED BY <1>3, <1>4, Zenon

(* ... of what is released, *)
LEMMA ReleaseExactNow == ASSUME Life PROVE ReleasedOnce
<1>1. {o \in alive : inode[o].ref = 0 /\ inode[o].link = 0} = Released
  <2>1. Dead /\ Released \subseteq alive
    BY Zenon DEF Life, ReleaseOrder
  <2> QED BY <2>1, Zenon DEF Dead
<1> QED BY <1>1, Zenon DEF ReleasedOnce, Life, ReleaseOrder, Distinct

Sizes == Cardinality({}) = 0 /\ \A x : Cardinality({x}) = 1

(* ... of the counts, *)
LEMMA CountsNow == ASSUME Sizes, LInv, Life PROVE CountsExact
<1>1. ASSUME NEW o \in Settled
      PROVE  inode[o].ref = Cardinality({t \in Threads : fd[t] = o})
  <2>1. ASSUME NEW t \in Threads, pc[t] = "install" PROVE obj[t] # o
    BY <1>1, <2>1, MakerAlone, Zenon DEF Settled
  <2>2. Users(o) = {t \in Threads : fd[t] = o}
    BY <2>1, Zenon DEF Users
  <2>3. o \in alive /\ Refs
    BY <1>1, Zenon DEF Settled, Life
  <2>4. inode[o].ref = Cardinality(Users(o))
    BY <2>3, Zenon DEF Refs
  <2> QED BY <2>2, <2>4, Zenon
<1>2. ASSUME NEW o \in Settled, NEW i, i = inode[o].ino,
             NEW moved, moved = {path[t] : t \in {u \in Threads : pc[u] = "remove"}}
      PROVE  inode[o].link = Cardinality(NamesOf(i) \ moved)
  <2>1. o \in alive \ Freed /\ i # Null
    BY <1>2, FreedReleased, LiveNumber, Zenon DEF Settled
  <2>2. inode[o].link \in {0, 1} /\ (inode[o].link = 0 <=> NamesOf(i) = {})
    BY <1>2, <2>1, Zenon DEF Life, Links
  <2>3. CASE inode[o].link = 0
    <3>1. NamesOf(i) \ moved = {}
      BY <2>2, <2>3, Zenon
    <3> QED BY <2>3, <3>1, Zenon DEF Sizes
  <2>4. CASE inode[o].link = 1
    <3>1. PICK p \in Paths : entry[p] = i
      <4>1. NamesOf(i) # {}
        BY <2>2, <2>4
      <4> QED BY <4>1, Zenon DEF NamesOf
    <3>2. PICK q \in Paths : entry[q] = i /\ q \notin moved
      <4>1. CASE p \notin moved
        BY <3>1, <4>1, Zenon
      <4>2. CASE p \in moved
        <5>1. PICK u \in Threads : pc[u] = "remove" /\ p = path[u]
          BY <1>2, <4>2, Zenon
        <5>2. dest[u] \in Paths /\ entry[dest[u]] = i /\ dest[u] # p
          BY <1>2, <3>1, <5>1, Zenon DEF Life, Relies, Sees, Own, LInv, Locals, Moving, Looking
        <5>3. ASSUME NEW v \in Threads, pc[v] = "remove", path[v] = dest[u] PROVE FALSE
          <6>1. u # v
            BY <5>1, <5>2, <5>3, Zenon
          <6>2. dest[u] \in Guarded(u) /\ dest[u] \in Guarded(v)
            BY <5>1, <5>3, Zenon DEF Guarded, Moving
          <6> QED BY <1>2, <6>1, <6>2, GuardedApart, Zenon
        <5> QED BY <1>2, <5>2, <5>3, Zenon
      <4> QED BY <4>1, <4>2, Zenon
    <3>3. ASSUME NEW r \in Paths, entry[r] = i, r # q PROVE r \in moved
      <4>1. PICK u \in Threads : pc[u] = "remove" /\ {r, q} = {path[u], dest[u]}
        <5>1. Pairs /\ entry[r] # Null /\ entry[r] = entry[q]
          BY <1>2, <2>1, <3>2, <3>3, Zenon DEF Life
        <5> QED BY <3>2, <3>3, <5>1, Zenon DEF Pairs
      <4>2. path[u] \in moved
        BY <1>2, <4>1, Zenon
      <4>3. path[u] = r \/ path[u] = q
        BY <4>1, Zenon
      <4> QED BY <3>2, <4>2, <4>3, Zenon
    <3>4. NamesOf(i) \ moved = {q}
      BY <3>2, <3>3, Zenon DEF NamesOf
    <3> QED BY <2>4, <3>4, Zenon DEF Sizes
  <2> QED BY <2>2, <2>3, <2>4, Zenon
<1> DEFINE moved == {path[t] : t \in {u \in Threads : pc[u] = "remove"}}
<1>3. ASSUME NEW o \in alive \ (Released \union Creating)
      PROVE  /\ inode[o].ref = Cardinality({t \in Threads : fd[t] = o})
             /\ inode[o].link = Cardinality(NamesOf(inode[o].ino) \ moved)
  <2>1. o \in Settled
    BY <1>3, Zenon DEF Settled
  <2> QED BY <1>1, <1>2, <2>1, Zenon
<1> QED BY <1>3, Zenon DEF CountsExact

Kept == \A i \in Files : NamesOf(i) # {} /\ NamesOf(i)' = {} =>
          \E t \in Threads : op[t] = "unlink" /\ found[t] = i

(* ... and of what a step does to the names. *)
LEMMA KeptNow == ASSUME LInv, Life, [Next]_vars PROVE [Kept]_vars
<1> SUFFICES ASSUME NEW i \in Files, NEW p \in Paths, entry[p] = i,
                    \A q \in Paths : entry'[q] # i
    PROVE  \E t \in Threads : op[t] = "unlink" /\ found[t] = i
  BY Zenon DEF Kept, NamesOf
<1>1. entry \in [Paths -> Files \union {Null}] /\ i # Null /\ entry'[p] # entry[p]
  BY NamesAssumption, Zenon DEF LInv, Types, SharedTypes
<1>2. PICK t \in Threads : Create(t) \/ Unlink(t) \/ RenameAppend(t) \/ RenameRemove(t)
  <2>1. entry' # entry
    BY <1>1, Zenon
  <2>2. ~ UNCHANGED vars /\ ~ release_thread
    BY <2>1, Zenon DEF vars, release_thread, ReleaseTake, FreeIno, FreeInode
  <2>3. PICK t \in Threads :
          \/ Begin(t) \/ LockRoot(t) \/ LockDir(t) \/ NotFound(t) \/ Found(t) \/ Iget(t) \/ Open(t)
          \/ Create(t) \/ Install(t) \/ Unlink(t) \/ UnlinkDone(t) \/ CloseLock(t) \/ Close(t)
          \/ CloseDone(t) \/ rename(t)
    BY <2>2, Zenon DEF Next
  <2>4. ~ (Begin(t) \/ LockRoot(t) \/ LockDir(t) \/ NotFound(t) \/ Found(t) \/ Iget(t) \/ Open(t))
    BY <2>1, Zenon DEF Begin, LockRoot, LockDir, NotFound, Found, Iget, Open
  <2>5. ~ (Install(t) \/ UnlinkDone(t) \/ CloseLock(t) \/ Close(t) \/ CloseDone(t))
    BY <2>1, Zenon DEF Install, UnlinkDone, CloseLock, Close, CloseDone
  <2>6. rename(t) => RenameAppend(t) \/ RenameRemove(t)
    BY <2>1, Zenon DEF rename, RenameOld, RenameNew, LockOld, RenameFails, JournalAlloc,
         JournalValid, JournalRecord, JournalCommit, JournalFree
  <2> QED BY <2>3, <2>4, <2>5, <2>6, Zenon
<1>3. Locals(t) /\ Own(t) /\ Sees(t)
  BY Zenon DEF LInv, Life, Relies
<1>4. CASE Unlink(t)
  <2>1. entry[want[t]] = found[t] /\ entry' = [entry EXCEPT ![want[t]] = Null] /\ op[t] = "unlink"
    BY <1>3, <1>4, Zenon DEF Unlink, Sees
  <2>2. p = want[t]
    BY <1>1, <2>1, Zenon
  <2> QED BY <2>1, <2>2, Zenon
<1>5. CASE Create(t)
  <2>1. PICK j : entry' = [entry EXCEPT ![want[t]] = j] /\ entry[want[t]] = Null
    BY <1>3, <1>5, Zenon DEF Create, Sees
  <2> QED BY <1>1, <2>1, Zenon
<1>6. CASE RenameAppend(t)
  <2>1. entry' = [entry EXCEPT ![dest[t]] = entry[path[t]]] /\ entry[dest[t]] = Null
    BY <1>3, <1>6, Zenon DEF RenameAppend, Sees
  <2> QED BY <1>1, <2>1, Zenon
<1>7. CASE RenameRemove(t)
  <2>1. /\ entry' = [entry EXCEPT ![path[t]] = Null] /\ entry[dest[t]] = entry[path[t]]
        /\ path[t] # dest[t] /\ dest[t] \in Paths
    BY <1>3, <1>7, Zenon DEF RenameRemove, Sees, Own, Locals, Moving, Looking
  <2>2. p = path[t]
    BY <1>1, <2>1, Zenon
  <2>3. entry'[dest[t]] = i
    BY <1>1, <2>1, <2>2, Zenon
  <2> QED BY <2>1, <2>3, Zenon
<1> QED BY <1>2, <1>4, <1>5, <1>6, <1>7, Zenon
-----------------------------------------------------------------------------
FST == INSTANCE FiniteSetTheorems

(* FiniteSetTheorems speaks of the same notions of finite and of size. *)
LEMMA SameFinite == \A S : IsFiniteSet(S) <=> FST!IsFiniteSet(S)
BY Zenon DEF IsFiniteSet, FST!IsFiniteSet

(* ... *)
LEMMA SameSize == \A S : Cardinality(S) = FST!Cardinality(S)
BY Zenon DEF Cardinality, FST!Cardinality

(* A set of threads is finite, so its size is a number that goes up and    *)
(* down with its members.                                                  *)
LEMMA SizeOne ==
  ASSUME NEW A \in SUBSET Threads, NEW t \in Threads
  PROVE  /\ Cardinality(A) \in Nat /\ (Cardinality(A) = 0 <=> A = {}) /\ Cardinality({t}) = 1
         /\ t \notin A => Cardinality(A \union {t}) = Cardinality(A) + 1
         /\ t \in A => Cardinality(A \ {t}) = Cardinality(A) - 1
<1>1. IsFiniteSet(Threads)
  BY NamesAssumption, Zenon
<1>2. FST!IsFiniteSet(A)
  BY <1>1, SameFinite, FST!FS_Subset, Zenon
<1>3. Cardinality(A) \in Nat
  BY <1>2, FST!FS_CardinalityType, SameSize, Zenon
<1>4. Cardinality(A) = 0 <=> A = {}
  BY <1>2, FST!FS_EmptySet, SameSize, Zenon
<1>5. Cardinality({t}) = 1
  BY FST!FS_Singleton, SameSize, Zenon
<1>6. t \notin A => Cardinality(A \union {t}) = Cardinality(A) + 1
  BY <1>2, FST!FS_AddElement, SameSize, Zenon
<1>7. t \in A => Cardinality(A \ {t}) = Cardinality(A) - 1
  BY <1>2, FST!FS_RemoveElement, SameSize, Zenon
<1> QED BY <1>3, <1>4, <1>5, <1>6, <1>7, Zenon

(* References are counted one at a time. *)
LEMMA CountOne == Counting
BY SizeOne, Zenon DEF Counting

(* The sizes of the empty set and of a set of one *)
LEMMA SizesHold == Sizes
<1>1. Cardinality({}) = 0
  BY FST!FS_EmptySet, SameSize, Zenon
<1>2. \A x : Cardinality({x}) = 1
  BY FST!FS_Singleton, SameSize, Zenon
<1> QED BY <1>1, <1>2, Zenon DEF Sizes

(* The invariant holds throughout. *)
LEMMA LifeHolds == Spec => [](LInv /\ Life)
<1>1. Init => LInv /\ Life
  BY InitL, InitLife, Zenon
<1>2. (LInv /\ Life) /\ [Next]_vars => (LInv /\ Life)'
  BY NextL, NextLife, CountOne, Zenon
<1> QED BY <1>1, <1>2, PTL DEF Spec

(* A name always leads to an inode that is there: its number is in use and *)
(* the table has its inode_t, or its creator is about to enter it, however *)
(* unlink, rename, creation and the release thread are interleaved         *)
(* (NamesLive).                                                            *)
THEOREM NamesLead == Spec => []NamesLive
<1>1. Life => NamesLive
  BY NamesLeadNow, Zenon
<1> QED BY <1>1, LifeHolds, PTL

(* An open file stays allocated, whatever is done to its names             *)
(* (DescriptorsLive).                                                      *)
THEOREM OpenStays == Spec => []DescriptorsLive
<1>1. LInv /\ Life => DescriptorsLive
  BY Zenon DEF Life
<1> QED BY <1>1, LifeHolds, PTL

(* Every inode_t without names and descriptors is on its way to being      *)
(* freed, is there once, and no other is (ReleasedOnce).                   *)
THEOREM ReleaseExact == Spec => []ReleasedOnce
<1>1. Life => ReleasedOnce
  BY ReleaseExactNow, Zenon
<1> QED BY <1>1, LifeHolds, PTL

(* ref is the number of descriptors of a file and i_link the number of its *)
(* names, not counting the old one of a rename that has entered the new    *)
(* one (CountsExact).                                                      *)
THEOREM CountsHold == Spec => []CountsExact
<1>1. LInv /\ Life => CountsExact
  BY SizesHold, CountsNow, Zenon
<1> QED BY <1>1, LifeHolds, PTL

(* A file loses its last name by unlink only: at every crash point of a    *)
(* rename it has one (NameKept).                                           *)
THEOREM RenameKeepsName == Spec => NameKept
<1>1. LInv /\ Life /\ [Next]_vars => [Kept]_vars
  BY KeptNow, Zenon
<1>2. Spec => [][Kept]_vars
  BY <1>1, LifeHolds, PTL DEF Spec
<1> QED BY <1>2, Zenon DEF NameKept, Kept
=============================================================================
