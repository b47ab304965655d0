---------------------------- MODULE RecoverProofs ----------------------------
(***************************************************************************)
(* Proofs about recovery, for any number of threads and any PM image.      *)
(*                                                                         *)
(* The walk: every inode that can be reached from the root is queued and   *)
(* its log walked, although threads count links without a lock and may     *)
(* each have an rc_inode of their own for one inode; and, as long as no    *)
(* two of them store the same byte of a bitmap, no mark is lost.  A log    *)
(* that has been taken from the queue is behind its handlers: whatever     *)
(* comes before the slot a handler is at has been seen.  An inode with a   *)
(* link is in the queue or about to be put there by the thread that        *)
(* counted the first one.                                                  *)
(*                                                                         *)
(* The pool: no thread leaves while there is work (a hypothesis of the     *)
(* theorems about the walk).  Two facts carry the argument.  active_thread *)
(* counts exactly the threads between rejoining and leaving, and a queue   *)
(* that is not empty has a thread that is handling an inode or is about to *)
(* pop: a thread decides to leave only after it has found the queue empty, *)
(* and only a handler pushes.                                              *)
(***************************************************************************)
EXTENDS Recover, FiniteSetTheorems, TLAPS

(* The hypotheses of the lemmas, under names of their own: a proof opens *)
(* them in its first step.                                               *)
Typed == TypeOK
Step(t) == rc_replay(t)

(* What the image of a state of recovery is made of. *)
LEMMA ImageTyped ==
  ASSUME Typed
  PROVE  /\ image.head \in [Inodes -> Dirents \union {Null}] /\ image.ino \in [Dirents -> Inodes]
         /\ image.next \in [Dirents -> Dirents \union {Null}]
<1>t. TypeOK
  BY Zenon DEF Typed
<1> QED BY <1>t, ImageAssumption, Zenon DEF TypeOK

(* LogSlots(i) is closed itself, and the least closed set. *)
LEMMA LogSlotsClosed ==
  ASSUME Typed, NEW i \in Inodes
  PROVE  /\ LogSlots(i) \subseteq Dirents
         /\ image.head[i] \in LogSlots(i) \union {Null}
         /\ \A s \in LogSlots(i) : image.next[s] \in LogSlots(i) \union {Null}
<1>1. LogSlots(i) \subseteq Dirents
  BY Zenon DEF LogSlots
<1>2. image.head[i] \in LogSlots(i) \union {Null}
  BY ImageTyped, Zenon DEF LogSlots, LogClosed
<1>3. ASSUME NEW s \in LogSlots(i), image.next[s] # Null PROVE image.next[s] \in LogSlots(i)
  <2>1. image.next[s] \in Dirents
    BY <1>1, <1>3, ImageTyped, Zenon
  <2>2. ASSUME NEW S \in SUBSET Dirents, LogClosed(i, S) PROVE image.next[s] \in S
    BY <1>3, <2>2, Zenon DEF LogSlots, LogClosed
  <2> QED BY <2>1, <2>2, Zenon DEF LogSlots
<1> QED BY <1>1, <1>2, <1>3, Zenon

(* A log is the least set of slots closed under next, *)
LEMMA LogSlotsLeast ==
  ASSUME NEW i, NEW S \in SUBSET Dirents, LogClosed(i, S)
  PROVE  LogSlots(i) \subseteq S
BY Zenon DEF LogSlots

(* The set of the inodes a walk from the root meets is closed. *)
LEMMA ReachableClosed ==
  ASSUME Typed
  PROVE  /\ Reachable \subseteq Inodes /\ Root \in Reachable
         /\ \A i \in Reachable : \A s \in LogSlots(i) : image.ino[s] \in Reachable
<1>1. Reachable \subseteq Inodes /\ Root \in Reachable
  BY ImageAssumption, Zenon DEF Reachable, TreeClosed
<1>2. ASSUME NEW i \in Reachable, NEW s \in LogSlots(i) PROVE image.ino[s] \in Reachable
  <2>1. image.ino[s] \in Inodes
    BY <1>1, LogSlotsClosed, ImageTyped, Zenon
  <2>2. ASSUME NEW S \in SUBSET Inodes, TreeClosed(S) PROVE image.ino[s] \in S
    <3>1. i \in S
      BY <2>2, Zenon DEF Reachable
    <3> QED BY <2>2, <3>1, Zenon DEF TreeClosed
  <2> QED BY <2>1, <2>2, Zenon DEF Reachable
<1> QED BY <1>1, <1>2, Zenon

(* ... and the reachable inodes the least closed under the entries. *)
LEMMA ReachableLeast ==
  ASSUME NEW S \in SUBSET Inodes, TreeClosed(S)
  PROVE  Reachable \subseteq S
BY Zenon DEF Reachable

(* The image does not change, nor what follows from it. *)
LEMMA ImageKept ==
  ASSUME image' = image
  PROVE  /\ \A i : LogSlots(i)' = LogSlots(i)
         /\ Reachable' = Reachable
<1>1. \A i : LogSlots(i)' = LogSlots(i)
  BY DEF LogSlots, LogClosed
<1> QED BY <1>1, Zenon DEF Reachable, TreeClosed
-----------------------------------------------------------------------------
(* In image m, the log of inode i up to slot stop: what comes before it is in Seen. *)
Walked(m, i, stop, Seen) ==
  \E S \in SUBSET (Seen \intersect Dirents) :
     {m.head[i]} \union {m.next[s] : s \in S} \subseteq S \union {Null, stop}

(* A walk starts with nothing seen, *)
LEMMA WalkedStart ==
  ASSUME NEW m, NEW i, NEW Seen
  PROVE  Walked(m, i, m.head[i], Seen)
<1>1. {} \in SUBSET (Seen \intersect Dirents)
  OBVIOUS
<1> QED BY <1>1, Zenon DEF Walked

(* ... keeps what it has seen when more is seen, *)
LEMMA WalkedMore ==
  ASSUME NEW m, NEW i, NEW stop, NEW A, NEW B, A \subseteq B, Walked(m, i, stop, A)
  PROVE  Walked(m, i, stop, B)
BY Zenon DEF Walked

(* ... takes the next slot, *)
LEMMA WalkedNext ==
  ASSUME NEW m, NEW i, NEW Seen, NEW s \in Seen \intersect Dirents, Walked(m, i, s, Seen)
  PROVE  Walked(m, i, m.next[s], Seen)
<1>1. PICK S \in SUBSET (Seen \intersect Dirents) :
        {m.head[i]} \union {m.next[x] : x \in S} \subseteq S \union {Null, s}
  BY Zenon DEF Walked
<1>2. S \union {s} \in SUBSET (Seen \intersect Dirents)
  OBVIOUS
<1>3. {m.head[i]} \union {m.next[x] : x \in S \union {s}} \subseteq (S \union {s}) \union {Null, m.next[s]}
  BY <1>1, Zenon
<1> QED BY <1>2, <1>3, Zenon DEF Walked

(* ... and has seen the whole log at its end. *)
LEMMA WalkedEnd ==
  ASSUME Typed, NEW i \in Inodes, NEW Seen, Walked(image, i, Null, Seen)
  PROVE  LogSlots(i) \subseteq Seen
<1>1. PICK S \in SUBSET (Seen \intersect Dirents) :
        {image.head[i]} \union {image.next[x] : x \in S} \subseteq S \union {Null, Null}
  BY Zenon DEF Walked
<1>2. S \in SUBSET Dirents /\ LogClosed(i, S)
  BY <1>1, Zenon DEF LogClosed
<1> QED BY <1>1, <1>2, LogSlotsLeast, Zenon
-----------------------------------------------------------------------------
(* The threads that are in a log, at slot idx[t] or behind its end. *)
InLog(t) == pc[t] \in {"read_ibyte", "write_ibyte", "iget", "install", "read_byte", "write_byte",
                       "read_link", "write_link", "push"}

(* The walk goes only where the image leads. *)
WInv ==
  /\ Root \in Range(data) /\ Range(data) \subseteq Reachable
  /\ \A t \in Threads : /\ cur[t] \in Reachable
                        /\ InLog(t) => idx[t] \in LogSlots(cur[t]) \union {Null}
  /\ main = "exit" => \A t \in Threads : pc[t] = "done"

(* What every inode taken from the queue is owed: a handler, or that its log has been seen. *)
Covered(Seen) ==
  /\ \A t \in Threads : InLog(t) => Walked(image, cur[t], idx[t], Seen)
  /\ \A k \in 1 .. front : \/ \E t \in Threads : Handling(t) /\ cur[t] = data[k]
                           \/ Walked(image, data[k], Null, Seen)

(* Inode c is in the queue, or a thread has counted its first link and will queue it. *)
Queued(c) ==
  \/ c \in Range(data)
  \/ \E t \in Threads : pc[t] = "push" /\ count[t] = 0 /\ image.ino[idx[t]] = c
QueuedSlots == {s \in Dirents : Queued(image.ino[s])}

AInv ==
  /\ \A c \in Inodes, w \in Owners : link[<<c, w>>] # 0 => Queued(c)
  /\ \A t \in Threads : pc[t] \in {"write_link", "push"} /\ count[t] # 0 => Queued(image.ino[idx[t]])
  /\ Covered(QueuedSlots)

(* A step of thread t leaves the others where they are. *)
Alone(t) ==
  /\ image' = image /\ main' = main
  /\ \A u \in Threads \ {t} : pc'[u] = pc[u] /\ cur'[u] = cur[u] /\ idx'[u] = idx[u] /\ count'[u] = count[u]

(* A step of one thread leaves the others where they are. *)
LEMMA StepsAlone ==
  ASSUME Typed, NEW t \in Threads, Step(t)
  PROVE  Alone(t) /\ pc[t] # "done"
<1> USE DEF Goto, queue, tab, walk, pm, regs
<1>s. TypeOK /\ rc_replay(t)
  BY Zenon DEF Typed, Step
<1>1. image' = image /\ main' = main /\ pc[t] # "done"
  BY <1>s, Zenon DEF rc_replay, Pop, Leave, CheckActive, CheckQueue, Rejoin, HandleInode, Iget, Install, ReadByte,
               WriteByte, ReadLink, WriteLink, Push
<1>2. \E p : pc' = [pc EXCEPT ![t] = p]
  BY <1>s, Zenon DEF rc_replay, Pop, Leave, CheckActive, CheckQueue, Rejoin, HandleInode, Iget, Install, ReadByte,
               WriteByte, ReadLink, WriteLink, Push
<1>3. \E x : cur' = [cur EXCEPT ![t] = x] \/ cur' = cur
  BY <1>s, Zenon DEF rc_replay, Pop, Leave, CheckActive, CheckQueue, Rejoin, HandleInode, Iget, Install, ReadByte,
               WriteByte, ReadLink, WriteLink, Push
<1>4. \E x : idx' = [idx EXCEPT ![t] = x] \/ idx' = idx
  BY <1>s, Zenon DEF rc_replay, Pop, Leave, CheckActive, CheckQueue, Rejoin, HandleInode, Iget, Install, ReadByte,
               WriteByte, ReadLink, WriteLink, Push
<1>5. \E x : count' = [count EXCEPT ![t] = x] \/ count' = count
  BY <1>s, Zenon DEF rc_replay, Pop, Leave, CheckActive, CheckQueue, Rejoin, HandleInode, Iget, Install, ReadByte,
               WriteByte, ReadLink, WriteLink, Push
<1> QED BY <1>s, <1>1, <1>2, <1>3, <1>4, <1>5 DEF TypeOK, Alone

(* What a step of t has to see to for every inode to stay covered. *)
LEMMA CoveredStep ==
  ASSUME NEW t \in Threads, Alone(t), front \in Nat, NEW A, NEW B, A \subseteq B, Covered(A),
         InLog(t)' => Walked(image, cur'[t], idx'[t], B),
         Handling(t) => (Handling(t)' /\ cur'[t] = cur[t]) \/ Walked(image, cur[t], Null, B),
         \A k \in 1 .. front : data'[k] = data[k],
         \A k \in 1 .. front' : k \in 1 .. front \/ (Handling(t)' /\ cur'[t] = data'[k])
  PROVE  /\ \A u \in Threads : InLog(u)' => Walked(image', cur'[u], idx'[u], B)
         /\ \A k \in 1 .. front' : \/ \E u \in Threads : Handling(u)' /\ cur'[u] = data'[k]
                                   \/ Walked(image', data'[k], Null, B)
<1>1. \A i, s : Walked(image, i, s, A) => Walked(image, i, s, B)
  BY WalkedMore, Zenon
<1>2. image' = image
  BY Zenon DEF Alone
<1>3. ASSUME NEW u \in Threads, InLog(u)' PROVE Walked(image', cur'[u], idx'[u], B)
  <2>1. CASE u = t
    BY <1>2, <1>3, <2>1, Zenon
  <2>2. CASE u # t
    BY <1>1, <1>2, <1>3, <2>2, Zenon DEF Alone, Covered, InLog
  <2> QED BY <2>1, <2>2, Zenon
<1>4. ASSUME NEW k \in 1 .. front' PROVE \/ \E u \in Threads : Handling(u)' /\ cur'[u] = data'[k]
                                         \/ Walked(image', data'[k], Null, B)
  <2>1. CASE k \in 1 .. front
    <3>1. data'[k] = data[k]
      BY <2>1, Zenon
    <3>2. CASE Walked(image, data[k], Null, A)
      BY <1>1, <1>2, <3>1, <3>2, Zenon
    <3>3. CASE \E u \in Threads : Handling(u) /\ cur[u] = data[k]
      <4>1. PICK u \in Threads : Handling(u) /\ cur[u] = data[k]
        BY <3>3, Zenon
      <4>2. CASE u = t
        BY <1>2, <3>1, <4>1, <4>2, Zenon
      <4>3. CASE u # t
        <5>1. Handling(u)' /\ cur'[u] = cur[u]
          BY <4>1, <4>3, Zenon DEF Alone, Handling
        <5> QED BY <3>1, <4>1, <5>1, Zenon
      <4> QED BY <4>2, <4>3, Zenon
    <3> QED BY <2>1, <3>2, <3>3, Zenon DEF Covered
  <2>2. CASE k \notin 1 .. front
    BY <2>2, Zenon
  <2> QED BY <2>1, <2>2, Zenon
<1> QED BY <1>3, <1>4, Zenon
-----------------------------------------------------------------------------
(* What the steps do to the walk: t takes an inode from the queue, ... *)
Takes(t) ==
  /\ pc[t] = "pop" /\ pc'[t] = "handle"
  /\ front < Len(data) /\ front' = front + 1 /\ cur'[t] = data[front + 1]
  /\ data' = data /\ link' = link /\ count' = count
(* ... starts on its log, ... *)
Starts(t) ==
  /\ pc[t] = "handle" /\ pc'[t] = "read_ibyte"
  /\ cur' = cur /\ idx'[t] = image.head[cur[t]]
  /\ front' = front /\ data' = data /\ link' = link /\ count' = count
(* ... goes on to the next entry, perhaps queueing the inode of this one, ... *)
Passes(t) ==
  /\ pc[t] = "push" /\ pc'[t] = (IF idx'[t] = Null THEN "pop" ELSE "iget")
  /\ cur' = cur /\ idx'[t] = image.next[idx[t]]
  /\ data' = IF count[t] = 0 THEN Append(data, image.ino[idx[t]]) ELSE data
  /\ front' = front /\ link' = link /\ count' = count
(* ... or stays where it is, in the log, ... *)
Stays(t) ==
  /\ InLog(t) /\ pc[t] # "push"
  /\ InLog(t)' \/ (pc'[t] = "pop" /\ idx[t] = Null)
  /\ cur' = cur /\ idx' = idx /\ front' = front /\ data' = data
(* ... or outside. *)
Waits(t) ==
  /\ ~Handling(t) /\ ~Handling(t)'
  /\ cur' = cur /\ front' = front /\ data' = data /\ link' = link /\ count' = count

(* What a step may do to the shared state. *)
LEMMA Effects ==
  ASSUME Typed, NEW t \in Threads, Step(t)
  PROVE  Takes(t) \/ Starts(t) \/ Passes(t) \/ Stays(t) \/ Waits(t)
<1> USE DEF Goto, queue, tab, walk, pm, regs
<1>s. TypeOK /\ rc_replay(t)
  BY Zenon DEF Typed, Step
<1>0. t \in DOMAIN pc /\ t \in DOMAIN cur /\ t \in DOMAIN idx
  BY <1>s, Zenon DEF TypeOK
<1>1. CASE Pop(t)
  BY <1>0, <1>1, Zenon DEF Pop, Takes, Waits, Handling
<1>2. CASE Leave(t) \/ CheckActive(t) \/ CheckQueue(t) \/ Rejoin(t)
  BY <1>0, <1>2, Zenon DEF Leave, CheckActive, CheckQueue, Rejoin, Waits, Handling
<1>3. CASE HandleInode(t)
  BY <1>0, <1>3, Zenon DEF HandleInode, Starts
<1>4. CASE Iget(t) \/ Install(t)
  BY <1>0, <1>4, Zenon DEF Iget, Install, Stays, InLog
<1>5. CASE ReadByte(t) \/ WriteByte(t)
  BY <1>0, <1>5, Zenon DEF ReadByte, WriteByte, AtEntry, Stays, InLog
<1>6. CASE ReadLink(t) \/ WriteLink(t)
  BY <1>0, <1>6, Zenon DEF ReadLink, WriteLink, Stays, InLog
<1>7. CASE Push(t)
  BY <1>0, <1>7, Zenon DEF Push, AtEntry, Passes
<1> QED BY <1>s, <1>1, <1>2, <1>3, <1>4, <1>5, <1>6, <1>7, Zenon DEF rc_replay

(* The entry a thread is at, and what a queue gains from Push. *)
LEMMA AtSlot ==
  ASSUME Typed, NEW t \in Threads,
         pc[t] \in {"iget", "install", "read_byte", "write_byte", "read_link", "write_link", "push"}
  PROVE  idx[t] \in Dirents /\ image.ino[idx[t]] \in Inodes
<1>t. TypeOK
  BY Zenon DEF Typed
<1> QED BY <1>t, ImageTyped, Zenon DEF TypeOK

(* An appended element is in the queue. *)
LEMMA RangeAppend ==
  ASSUME NEW q \in Seq(Inodes), NEW e \in Inodes
  PROVE  Range(Append(q, e)) = Range(q) \union {e} /\ \A k \in 1 .. Len(q) : Append(q, e)[k] = q[k]
<1>1. DOMAIN Append(q, e) = 1 .. Len(q) + 1 /\ DOMAIN q = 1 .. Len(q) /\ Append(q, e)[Len(q) + 1] = e
      /\ Len(q) \in Nat
  OBVIOUS
<1>2. \A k \in 1 .. Len(q) : Append(q, e)[k] = q[k]
  OBVIOUS
<1>3. \A k \in 1 .. Len(q) + 1 : k \in 1 .. Len(q) \/ k = Len(q) + 1
  BY <1>1
<1>4. 1 .. Len(q) \subseteq 1 .. Len(q) + 1 /\ Len(q) + 1 \in 1 .. Len(q) + 1
  BY <1>1
<1>5. Range(Append(q, e)) = {Append(q, e)[k] : k \in 1 .. Len(q) + 1} /\ Range(q) = {q[k] : k \in 1 .. Len(q)}
  BY <1>1, Zenon DEF Range
<1> HIDE DEF Range
<1> DEFINE a == Append(q, e)
<1>6. a = Append(q, e)
  OBVIOUS
<1> HIDE DEF a
<1>7. Range(a) = Range(q) \union {e}
  BY <1>1, <1>2, <1>3, <1>4, <1>5, <1>6, Zenon
<1> QED BY <1>2, <1>6, <1>7, Zenon

(* The walk goes only where the image leads. *)
LEMMA WalkStep == ASSUME Typed, WInv, NEW t \in Threads, Step(t) PROVE WInv'
<1>s. TypeOK /\ rc_replay(t)
  BY Zenon DEF Typed, Step
<1>0. Typed /\ Alone(t) /\ pc[t] # "done"
  BY StepsAlone, Zenon
<1>1. image' = image /\ main' # "exit"
  BY <1>0, Zenon DEF WInv, Alone
<1>2. /\ \A i : LogSlots(i)' = LogSlots(i)
      /\ Reachable' = Reachable
  BY <1>1, ImageKept, Zenon
<1>3. \A u \in Threads \ {t} : cur'[u] \in Reachable /\ (InLog(u)' => idx'[u] \in LogSlots(cur'[u]) \union {Null})
  BY <1>0, Zenon DEF WInv, Alone, InLog
<1>4. Root \in Range(data') /\ Range(data') \subseteq Reachable
  <2>1. CASE data' = data
    BY <2>1, Zenon DEF WInv
  <2>2. CASE Passes(t) /\ data' # data
    <3>1. data' = Append(data, image.ino[idx[t]]) /\ pc[t] = "push"
      BY <2>2, Zenon DEF Passes
    <3>2. idx[t] \in Dirents /\ image.ino[idx[t]] \in Inodes
      BY <1>0, <3>1, AtSlot, Zenon
    <3>3. image.ino[idx[t]] \in Reachable
      <4>1. idx[t] \in LogSlots(cur[t]) /\ cur[t] \in Reachable
        BY <3>1, <3>2, ImageAssumption, Zenon DEF WInv, InLog
      <4> QED BY <1>0, <4>1, ReachableClosed, Zenon
    <3>4. Range(data') = Range(data) \union {image.ino[idx[t]]}
      <4>1. data \in Seq(Inodes)
        BY <1>s, <1>0, Zenon DEF TypeOK
      <4> QED BY <3>1, <3>2, <4>1, RangeAppend, Zenon
    <3> QED BY <3>3, <3>4, Zenon DEF WInv
  <2> QED BY <1>0, <2>1, <2>2, Effects, Zenon DEF Takes, Starts, Stays, Waits
<1>5. cur'[t] \in Reachable /\ (InLog(t)' => idx'[t] \in LogSlots(cur'[t]) \union {Null})
  <2>0. cur[t] \in Reachable /\ cur[t] \in Inodes
    BY <1>0, ReachableClosed, Zenon DEF WInv
  <2>1. CASE Takes(t)
    <3>1. cur'[t] \in Range(data)
      BY <1>s, <1>0, <2>1 DEF Takes, TypeOK, Range
    <3> QED BY <2>1, <3>1, Zenon DEF Takes, WInv, InLog
  <2>2. CASE Starts(t)
    BY <1>0, <2>0, <2>2, LogSlotsClosed, Zenon DEF Starts
  <2>3. CASE Passes(t)
    <3>1. idx[t] \in LogSlots(cur[t])
      <4>1. idx[t] \in Dirents
        BY <1>0, <2>3, AtSlot, Zenon DEF Passes
      <4> QED BY <2>3, <4>1, ImageAssumption, Zenon DEF Passes, WInv, InLog
    <3> QED BY <1>0, <2>0, <2>3, <3>1, LogSlotsClosed, Zenon DEF Passes
  <2>4. CASE Stays(t)
    BY <2>0, <2>4, Zenon DEF Stays, WInv
  <2>5. CASE Waits(t)
    BY <2>0, <2>5, Zenon DEF Waits, InLog, Handling
  <2> QED BY <1>0, <2>1, <2>2, <2>3, <2>4, <2>5, Effects, Zenon
<1> QED BY <1>1, <1>2, <1>3, <1>4, <1>5, Zenon DEF WInv

(* Nobody is forgotten: what was queued stays so. *)
LEMMA QueuedKept ==
  ASSUME Typed, NEW t \in Threads, Alone(t), NEW c, Queued(c),
         Range(data) \subseteq Range(data'),
         pc[t] = "push" /\ count[t] = 0 => image.ino[idx[t]] \in Range(data')
  PROVE  Queued(c)'
<1>1. CASE c \in Range(data)
  BY <1>1, Zenon DEF Queued
<1>2. ASSUME NEW u \in Threads, pc[u] = "push" /\ count[u] = 0 /\ image.ino[idx[u]] = c PROVE Queued(c)'
  <2>1. CASE u = t
    BY <1>2, <2>1, Zenon DEF Queued
  <2>2. CASE u # t
    BY <1>2, <2>2, Zenon DEF Queued, Alone
  <2> QED BY <2>1, <2>2, Zenon
<1> QED BY <1>1, <1>2, Zenon DEF Queued

(* link and count are about inodes that are queued. *)
LEMMA CountStep ==
  ASSUME Typed, AInv, NEW t \in Threads, Step(t), Stays(t)
  PROVE  /\ \A c : Queued(c) => Queued(c)'
         /\ \A c \in Inodes, w \in Owners : link'[<<c, w>>] # 0 => Queued(c)'
         /\ \A c : c = image.ino[idx[t]] /\ pc'[t] \in {"write_link", "push"} /\ count'[t] # 0 => Queued(c)'
<1> USE DEF Goto, queue, tab, walk, pm, regs
<1>s. TypeOK /\ rc_replay(t)
  BY Zenon DEF Typed, Step
<1>0. Alone(t) /\ data' = data /\ idx' = idx /\ pc[t] # "push" /\ image' = image
  BY StepsAlone, Zenon DEF Stays, Alone
<1>1. \A c : Queued(c) => Queued(c)'
  BY <1>0, QueuedKept, Zenon
<1> DEFINE here == image.ino[idx[t]]
<1>2. CASE ReadLink(t)
  <2>1. link' = link
    BY <1>2, Zenon DEF ReadLink
  <2>2. count'[t] = link[<<here, child[t]>>] /\ here \in Inodes /\ child[t] \in Owners
    BY <1>s, <1>2, AtSlot, Zenon DEF ReadLink, TypeOK
  <2>3. count'[t] # 0 => Queued(here)
    BY <2>2, Zenon DEF AInv
  <2> HIDE DEF here
  <2>4. \A c : c = here /\ count'[t] # 0 => Queued(c)'
    BY <1>1, <2>3, Zenon
  <2>5. ASSUME NEW c \in Inodes, NEW w \in Owners, link'[<<c, w>>] # 0 PROVE Queued(c)'
    BY <1>1, <2>1, <2>5, Zenon DEF AInv
  <2> QED BY <1>1, <2>4, <2>5, Zenon DEF here
<1>3. CASE WriteLink(t)
  <2>1. count' = count /\ pc'[t] = "push" /\ pc[t] = "write_link"
    BY <1>s, <1>3, Zenon DEF WriteLink, TypeOK
  <2>2. ASSUME NEW c, c = here PROVE Queued(c)'
    <3>1. CASE count[t] = 0
      BY <1>0, <2>1, <2>2, <3>1, Zenon DEF Queued
    <3>2. CASE count[t] # 0
      BY <1>1, <2>1, <2>2, <3>2, Zenon DEF AInv
    <3> QED BY <3>1, <3>2, Zenon
  <2>3. ASSUME NEW c \in Inodes, NEW w \in Owners, link'[<<c, w>>] # 0 PROVE Queued(c)'
    <3>1. CASE c = here
      BY <2>2, <3>1, Zenon
    <3>2. CASE c # here
      <4>1. link'[<<c, w>>] = link[<<c, w>>]
        BY <1>s, <1>3, <2>3, <3>2, Zenon DEF WriteLink, TypeOK, Objs
      <4> QED BY <1>1, <2>3, <4>1, Zenon DEF AInv
    <3> QED BY <3>1, <3>2, Zenon
  <2> QED BY <1>1, <2>2, <2>3, Zenon
<1>4. CASE ~ReadLink(t) /\ ~WriteLink(t)
  <2>1. link' = link /\ pc'[t] \notin {"write_link", "push"}
    <3>1. Iget(t) \/ Install(t) \/ ReadByte(t) \/ WriteByte(t)
      BY <1>s, <1>4, <1>0, Zenon DEF rc_replay, Stays, InLog, Pop, Leave, CheckActive, CheckQueue, Rejoin, HandleInode, Push
    <3> QED BY <1>s, <3>1 DEF Iget, Install, ReadByte, WriteByte, AtEntry, TypeOK
  <2>2. ASSUME NEW c \in Inodes, NEW w \in Owners, link'[<<c, w>>] # 0 PROVE Queued(c)'
    BY <1>1, <2>1, <2>2, Zenon DEF AInv
  <2> QED BY <1>1, <2>1, <2>2, Zenon
<1> QED BY <1>2, <1>3, <1>4, Zenon

(* What the other steps do to the queue. *)
LEMMA QueueStep ==
  ASSUME Typed, AInv, NEW t \in Threads, Step(t), ~Stays(t)
  PROVE  /\ \A c : Queued(c) => Queued(c)'
         /\ link' = link /\ pc'[t] \notin {"write_link", "push"}
         /\ Passes(t) => idx[t] \in QueuedSlots'
         /\ \A k \in 1 .. front : data'[k] = data[k]
<1>s. TypeOK /\ rc_replay(t)
  BY Zenon DEF Typed, Step
<1>0. Alone(t) /\ image' = image
  BY StepsAlone, Zenon DEF Alone
<1>1. link' = link /\ pc'[t] \notin {"write_link", "push"}
  BY Effects, Zenon DEF Takes, Starts, Passes, Waits, Handling
<1>2. CASE data' = data
  <2>1. Range(data) \subseteq Range(data')
    BY <1>2, Zenon
  <2>2. ~(pc[t] = "push" /\ count[t] = 0)
    <3>1. SUFFICES ASSUME Passes(t), count[t] = 0 PROVE FALSE
      BY Effects, Zenon DEF Takes, Starts, Waits, Handling
    <3>2. data' = Append(data, image.ino[idx[t]])
      BY <3>1, Zenon DEF Passes
    <3> QED BY <1>s, <1>2, <3>2 DEF TypeOK
  <2>3. \A c : Queued(c) => Queued(c)'
    BY <1>0, <2>1, <2>2, QueuedKept, Zenon
  <2>4. Passes(t) => idx[t] \in QueuedSlots'
    <3>1. SUFFICES ASSUME Passes(t) PROVE idx[t] \in QueuedSlots'
      OBVIOUS
    <3>2. pc[t] = "push" /\ count[t] # 0 /\ idx[t] \in Dirents
      BY <2>2, <3>1, AtSlot, Zenon DEF Passes
    <3>3. Queued(image.ino[idx[t]])
      BY <3>2, Zenon DEF AInv
    <3>4. ASSUME NEW c, c = image.ino[idx[t]] PROVE Queued(c)'
      BY <2>3, <3>3, <3>4, Zenon
    <3> QED BY <1>0, <3>2, <3>4, Zenon DEF QueuedSlots
  <2> QED BY <1>1, <1>2, <2>3, <2>4, Zenon
<1>3. CASE data' # data
  <2>1. Passes(t) /\ data' = Append(data, image.ino[idx[t]]) /\ pc[t] = "push"
    BY <1>3, Effects, Zenon DEF Takes, Starts, Passes, Waits
  <2>2. data \in Seq(Inodes) /\ image.ino[idx[t]] \in Inodes /\ idx[t] \in Dirents
    BY <1>s, <2>1, AtSlot, Zenon DEF TypeOK
  <2>a. /\ Range(Append(data, image.ino[idx[t]])) = Range(data) \union {image.ino[idx[t]]}
        /\ \A k \in 1 .. Len(data) : Append(data, image.ino[idx[t]])[k] = data[k]
    BY <2>2, RangeAppend, Zenon
  <2>3. /\ Range(data') = Range(data) \union {image.ino[idx[t]]}
        /\ \A k \in 1 .. Len(data) : data'[k] = data[k]
    BY <2>1, <2>2, <2>a, Zenon
  <2>4. \A c : Queued(c) => Queued(c)'
    BY <1>0, <2>3, QueuedKept, Zenon
  <2>5. ASSUME NEW c, c = image.ino[idx[t]] PROVE Queued(c)'
    BY <2>3, <2>5, Zenon DEF Queued
  <2>6. idx[t] \in QueuedSlots'
    BY <1>0, <2>2, <2>5, Zenon DEF QueuedSlots
  <2>7. 1 .. front \subseteq 1 .. Len(data)
    BY <1>s DEF TypeOK
  <2> QED BY <1>1, <2>3, <2>4, <2>6, <2>7, Zenon
<1> QED BY <1>2, <1>3, Zenon

(* An inode taken from the queue stays covered, by what is seen after the step. *)
LEMMA CoverStep ==
  ASSUME Typed, NEW t \in Threads, Step(t), NEW A, NEW B, A \subseteq B, Covered(A),
         Passes(t) => idx[t] \in B \intersect Dirents,
         \A k \in 1 .. front : data'[k] = data[k]
  PROVE  /\ \A u \in Threads : InLog(u)' => Walked(image', cur'[u], idx'[u], B)
         /\ \A k \in 1 .. front' : \/ \E u \in Threads : Handling(u)' /\ cur'[u] = data'[k]
                                   \/ Walked(image', data'[k], Null, B)
<1>s. TypeOK /\ rc_replay(t)
  BY Zenon DEF Typed, Step
<1>0. Typed /\ Alone(t) /\ front \in Nat
  BY <1>s, StepsAlone DEF TypeOK
<1>1. InLog(t) => Walked(image, cur[t], idx[t], B)
  BY WalkedMore, Zenon DEF Covered
<1>2. CASE Takes(t)
  <2>1. ~InLog(t)' /\ ~Handling(t) /\ Handling(t)' /\ cur'[t] = data'[front + 1]
    BY <1>2, Zenon DEF Takes, InLog, Handling
  <2>2. \A k \in 1 .. front' : k \in 1 .. front \/ k = front + 1
    BY <1>0, <1>2 DEF Takes
  <2>3. \A k \in 1 .. front' : k \in 1 .. front \/ (Handling(t)' /\ cur'[t] = data'[k])
    BY <2>1, <2>2, Zenon
  <2> QED BY <1>0, <2>1, <2>3, CoveredStep, Zenon
<1>3. CASE Starts(t)
  <2>1. Handling(t)' /\ cur' = cur /\ front' = front
    BY <1>3, Zenon DEF Starts, Handling
  <2>2. Walked(image, cur'[t], idx'[t], B)
    BY <1>3, WalkedStart, Zenon DEF Starts
  <2> QED BY <1>0, <2>1, <2>2, CoveredStep, Zenon
<1>4. CASE Passes(t)
  <2>1. cur' = cur /\ front' = front /\ idx'[t] = image.next[idx[t]] /\ pc[t] = "push"
    BY <1>4, Zenon DEF Passes
  <2>2. Walked(image, cur[t], idx[t], B)
    BY <1>1, <2>1, Zenon DEF InLog
  <2>3. Walked(image, cur[t], idx'[t], B)
    BY <1>4, <2>1, <2>2, WalkedNext, Zenon
  <2>4. Handling(t)' \/ idx'[t] = Null
    BY <1>4, Zenon DEF Passes, Handling
  <2> QED BY <1>0, <2>1, <2>3, <2>4, CoveredStep, Zenon
<1>5. CASE Stays(t)
  <2>1. cur' = cur /\ front' = front /\ idx' = idx /\ InLog(t)
    BY <1>5, Zenon DEF Stays
  <2>2. Handling(t)' \/ idx[t] = Null
    BY <1>5, Zenon DEF Stays, Handling, InLog
  <2> QED BY <1>0, <1>1, <2>1, <2>2, CoveredStep, Zenon
<1>6. CASE Waits(t)
  <2>1. ~InLog(t)' /\ ~Handling(t) /\ front' = front
    BY <1>6, Zenon DEF Waits, InLog, Handling
  <2> QED BY <1>0, <2>1, CoveredStep, Zenon
<1> QED BY <1>0, <1>2, <1>3, <1>4, <1>5, <1>6, Effects, Zenon

(* Every inode with a link is queued, and every inode taken from the queue is covered. *)
LEMMA HandledStep == ASSUME Typed, AInv, NEW t \in Threads, Step(t) PROVE AInv'
<1>0. Typed /\ Alone(t) /\ image' = image
  BY StepsAlone, Zenon DEF Alone
<1>1. /\ \A c : Queued(c) => Queued(c)'
      /\ \A c \in Inodes, w \in Owners : link'[<<c, w>>] # 0 => Queued(c)'
      /\ Passes(t) => idx[t] \in QueuedSlots'
      /\ \A k \in 1 .. front : data'[k] = data[k]
  <2>1. CASE Stays(t)
    BY <1>0, <2>1, CountStep, Zenon DEF Stays, Passes
  <2>2. CASE ~Stays(t)
    BY <1>0, <2>2, QueueStep, Zenon DEF AInv
  <2> QED BY <2>1, <2>2, Zenon
<1>2. ASSUME NEW u \in Threads, pc'[u] \in {"write_link", "push"}, count'[u] # 0
      PROVE  \A c : c = image'.ino[idx'[u]] => Queued(c)'
  <2>1. CASE u # t
    BY <1>0, <1>1, <1>2, <2>1, Zenon DEF AInv, Alone
  <2>2. CASE u = t
    <3>1. Stays(t)
      BY <1>0, <1>2, <2>2, QueueStep, Zenon
    <3>2. idx' = idx
      BY <3>1, Zenon DEF Stays
    <3> QED BY <1>0, <1>2, <2>2, <3>1, <3>2, CountStep, Zenon
  <2> QED BY <2>1, <2>2, Zenon
<1>3. QueuedSlots \subseteq QueuedSlots'
  BY <1>0, <1>1, Zenon DEF QueuedSlots
<1>4. Passes(t) => idx[t] \in QueuedSlots' \intersect Dirents
  BY <1>1, Zenon DEF QueuedSlots
<1>5. Covered(QueuedSlots)'
  BY <1>1, <1>3, <1>4, CoverStep, Zenon DEF AInv, Covered
<1> QED BY <1>1, <1>2, <1>5, Zenon DEF AInv

(* Nothing has been counted when recovery starts, given zeroed rc_inodes. *)
LEMMA HandledInit ==
  ASSUME Garbage = {0}, Typed, Init
  PROVE  WInv /\ AInv
<1>1. Typed
  OBVIOUS
<1>2. data = <<Root>> /\ front = 0 /\ main = "join" /\ \A t \in Threads : pc[t] = "pop" /\ cur[t] = Root
  BY Zenon DEF Init
<1>3. Range(data) = {Root}
  BY <1>2 DEF Range
<1>4. WInv
  BY <1>1, <1>2, <1>3, ReachableClosed, Zenon DEF WInv, InLog
<1>5. \A c \in Inodes, w \in Owners : link[<<c, w>>] # 0 => c = Root
  BY Zenon DEF Init, Objs
<1>6. Covered(QueuedSlots)
  BY <1>2 DEF Covered, InLog
<1> QED BY <1>2, <1>3, <1>4, <1>5, <1>6, Zenon DEF AInv, Queued

(* rc_flush and stuttering leave the walk alone. *)
LEMMA HandledElse ==
  ASSUME Typed, WInv, AInv, Flush \/ UNCHANGED vars
  PROVE  WInv' /\ AInv'
<1>1. /\ UNCHANGED <<image, data, front, link, pc, cur, idx, count>>
      /\ main' = "exit" => \A t \in Threads : pc[t] = "done"
  BY Zenon DEF Flush, vars, queue, tab, walk, regs, WInv
<1>2. WInv'
  BY <1>1, ImageKept, Zenon DEF WInv, InLog
<1>3. \A c : Queued(c)' = Queued(c)
  BY <1>1, Zenon DEF Queued
<1>4. QueuedSlots' = QueuedSlots
  BY <1>1, <1>3, Zenon DEF QueuedSlots
<1>5. Covered(QueuedSlots)'
  BY <1>1, <1>4, Zenon DEF AInv, Covered, InLog, Handling
<1> QED BY <1>1, <1>2, <1>3, <1>5, Zenon DEF AInv

(* When the pool is gone the queue holds exactly the inodes a walk from the root meets is closed. *)
LEMMA ExitHandled ==
  ASSUME Typed, NoEarlyExit, WInv, AInv
  PROVE  AllHandled
<1> SUFFICES ASSUME main = "exit" PROVE Range(data) = Reachable
  BY Zenon DEF AllHandled
<1>t. TypeOK
  BY Zenon DEF Typed
<1>0. Typed
  OBVIOUS
<1>1. \A t \in Threads : pc[t] = "done"
  BY Zenon DEF WInv
<1>2. front = Len(data) /\ \A t \in Threads : ~Handling(t)
  BY <1>1, ThreadsAssumption, Zenon DEF NoEarlyExit
<1>3. Range(data) \subseteq Inodes /\ Range(data) = {data[k] : k \in 1 .. front}
  <2>1. data \in Seq(Inodes) /\ DOMAIN data = 1 .. front
    BY <1>t, <1>0, <1>2 DEF TypeOK
  <2>2. \A k \in DOMAIN data : data[k] \in Inodes
    <3>1. data \in Seq(Inodes) => \A k \in 1 .. Len(data) : data[k] \in Inodes
      OBVIOUS
    <3> QED BY <1>2, <2>1, <3>1, Zenon
  <2> QED BY <2>1, <2>2, Zenon DEF Range
<1>4. ASSUME NEW i \in Range(data), NEW s \in LogSlots(i) PROVE image.ino[s] \in Range(data)
  <2>1. Walked(image, i, Null, QueuedSlots)
    BY <1>2, <1>3, Zenon DEF AInv, Covered
  <2>2. s \in QueuedSlots
    BY <1>0, <1>3, <2>1, WalkedEnd, Zenon
  <2> QED BY <1>1, <2>2, Zenon DEF QueuedSlots, Queued
<1>5. TreeClosed(Range(data))
  BY <1>4, Zenon DEF TreeClosed, WInv
<1>6. Reachable \subseteq Range(data)
  BY <1>3, <1>5, ReachableLeast, Zenon
<1> QED BY <1>6, Zenon DEF WInv

(* When recover() returns, every inode that can be reached from the root has been handled and *)
(* no other, given a pool that does not leave early and zeroes in the link fields.            *)
THEOREM WalkHandlesAll ==
  ASSUME Garbage = {0}
  PROVE  Spec /\ []TypeOK /\ []NoEarlyExit => []AllHandled
<1>t. Typed <=> TypeOK
  BY Zenon DEF Typed
<1>n. [Next]_vars => Flush \/ UNCHANGED vars \/ \E t \in Threads : Step(t)
  BY Zenon DEF Next, Step
<1>1. Init /\ Typed => WInv /\ AInv
  BY HandledInit, Zenon
<1>2. (WInv /\ AInv) /\ Typed /\ [Next]_vars => (WInv /\ AInv)'
  BY <1>n, WalkStep, HandledStep, HandledElse, Zenon
<1>3. Typed /\ NoEarlyExit /\ WInv /\ AInv => AllHandled
  BY ExitHandled, Zenon
<1> QED BY <1>t, <1>1, <1>2, <1>3, PTL DEF Spec
-----------------------------------------------------------------------------
(* The threads between the load and the store of set_bit. *)
Storing(t) == pc[t] \in {"write_ibyte", "write_byte"}

(* No two of them are at different bits of one byte. *)
NoByteRace ==
  \A t, u \in Threads : Storing(t) /\ Storing(u) /\ ByteOf[Marking(t)] = ByteOf[Marking(u)]
                          => Marking(t) = Marking(u)

Needed == Reachable \union UNION {LogSlots(i) : i \in Reachable}

(* The byte a thread will store lacks no bit but the one it sets. *)
BytesFresh ==
  \A t \in Threads : Storing(t) =>
    byte[t] \subseteq map /\ map \intersect SameByte(Marking(t)) \subseteq byte[t] \union {Marking(t)}

(* The bit of an inode is set before its log is walked, that of a slot before its entry counts. *)
MarkedFirst ==
  /\ \A t \in Threads : pc[t] \in {"read_link", "write_link", "push"} => idx[t] \in map
  /\ \A t \in Threads : InLog(t) /\ pc[t] \notin {"read_ibyte", "write_ibyte"} => cur[t] \in map
  /\ \A k \in 1 .. front : (\E t \in Threads : Handling(t) /\ cur[t] = data[k]) \/ data[k] \in map

MInv ==
  /\ map \subseteq Needed
  /\ BytesFresh /\ MarkedFirst /\ Covered(map)
  /\ main = "exit" => pmap = map

(* Without a race the store of the byte sets one bit and clears none. *)
LEMMA MapEffect ==
  ASSUME Typed, BytesFresh, NEW t \in Threads, Step(t)
  PROVE  /\ map' = IF Storing(t) THEN map \union {Marking(t)} ELSE map
         /\ \A u \in Threads \ {t} : byte'[u] = byte[u]
         /\ Storing(t)' => byte'[t] = map \intersect SameByte(Marking(t)) /\ Marking(t)' = Marking(t) /\ ~Storing(t)
<1> USE DEF Goto, queue, tab, walk, pm, regs
<1>s. TypeOK /\ rc_replay(t)
  BY Zenon DEF Typed, Step
<1>1. CASE WriteByte(t)
  <2>1. Storing(t) /\ map' = (map \ SameByte(Marking(t))) \union byte[t] \union {Marking(t)} /\ byte' = byte
    BY <1>1, Zenon DEF WriteByte, Storing
  <2>2. ~Storing(t)'
    BY <1>s, <1>1 DEF WriteByte, Storing, AtEntry, TypeOK
  <2>3. map' = map \union {Marking(t)}
    BY <2>1, Zenon DEF BytesFresh
  <2> QED BY <2>1, <2>2, <2>3
<1>2. CASE ReadByte(t)
  <2>1. ~Storing(t) /\ map' = map /\ byte' = [byte EXCEPT ![t] = map \intersect SameByte(Marking(t))]
    BY <1>2, Zenon DEF ReadByte, Storing
  <2>2. Marking(t)' = Marking(t)
    BY <1>s, <1>2 DEF ReadByte, Marking, TypeOK
  <2> QED BY <1>s, <2>1, <2>2 DEF TypeOK
<1>3. CASE ~WriteByte(t) /\ ~ReadByte(t)
  <2>1. map' = map /\ byte' = byte /\ ~Storing(t)
    BY <1>s, <1>3, ZenonT(40) DEF rc_replay, Pop, Leave, CheckActive, CheckQueue, Rejoin, HandleInode, Iget, Install,
                  ReadLink, WriteLink, Push, Storing
  <2>2. ~Storing(t)'
    <3>1. \A l : Goto(t, l) => pc'[t] = l
      BY <1>s, Zenon DEF Goto, TypeOK
    <3>2. CASE Pop(t) \/ Leave(t) \/ CheckActive(t) \/ CheckQueue(t) \/ Rejoin(t)
      BY <3>1, <3>2 DEF Pop, Leave, CheckActive, CheckQueue, Rejoin, Storing
    <3>3. CASE HandleInode(t) \/ Iget(t) \/ Install(t)
      BY <3>1, <3>3 DEF HandleInode, Iget, Install, Storing
    <3>4. CASE ReadLink(t) \/ WriteLink(t) \/ Push(t)
      BY <3>1, <3>4 DEF ReadLink, WriteLink, Push, AtEntry, Storing
    <3> QED BY <1>s, <1>3, <3>2, <3>3, <3>4, Zenon DEF rc_replay
  <2> QED BY <2>1, <2>2
<1> QED BY <1>1, <1>2, <1>3

(* A byte stays fresh: nobody else sets another bit of it meanwhile. *)
LEMMA BytesStep ==
  ASSUME Typed, BytesFresh, NoByteRace, NEW t \in Threads, Step(t)
  PROVE  BytesFresh'
<1>0. Alone(t)
  BY StepsAlone, Zenon
<1>1. map \subseteq map'
  BY MapEffect, Zenon
<1>2. ASSUME NEW u \in Threads, Storing(u)'
      PROVE  byte'[u] \subseteq map' /\ map' \intersect SameByte(Marking(u)') \subseteq byte'[u] \union {Marking(u)'}
  <2>1. CASE u = t
    <3>1. byte'[t] = map \intersect SameByte(Marking(t)) /\ Marking(t)' = Marking(t) /\ map' = map
      BY <1>2, <2>1, MapEffect
    <3> QED BY <2>1, <3>1, Zenon
  <2>2. CASE u # t
    <3>1. Storing(u) /\ Marking(u)' = Marking(u) /\ byte'[u] = byte[u]
      BY <1>0, <1>2, <2>2, MapEffect DEF Alone, Storing, Marking
    <3>2. byte[u] \subseteq map /\ map \intersect SameByte(Marking(u)) \subseteq byte[u] \union {Marking(u)}
      BY <3>1, Zenon DEF BytesFresh
    <3>3. CASE ~Storing(t)
      BY <3>1, <3>2, <3>3, MapEffect
    <3>4. CASE Storing(t)
      <4>1. map' = map \union {Marking(t)}
        BY <3>4, MapEffect, Zenon
      <4>2. Marking(t) \in SameByte(Marking(u)) => Marking(t) = Marking(u)
        BY <3>1, <3>4, Zenon DEF NoByteRace, SameByte
      <4> QED BY <3>1, <3>2, <4>1, <4>2
    <3> QED BY <3>3, <3>4
  <2> QED BY <2>1, <2>2, Zenon
<1> QED BY <1>2, Zenon DEF BytesFresh, SameByte

(* Only what the walk is at gets marked. *)
LEMMA MarkingNeeded ==
  ASSUME Typed, WInv, NEW t \in Threads, Storing(t)
  PROVE  Marking(t) \in Needed
<1>t. TypeOK
  BY Zenon DEF Typed
<1>1. cur[t] \in Reachable /\ idx[t] \in LogSlots(cur[t]) \union {Null}
  BY Zenon DEF WInv, InLog, Storing
<1>2. CASE pc[t] = "write_ibyte"
  BY <1>1, <1>2, Zenon DEF Marking, Needed
<1>3. CASE pc[t] = "write_byte"
  <2>1. idx[t] # Null
    BY <1>t, <1>3, Zenon DEF TypeOK
  <2> QED BY <1>1, <1>3, <2>1, Zenon DEF Marking, Needed
<1> QED BY <1>2, <1>3, Zenon DEF Storing

(* A bit is set before what follows depends on it, and stays. *)
LEMMA MarkedStep ==
  ASSUME Typed, MInv, NEW t \in Threads, Step(t), \A k \in 1 .. front : data'[k] = data[k]
  PROVE  MarkedFirst'
<1> USE DEF Goto, queue, tab, walk, pm, regs
<1>s. TypeOK /\ rc_replay(t)
  BY Zenon DEF Typed, Step
<1>0. Typed /\ Alone(t) /\ front \in Nat /\ BytesFresh /\ MarkedFirst
  BY <1>s, StepsAlone DEF TypeOK, MInv
<1>1. map \subseteq map' /\ (Storing(t) => Marking(t) \in map')
  BY <1>0, MapEffect, Zenon
<1>2. pc'[t] \in {"read_link", "write_link", "push"} => idx'[t] \in map'
  <2>1. CASE WriteByte(t)
    BY <1>s, <1>0, <1>1, <2>1, Zenon DEF WriteByte, Storing, Marking, AtEntry, TypeOK
  <2>2. CASE ~WriteByte(t)
    <3>1. pc'[t] \in {"read_link", "write_link", "push"} =>
            idx' = idx /\ pc[t] \in {"read_link", "write_link", "push"}
      BY <1>s, <1>0, <2>2, ZenonT(40) DEF rc_replay, Pop, Leave, CheckActive, CheckQueue, Rejoin, HandleInode, Iget, Install,
                        ReadByte, ReadLink, WriteLink, Push, AtEntry, TypeOK
    <3> QED BY <1>0, <1>1, <3>1, Zenon DEF MarkedFirst
  <2> QED BY <2>1, <2>2, Zenon
<1>3. InLog(t) => (pc'[t] \in {"read_ibyte", "write_ibyte"} \/ cur[t] \in map')
  <2>1. CASE pc[t] = "write_ibyte"
    BY <1>1, <2>1 DEF Storing, Marking
  <2>2. CASE pc[t] = "read_ibyte"
    BY <1>s, <1>0, <2>2, Zenon DEF rc_replay, Pop, Leave, CheckActive, CheckQueue, Rejoin, HandleInode, Iget, Install,
                      ReadByte, WriteByte, ReadLink, WriteLink, Push, TypeOK
  <2> QED BY <1>0, <1>1, <2>1, <2>2, Zenon DEF MarkedFirst
<1>4. InLog(t)' /\ pc'[t] \notin {"read_ibyte", "write_ibyte"} => cur'[t] \in map'
  BY <1>0, <1>3, Effects DEF Takes, Starts, Passes, Stays, Waits, InLog, Handling
<1>5. \A u \in Threads \ {t} : /\ pc'[u] \in {"read_link", "write_link", "push"} => idx'[u] \in map'
                               /\ InLog(u)' /\ pc'[u] \notin {"read_ibyte", "write_ibyte"} => cur'[u] \in map'
  BY <1>0, <1>1 DEF MarkedFirst, Alone, InLog
<1>6. ASSUME NEW k \in 1 .. front' PROVE (\E u \in Threads : Handling(u)' /\ cur'[u] = data'[k]) \/ data'[k] \in map'
  <2>1. CASE k \notin 1 .. front
    <3>1. Takes(t) /\ k = front + 1
      BY <1>0, <2>1, Effects DEF Takes, Starts, Passes, Stays, Waits
    <3> QED BY <3>1, Zenon DEF Takes, Handling
  <2>2. CASE k \in 1 .. front
    <3>1. data'[k] = data[k]
      BY <2>2, Zenon
    <3>2. CASE data[k] \in map
      BY <1>1, <3>1, <3>2
    <3>3. ASSUME NEW u \in Threads, Handling(u), cur[u] = data[k], u # t
          PROVE  Handling(u)' /\ cur'[u] = data'[k]
      BY <1>0, <3>1, <3>3 DEF Alone, Handling
    <3>4. CASE Handling(t) /\ cur[t] = data[k]
      <4>1. CASE Handling(t)'
        BY <1>0, <3>1, <3>4, <4>1, Effects DEF Takes, Starts, Passes, Stays, Waits, Handling
      <4>2. CASE ~Handling(t)'
        <5>1. InLog(t) /\ pc'[t] \notin {"read_ibyte", "write_ibyte"}
          BY <1>0, <3>4, <4>2, Effects DEF Takes, Starts, Passes, Stays, Waits, Handling, InLog
        <5> QED BY <1>3, <3>1, <3>4, <5>1
      <4> QED BY <4>1, <4>2, Zenon
    <3> QED BY <1>0, <2>2, <3>2, <3>3, <3>4 DEF MarkedFirst
  <2> QED BY <2>1, <2>2
<1> QED BY <1>2, <1>4, <1>5, <1>6 DEF MarkedFirst

(* Marks are made where they are needed and none is lost. *)
LEMMA MapStep ==
  ASSUME Typed, WInv, AInv, MInv, NoByteRace, NEW t \in Threads, Step(t)
  PROVE  MInv'
<1>0. Typed /\ Alone(t) /\ image' = image /\ BytesFresh /\ pc[t] # "done"
  BY StepsAlone, Zenon DEF Alone, MInv
<1>1. \A k \in 1 .. front : data'[k] = data[k]
  BY <1>0, QueueStep, Zenon DEF Stays
<1>2. map \subseteq map' /\ map' \subseteq Needed
  BY <1>0, MapEffect, MarkingNeeded DEF MInv
<1>3. Needed' = Needed
  BY <1>0, ImageKept, Zenon DEF Needed
<1>4. Passes(t) => idx[t] \in map' \intersect Dirents
  <2>1. Passes(t) => pc[t] = "push"
    BY Zenon DEF Passes
  <2> QED BY <1>0, <1>2, <2>1, AtSlot DEF MInv, MarkedFirst
<1>5. Covered(map)'
  BY <1>1, <1>2, <1>4, CoverStep, Zenon DEF MInv, Covered
<1>6. BytesFresh' /\ MarkedFirst'
  BY <1>0, <1>1, BytesStep, MarkedStep, Zenon
<1>7. main' # "exit"
  BY <1>0, Zenon DEF WInv, Alone
<1> QED BY <1>2, <1>3, <1>5, <1>6, <1>7 DEF MInv

(* rc_flush writes the bitmaps out. *)
LEMMA MapElse ==
  ASSUME Typed, MInv, Flush \/ UNCHANGED vars
  PROVE  MInv'
<1>1. /\ UNCHANGED <<image, data, front, map, pc, cur, idx, byte>>
      /\ main' = "exit" => pmap' = map'
  BY Zenon DEF Flush, vars, queue, tab, walk, regs, MInv
<1>2. Needed' = Needed
  BY <1>1, ImageKept, Zenon DEF Needed
<1>3. BytesFresh' /\ MarkedFirst'
  BY <1>1 DEF MInv, BytesFresh, MarkedFirst, Storing, Marking, InLog, Handling, SameByte
<1>4. Covered(map)'
  BY <1>1, Zenon DEF MInv, Covered, InLog, Handling
<1> QED BY <1>1, <1>2, <1>3, <1>4 DEF MInv

(* At the end every mark that is needed has been made. *)
LEMMA ExitMarked ==
  ASSUME Typed, NoEarlyExit, WInv, AInv, MInv
  PROVE  SlotsMarked
<1> SUFFICES ASSUME main = "exit" PROVE pmap = Reachable \union UNION {LogSlots(i) : i \in Reachable}
  BY Zenon DEF SlotsMarked
<1>t. TypeOK
  BY Zenon DEF Typed
<1>0. Typed /\ pmap = map /\ map \subseteq Needed /\ Range(data) = Reachable
  BY ExitHandled, Zenon DEF MInv, AllHandled
<1>1. \A t \in Threads : pc[t] = "done"
  BY Zenon DEF WInv
<1>2. front = Len(data) /\ \A t \in Threads : ~Handling(t)
  BY <1>1, ThreadsAssumption, Zenon DEF NoEarlyExit
<1>3. ASSUME NEW i \in Reachable PROVE i \in map /\ LogSlots(i) \subseteq map
  <2>1. PICK k \in DOMAIN data : i = data[k]
    BY <1>0, Zenon DEF Range
  <2>2. k \in 1 .. front
    BY <1>t, <1>0, <1>2, <2>1 DEF TypeOK
  <2>3. data[k] \in map /\ Walked(image, data[k], Null, map)
    BY <1>2, <2>2, Zenon DEF MInv, MarkedFirst, Covered
  <2>4. i \in Inodes
    BY <1>0, ReachableClosed, Zenon
  <2> QED BY <1>0, <2>1, <2>3, <2>4, WalkedEnd, Zenon
<1> QED BY <1>0, <1>3 DEF Needed

(* When recover() returns, the bitmaps mark the inodes and slots in use and nothing else, if    *)
(* moreover no two threads were between the load and the store of set_bit on one byte.          *)
THEOREM WalkMarksAll ==
  ASSUME Garbage = {0}
  PROVE  Spec /\ []TypeOK /\ []NoEarlyExit /\ []NoByteRace => []SlotsMarked
<1> DEFINE Inv == WInv /\ AInv /\ MInv
<1>t. Typed <=> TypeOK
  BY Zenon DEF Typed
<1>n. [Next]_vars => Flush \/ UNCHANGED vars \/ \E t \in Threads : Step(t)
  BY Zenon DEF Next, Step
<1>1. Init /\ Typed => Inv
  <2> SUFFICES ASSUME Init, Typed PROVE MInv
    BY HandledInit, Zenon
  <2>1. map = {} /\ front = 0 /\ main = "join" /\ \A t \in Threads : pc[t] = "pop"
    BY Zenon DEF Init
  <2> QED BY <2>1 DEF MInv, BytesFresh, MarkedFirst, Covered, Storing, InLog
<1>2. Inv /\ Typed /\ NoByteRace /\ [Next]_vars => Inv'
  BY <1>n, WalkStep, HandledStep, HandledElse, MapStep, MapElse, Zenon
<1>3. Typed /\ NoEarlyExit /\ Inv => SlotsMarked
  BY ExitMarked, Zenon
<1> QED BY <1>t, <1>1, <1>2, <1>3, PTL DEF Spec
-----------------------------------------------------------------------------
(* The threads active_thread counts. *)
Counted == {t \in Threads : pc[t] \in {"pop", "leave"} \/ Handling(t)}

(* The threads that will look at the queue again before they leave. *)
Working(t) == pc[t] = "pop" \/ Handling(t)

(* The inductive invariant. *)
IInv ==
  /\ TypeOK
  /\ active = Cardinality(Counted)
  /\ front < Len(data) => \E t \in Threads : Working(t)
  /\ NoEarlyExit

USE DEF Owners

(* A set of threads is finite and no larger than the pool. *)
LEMMA PoolFinite ==
  ASSUME NEW S, S \subseteq Threads
  PROVE  IsFiniteSet(S) /\ Cardinality(S) \in 0 .. Cardinality(Threads)
<1>1. IsFiniteSet(Threads)
  BY ThreadsAssumption, Zenon
<1>2. IsFiniteSet(S) /\ Cardinality(S) <= Cardinality(Threads)
  BY <1>1, FS_Subset, Zenon
<1>3. Cardinality(S) \in Nat /\ Cardinality(Threads) \in Nat
  BY <1>1, <1>2, FS_CardinalityType, Zenon
<1> QED BY <1>2, <1>3

(* In particular the threads active_thread counts. *)
LEMMA CountedFinite == IsFiniteSet(Counted) /\ Cardinality(Counted) \in 0 .. Cardinality(Threads)
<1>1. Counted \subseteq Threads
  BY Zenon DEF Counted
<1> QED BY <1>1, PoolFinite, Zenon

(* When nobody is counted, nobody handles an inode and nobody pops, so the *)
(* queue is empty: what a thread that sees active_thread = 0 relies on.    *)
LEMMA ZeroMeansIdle ==
  ASSUME IInv, active = 0
  PROVE  front = Len(data) /\ \A t \in Threads : ~Working(t) /\ pc[t] # "leave"
<1>1. Counted = {}
  BY CountedFinite, FS_EmptySet, Zenon DEF IInv
<1>2. \A t \in Threads : ~Working(t) /\ pc[t] # "leave"
  BY <1>1, Zenon DEF Counted, Working
<1> QED BY <1>2 DEF IInv, TypeOK

(* The effect on the count of a step of t that moves it to p. *)
LEMMA CountSame ==
  ASSUME IInv, NEW t \in Threads, NEW p, pc' = [pc EXCEPT ![t] = p], active' = active,
         t \in Counted <=> t \in Counted'
  PROVE  active' = Cardinality(Counted')
<1>1. Counted' = Counted
  BY Zenon DEF IInv, TypeOK, Counted, Handling
<1> QED BY <1>1, Zenon DEF IInv

(* Leaving takes one thread off the count. *)
LEMMA CountLess ==
  ASSUME IInv, NEW t \in Threads, NEW p, pc' = [pc EXCEPT ![t] = p], active' = active - 1,
         t \in Counted, t \notin Counted'
  PROVE  active' = Cardinality(Counted')
<1>1. Counted' = Counted \ {t}
  BY Zenon DEF IInv, TypeOK, Counted, Handling
<1> QED BY <1>1, CountedFinite, FS_RemoveElement, Zenon DEF IInv

(* Rejoining puts one thread back on the count. *)
LEMMA CountMore ==
  ASSUME IInv, NEW t \in Threads, NEW p, pc' = [pc EXCEPT ![t] = p], active' = active + 1,
         t \notin Counted, t \in Counted'
  PROVE  active' = Cardinality(Counted')
<1>1. Counted' = Counted \union {t}
  BY Zenon DEF IInv, TypeOK, Counted, Handling
<1> QED BY <1>1, CountedFinite, FS_AddElement, Zenon DEF IInv
-----------------------------------------------------------------------------
(* Counting in a table of numbers. *)
LEMMA CountsIn ==
  ASSUME NEW S, NEW f \in [S -> Nat], NEW x, NEW v, x \in S => v \in Nat
  PROVE  [f EXCEPT ![x] = v] \in [S -> Nat]
BY Zenon

(* A step of a handler that stays at work keeps the invariant. *)
LEMMA HandlerStep ==
  ASSUME IInv, TypeOK', NEW t \in Threads, NEW p, pc' = [pc EXCEPT ![t] = p],
         Handling(t), Working(t)', active' = active, front' = front
  PROVE  IInv'
<1>1. active' = Cardinality(Counted')
  <2>1. t \in Counted <=> t \in Counted'
    BY Zenon DEF Counted, Working, Handling
  <2> QED BY <2>1, CountSame, Zenon
<1>2. ~\E u \in Threads : pc[u] = "done"
  BY Zenon DEF IInv, NoEarlyExit
<1>3. ~\E u \in Threads : pc'[u] = "done"
  BY <1>2, Zenon DEF IInv, TypeOK, Working, Handling
<1> QED BY <1>1, <1>3, Zenon DEF IInv, NoEarlyExit

(* queue_pop hands its inode to the thread, or the thread starts to leave. *)
LEMMA PopStep == ASSUME IInv, NEW t \in Threads, Pop(t) PROVE IInv'
<1>1. TypeOK
  BY Zenon DEF IInv
<1>2. pc[t] = "pop" /\ active' = active /\ data' = data
  BY Zenon DEF Pop, tab, pm
<1>3. CASE /\ front < Len(data)
           /\ cur' = [cur EXCEPT ![t] = data[front + 1]]
           /\ front' = front + 1
           /\ Goto(t, "handle")
  <2>1. pc' = [pc EXCEPT ![t] = "handle"] /\ data[front + 1] \in Inodes
    BY <1>1, <1>3 DEF Goto, TypeOK
  <2>2. TypeOK'
    BY <1>1, <1>3, <2>1, SMTT(90) DEF Pop, TypeOK, tab, pm, regs
  <2>3. pc'[t] = "handle"
    BY <1>1, <2>1, Zenon DEF TypeOK
  <2>4. active' = Cardinality(Counted')
    <3>1. t \in Counted <=> t \in Counted'
      BY <1>2, <2>3, Zenon DEF Counted, Handling
    <3> QED BY <1>2, <2>1, <3>1, CountSame, Zenon
  <2>5. Working(t)'
    BY <2>3, Zenon DEF Working, Handling
  <2>6. ~\E u \in Threads : pc[u] = "done"
    BY <1>1, <1>3 DEF IInv, NoEarlyExit, TypeOK
  <2>7. ~\E u \in Threads : pc'[u] = "done"
    BY <1>1, <2>1, <2>6, Zenon DEF TypeOK
  <2> QED BY <2>2, <2>4, <2>5, <2>7, Zenon DEF IInv, NoEarlyExit
<1>4. CASE /\ front >= Len(data)
           /\ Goto(t, "leave")
           /\ UNCHANGED <<cur, front>>
  <2>1. pc' = [pc EXCEPT ![t] = "leave"]
    BY <1>4, Zenon DEF Goto
  <2>2. TypeOK'
    BY <1>1, <1>4, <2>1, Zenon DEF Pop, TypeOK, tab, pm, regs
  <2>3. pc'[t] = "leave"
    BY <1>1, <2>1, Zenon DEF TypeOK
  <2>4. active' = Cardinality(Counted')
    <3>1. t \in Counted <=> t \in Counted'
      BY <1>2, <2>3, Zenon DEF Counted, Handling
    <3> QED BY <1>2, <2>1, <3>1, CountSame, Zenon
  <2>5. front' = front /\ ~(front < Len(data))
    BY <1>1, <1>4 DEF TypeOK
  <2>6. NoEarlyExit'
    <3>1. \A u \in Threads : (pc'[u] = "done" => pc[u] = "done") /\ (Handling(u)' => Handling(u))
      BY <1>1, <2>1, Zenon DEF TypeOK, Handling
    <3> QED BY <1>2, <2>5, <3>1, Zenon DEF IInv, NoEarlyExit
  <2> QED BY <1>2, <2>2, <2>4, <2>5, <2>6, Zenon DEF IInv
<1> QED BY <1>3, <1>4, Zenon DEF Pop

(* The thread that leaves is not the one a queue with work relies on. *)
LEMMA LeaveStep == ASSUME IInv, NEW t \in Threads, Leave(t) PROVE IInv'
<1>1. TypeOK
  BY Zenon DEF IInv
<1>2. /\ pc[t] = "leave" /\ active' = active - 1 /\ pc' = [pc EXCEPT ![t] = "check_active"]
      /\ front' = front /\ data' = data
  BY Zenon DEF Leave, Goto, queue
<1>3. pc'[t] = "check_active"
  BY <1>1, <1>2, Zenon DEF TypeOK
<1>4. active' = Cardinality(Counted')
  <2>1. t \in Counted /\ t \notin Counted'
    BY <1>2, <1>3, Zenon DEF Counted, Handling
  <2> QED BY <1>2, <2>1, CountLess, Zenon
<1>5. active' \in 0 .. Cardinality(Threads)
  <2>1. Counted' \subseteq Threads
    BY Zenon DEF Counted
  <2> QED BY <1>4, <2>1, PoolFinite, Zenon
<1>6. TypeOK'
  BY <1>1, <1>2, <1>5, Zenon DEF Leave, TypeOK, queue, tab, walk, pm, regs
<1>7. \A u \in Threads : /\ Working(u) => Working(u)'
                         /\ pc'[u] = "done" => pc[u] = "done"
                         /\ Handling(u)' => Handling(u)
  BY <1>1, <1>2, Zenon DEF TypeOK, Working, Handling
<1> QED BY <1>2, <1>4, <1>6, <1>7, Zenon DEF IInv, NoEarlyExit

(* A thread that sees active_thread = 0 sees a pool with nothing to do. *)
LEMMA CheckActiveStep == ASSUME IInv, NEW t \in Threads, CheckActive(t) PROVE IInv'
<1>1. TypeOK
  BY Zenon DEF IInv
<1>2. PICK p \in {"done", "check_queue"} :
        pc' = [pc EXCEPT ![t] = p] /\ (p = "done" => active = 0)
  BY Zenon DEF CheckActive, Goto
<1>3. /\ pc[t] = "check_active" /\ active' = active /\ front' = front /\ data' = data
  BY Zenon DEF CheckActive, queue
<1>4. TypeOK'
  BY <1>1, <1>2, Zenon DEF CheckActive, TypeOK, queue, tab, walk, pm, regs
<1>5. pc'[t] = p
  BY <1>1, <1>2, Zenon DEF TypeOK
<1>6. active' = Cardinality(Counted')
  <2>1. t \in Counted <=> t \in Counted'
    BY <1>3, <1>5, Zenon DEF Counted, Handling
  <2> QED BY <1>2, <1>3, <2>1, CountSame, Zenon
<1>7. \A u \in Threads : /\ Working(u) => Working(u)'
                         /\ u # t /\ pc'[u] = "done" => pc[u] = "done"
                         /\ Handling(u)' => Handling(u)
  BY <1>1, <1>2, <1>3, Zenon DEF TypeOK, Working, Handling
<1>8. NoEarlyExit'
  <2>1. CASE p = "done"
    BY <1>2, <1>3, <1>7, <2>1, ZeroMeansIdle, Zenon DEF NoEarlyExit, Working
  <2>2. CASE p # "done"
    BY <1>3, <1>5, <1>7, <2>2, Zenon DEF IInv, NoEarlyExit
  <2> QED BY <2>1, <2>2, Zenon
<1> QED BY <1>3, <1>4, <1>6, <1>7, <1>8, Zenon DEF IInv

(* The unlocked look at the queue changes nothing. *)
LEMMA CheckQueueStep == ASSUME IInv, NEW t \in Threads, CheckQueue(t) PROVE IInv'
<1>1. TypeOK
  BY Zenon DEF IInv
<1>2. PICK p \in {"rejoin", "check_active"} : pc' = [pc EXCEPT ![t] = p]
  BY Zenon DEF CheckQueue, Goto
<1>3. /\ pc[t] = "check_queue" /\ active' = active /\ front' = front /\ data' = data
  BY Zenon DEF CheckQueue, queue
<1>4. TypeOK'
  BY <1>1, <1>2, Zenon DEF CheckQueue, TypeOK, queue, tab, walk, pm, regs
<1>5. pc'[t] = p
  BY <1>1, <1>2, Zenon DEF TypeOK
<1>6. active' = Cardinality(Counted')
  <2>1. t \in Counted <=> t \in Counted'
    BY <1>3, <1>5, Zenon DEF Counted, Handling
  <2> QED BY <1>2, <1>3, <2>1, CountSame, Zenon
<1>7. \A u \in Threads : /\ Working(u) => Working(u)'
                         /\ pc'[u] = "done" => pc[u] = "done"
                         /\ Handling(u)' => Handling(u)
  BY <1>1, <1>2, <1>3, Zenon DEF TypeOK, Working, Handling
<1> QED BY <1>3, <1>4, <1>6, <1>7, Zenon DEF IInv, NoEarlyExit

(* A thread that rejoins is counted before it looks at the queue again. *)
LEMMA RejoinStep == ASSUME IInv, NEW t \in Threads, Rejoin(t) PROVE IInv'
<1>1. TypeOK
  BY Zenon DEF IInv
<1>2. /\ pc[t] = "rejoin" /\ active' = active + 1 /\ pc' = [pc EXCEPT ![t] = "pop"]
      /\ front' = front /\ data' = data
  BY Zenon DEF Rejoin, Goto, queue
<1>3. pc'[t] = "pop"
  BY <1>1, <1>2, Zenon DEF TypeOK
<1>4. active' = Cardinality(Counted')
  <2>1. t \notin Counted /\ t \in Counted'
    BY <1>2, <1>3, Zenon DEF Counted, Handling
  <2> QED BY <1>2, <2>1, CountMore, Zenon
<1>5. active' \in 0 .. Cardinality(Threads)
  <2>1. Counted' \subseteq Threads
    BY Zenon DEF Counted
  <2> QED BY <1>4, <2>1, PoolFinite, Zenon
<1>6. TypeOK'
  BY <1>1, <1>2, <1>5, Zenon DEF Rejoin, TypeOK, queue, tab, walk, pm, regs
<1>7. \A u \in Threads : /\ Working(u) => Working(u)'
                         /\ pc'[u] = "done" => pc[u] = "done"
                         /\ Handling(u)' => Handling(u)
  BY <1>1, <1>2, Zenon DEF TypeOK, Working, Handling
<1> QED BY <1>2, <1>4, <1>6, <1>7, Zenon DEF IInv, NoEarlyExit

(* The steps of rc_handle_inode and rc_handle_dirent keep their thread at   *)
(* work; only Push touches the queue, and it only adds to it.              *)
LEMMA HandleStep ==
  ASSUME IInv, NEW t \in Threads,
         \/ HandleInode(t) \/ Iget(t) \/ Install(t) \/ ReadByte(t) \/ WriteByte(t)
         \/ ReadLink(t) \/ WriteLink(t) \/ Push(t)
  PROVE  IInv'
<1> USE DEF Goto, queue, tab, walk, pm, regs
<1>0. TypeOK
  BY Zenon DEF IInv
<1>i. image.head \in [Inodes -> Dirents \union {Null}] /\ image.ino \in [Dirents -> Inodes]
      /\ image.next \in [Dirents -> Dirents \union {Null}]
  BY <1>0, ImageAssumption, Zenon DEF TypeOK
<1>s. \A u \in Threads : pc[u] \in {"iget", "install", "read_byte", "write_byte", "read_link",
                                 "write_link", "push"} => idx[u] \in Dirents /\ image.ino[idx[u]] \in Inodes
  BY <1>0, <1>i, Zenon DEF TypeOK
<1>1. CASE HandleInode(t)
  <2>1. TypeOK'
    BY <1>0, <1>i, <1>1, Zenon DEF HandleInode, TypeOK
  <2>2. Handling(t) /\ Working(t)'
    BY <1>0, <1>1, Zenon DEF HandleInode, TypeOK, Handling, Working
  <2> QED BY <1>1, <2>1, <2>2, HandlerStep, Zenon DEF HandleInode
<1>2. CASE Iget(t)
  <2>1. TypeOK'
    <3>1. PICK p \in {"read_byte", "install"} : pc' = [pc EXCEPT ![t] = p]
      BY <1>2, Zenon DEF Iget
    <3>2. child' \in [Threads -> Owners]
      BY <1>0, <1>s, <1>2, Zenon DEF Iget, TypeOK
    <3>3. UNCHANGED <<pm, queue, active, tab, map, walk, byte, count>> /\ pc[t] = "iget"
      BY <1>2, Zenon DEF Iget
    <3>4. \A u \in Threads : pc'[u] \in {"iget", "install", "read_byte", "write_byte", "read_link",
                                        "write_link", "push"} => idx'[u] # Null
      BY <1>0, <3>1, <3>3, Zenon DEF TypeOK
    <3>5. pc' \in [Threads -> {"pop", "leave", "check_active", "check_queue", "rejoin", "done",
                              "handle", "read_ibyte", "write_ibyte", "iget", "install", "read_byte",
                              "write_byte", "read_link", "write_link", "push"}]
      BY <1>0, <3>1, Zenon DEF TypeOK
    <3> QED BY <1>0, <3>2, <3>3, <3>4, <3>5, Zenon DEF TypeOK
  <2>2. Handling(t) /\ Working(t)'
    BY <1>0, <1>2, Zenon DEF Iget, TypeOK, Handling, Working
  <2> QED BY <1>2, <2>1, <2>2, HandlerStep, Zenon DEF Iget
<1>3. CASE Install(t)
  <2>1. TypeOK'
    <3>1. table' \in [Inodes -> Owners \union {Null}] /\ child' \in [Threads -> Owners]
      BY <1>0, <1>s, <1>3, Zenon DEF Install, TypeOK
    <3> QED BY <1>0, <1>3, <3>1, Zenon DEF Install, TypeOK
  <2>2. Handling(t) /\ Working(t)'
    BY <1>0, <1>3, Zenon DEF Install, TypeOK, Handling, Working
  <2> QED BY <1>3, <2>1, <2>2, HandlerStep, Zenon DEF Install
<1>4. CASE ReadByte(t)
  <2>1. TypeOK'
    BY <1>0, <1>4, Zenon DEF ReadByte, TypeOK
  <2>2. Handling(t) /\ Working(t)'
    BY <1>0, <1>4, Zenon DEF ReadByte, TypeOK, Handling, Working
  <2> QED BY <1>4, <2>1, <2>2, HandlerStep, Zenon DEF ReadByte
<1>5. CASE WriteByte(t)
  <2>1. TypeOK'
    <3>1. Marking(t) \in Inodes \union Dirents
      BY <1>0, <1>s, <1>5, Zenon DEF WriteByte, TypeOK, Marking
    <3>2. map' \subseteq Inodes \union Dirents
      BY <1>0, <1>5, <3>1, Zenon DEF WriteByte, TypeOK
    <3>3. PICK p \in {"pop", "iget", "read_link"} :
            pc' = [pc EXCEPT ![t] = p] /\ (p # "pop" => idx[t] # Null)
      BY <1>0, <1>5, Zenon DEF WriteByte, AtEntry, TypeOK
    <3>4. UNCHANGED <<pm, queue, active, tab, walk, regs>>
      BY <1>5, Zenon DEF WriteByte
    <3> QED BY <1>0, <3>2, <3>3, <3>4, Zenon DEF TypeOK
  <2>2. Handling(t) /\ Working(t)'
    BY <1>0, <1>5, Zenon DEF WriteByte, TypeOK, Handling, Working, AtEntry
  <2> QED BY <1>5, <2>1, <2>2, HandlerStep, Zenon DEF WriteByte
<1>6. CASE ReadLink(t)
  <2>1. TypeOK'
    <3>1. count' \in [Threads -> Nat]
      BY <1>0, <1>s, <1>6, Zenon DEF ReadLink, TypeOK, Objs
    <3> QED BY <1>0, <1>6, <3>1, Zenon DEF ReadLink, TypeOK
  <2>2. Handling(t) /\ Working(t)'
    BY <1>0, <1>6, Zenon DEF ReadLink, TypeOK, Handling, Working
  <2> QED BY <1>6, <2>1, <2>2, HandlerStep, Zenon DEF ReadLink
<1>7. CASE WriteLink(t)
  <2>1. TypeOK'
    <3>1. link' \in [Objs -> Nat]
      <4>1. count[t] + 1 \in Nat /\ link \in [Objs -> Nat]
        BY <1>0 DEF TypeOK
      <4>2. link' = [link EXCEPT ![<<image.ino[idx[t]], child[t]>>] = count[t] + 1]
        BY <1>7, Zenon DEF WriteLink
      <4> QED BY <4>1, <4>2, CountsIn, Zenon
    <3> QED BY <1>0, <1>7, <3>1, Zenon DEF WriteLink, TypeOK
  <2>2. Handling(t) /\ Working(t)'
    BY <1>0, <1>7, Zenon DEF WriteLink, TypeOK, Handling, Working
  <2> QED BY <1>7, <2>1, <2>2, HandlerStep, Zenon DEF WriteLink
<1>8. CASE Push(t)
  <2>1. TypeOK'
    <3>1. data' \in Seq(Inodes) /\ Len(data') >= Len(data)
      BY <1>0, <1>s, <1>8 DEF Push, TypeOK
    <3>2. front' \in 0 .. Len(data')
      BY <1>0, <1>8, <3>1 DEF Push, TypeOK
    <3>3. num' \in [Objs -> Nat]
      <4> DEFINE x == <<cur[t], obj[t]>>
      <4>1. num' = [num EXCEPT ![x] = num[x] + 1] /\ num \in [Objs -> Nat]
        BY <1>0, <1>8, Zenon DEF Push, TypeOK
      <4> HIDE DEF x
      <4>2. x \in Objs => num[x] + 1 \in Nat
        BY <4>1
      <4> QED BY <4>1, <4>2, CountsIn, Zenon
    <3>4. idx' \in [Threads -> Dirents \union {Null}]
      BY <1>0, <1>i, <1>s, <1>8, Zenon DEF Push, TypeOK
    <3>5. PICK p \in {"pop", "iget"} :
            pc' = [pc EXCEPT ![t] = p] /\ (p = "iget" => idx'[t] # Null)
      BY <1>0, <1>8, Zenon DEF Push, AtEntry, TypeOK
    <3>6. idx' = [idx EXCEPT ![t] = image.next[idx[t]]]
          /\ UNCHANGED <<pm, front, active, table, link, map, cur, obj, regs>>
      BY <1>8, Zenon DEF Push
    <3> QED BY <1>0, <3>1, <3>2, <3>3, <3>4, <3>5, <3>6, Zenon DEF TypeOK
  <2>2. Handling(t) /\ Working(t)'
    BY <1>0, <1>8, Zenon DEF Push, TypeOK, Handling, Working, AtEntry
  <2> QED BY <1>8, <2>1, <2>2, HandlerStep, Zenon DEF Push
<1> QED BY <1>1, <1>2, <1>3, <1>4, <1>5, <1>6, <1>7, <1>8, Zenon

(* rc_flush runs when the pool is gone. *)
LEMMA FlushStep == ASSUME IInv, Flush PROVE IInv'
<1>1. TypeOK
  BY Zenon DEF IInv
<1>2. UNCHANGED <<image, queue, active, tab, map, pc, walk, regs>>
  BY Zenon DEF Flush
<1>3. pnum' \in [Inodes -> Nat]
  <2>1. ASSUME NEW i \in Inodes, table[i] # Null PROVE num[<<i, table[i]>>] \in Nat
    BY <1>1, <2>1, Zenon DEF TypeOK, Objs
  <2> QED BY <1>1, <2>1, Zenon DEF Flush, TypeOK
<1>4. TypeOK'
  <2>1. pmap' \subseteq Inodes \union Dirents /\ main' \in {"join", "exit"}
    BY <1>1, Zenon DEF Flush, TypeOK
  <2> QED BY <1>1, <1>2, <1>3, <2>1, Zenon DEF TypeOK, queue, tab, walk, regs
<1>5. Counted' = Counted /\ \A t \in Threads : Working(t)' = Working(t) /\ Handling(t)' = Handling(t)
  BY <1>2, Zenon DEF Counted, Working, Handling
<1> QED BY <1>2, <1>4, <1>5, Zenon DEF IInv, NoEarlyExit, queue

(* recover() starts with the root queued and every thread counted. *)
LEMMA InvInit == Init => IInv
<1> SUFFICES ASSUME Init PROVE IInv
  OBVIOUS
<1>1. Counted = Threads
  BY Zenon DEF Init, Counted
<1>2. Cardinality(Threads) \in 0 .. Cardinality(Threads)
  BY PoolFinite, Zenon
<1>3. TypeOK
  <2>1. link \in [Objs -> Nat] /\ num \in [Objs -> Nat]
    BY GarbageAssumption DEF Init
  <2>2. table \in [Inodes -> Owners \union {Null}]
    BY Zenon DEF Init
  <2>3. data \in Seq(Inodes) /\ front \in 0 .. Len(data)
    BY ImageAssumption DEF Init
  <2> QED BY <1>2, <2>1, <2>2, <2>3, ImageAssumption, Zenon DEF Init, TypeOK
<1>4. (\E t \in Threads : Working(t)) /\ ~\E t \in Threads : pc[t] = "done"
  BY ThreadsAssumption, Zenon DEF Init, Working
<1> QED BY <1>1, <1>3, <1>4, Zenon DEF IInv, Init, NoEarlyExit

(* Every step of recovery keeps the invariant. *)
LEMMA InvStep == IInv /\ [Next]_vars => IInv'
<1> SUFFICES ASSUME IInv, [Next]_vars PROVE IInv'
  OBVIOUS
<1>1. CASE UNCHANGED vars
  <2>1. TypeOK'
    BY <1>1, Zenon DEF IInv, TypeOK, vars
  <2>2. Counted' = Counted /\ \A t \in Threads : Working(t)' = Working(t) /\ Handling(t)' = Handling(t)
    BY <1>1, Zenon DEF Counted, Working, Handling, vars
  <2> QED BY <1>1, <2>1, <2>2, Zenon DEF IInv, NoEarlyExit, vars
<1>2. CASE Flush
  BY <1>2, FlushStep, Zenon
<1>3. ASSUME NEW t \in Threads, rc_replay(t) PROVE IInv'
  BY <1>3, PopStep, LeaveStep, CheckActiveStep, CheckQueueStep, RejoinStep, HandleStep, Zenon DEF rc_replay
<1> QED BY <1>1, <1>2, <1>3, Zenon DEF Next

(* No recovery thread leaves while an inode is queued or being handled,    *)
(* for any number of threads and any PM image.                             *)
THEOREM PoolSafe == Spec => []NoEarlyExit
<1>1. IInv => NoEarlyExit
  BY Zenon DEF IInv
<1> QED BY InvInit, InvStep, <1>1, PTL DEF Spec

(* Type correctness of recovery. *)
THEOREM RecoverTyped == Spec => []TypeOK
<1>1. IInv => TypeOK
  BY Zenon DEF IInv
<1> QED BY InvInit, InvStep, <1>1, PTL DEF Spec

(* When recover() returns, every inode that can be reached from the root has been handled and  *)
(* no other: however the threads share the work, an inode whose entries are met by several of  *)
(* them is not lost.  malloc must leave zeroes in the link field of an rc_inode.               *)
THEOREM RecoversAll ==
  ASSUME Garbage = {0}
  PROVE  Spec => []AllHandled
BY PoolSafe, RecoverTyped, WalkHandlesAll, PTL

(* When recover() returns, the bitmaps mark the inodes and slots in use and nothing else, for   *)
(* any number of threads, unless two threads were between the load and the store of set_bit on *)
(* one byte: that race is the only way in which a mark is lost.                                *)
THEOREM RecoversMarks ==
  ASSUME Garbage = {0}
  PROVE  Spec /\ []NoByteRace => []SlotsMarked
BY PoolSafe, RecoverTyped, WalkMarksAll, PTL

(* In particular when no byte holds two of the bits. *)
THEOREM RecoversMarksApart ==
  ASSUME Garbage = {0}, \A a, b \in Inodes \union Dirents : ByteOf[a] = ByteOf[b] => a = b
  PROVE  Spec => []SlotsMarked
<1>1. TypeOK => NoByteRace
  <2> SUFFICES ASSUME TypeOK, NEW t \in Threads, Storing(t) PROVE Marking(t) \in Inodes \union Dirents
    BY Zenon DEF NoByteRace
  <2>1. Typed
    BY Zenon DEF Typed
  <2> QED BY <2>1, AtSlot, Zenon DEF TypeOK, Storing, Marking
<1> QED BY <1>1, RecoverTyped, RecoversMarks, PTL
=============================================================================
