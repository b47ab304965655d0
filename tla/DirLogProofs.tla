---------------------------- MODULE DirLogProofs ----------------------------
(***************************************************************************)
(* Proofs about the directory logs, for any number of directories, slots,  *)
(* names and inode numbers: whatever the crash point, every PM chain is    *)
(* intact, the chains share no slot, and the bitmap marks exactly the slots *)
(* in use.  The facts about chains and about the slots a directory         *)
(* accounts for come first, then the inductive invariant, then one lemma   *)
(* for each store of an append and of a removal.  The last part proves     *)
(* that the entries a walk of the PM log finds change only by the one an   *)
(* operation works on.                                                     *)
(***************************************************************************)
EXTENDS DirLog, TLAPS

(* Removing the k-th element of a sequence. *)
LEMMA RemoveAtProps ==
  ASSUME NEW S, NEW L \in Seq(S), NEW k \in 1 .. Len(L)
  PROVE  /\ RemoveAt(L, k) \in Seq(S)
         /\ Len(RemoveAt(L, k)) = Len(L) - 1
         /\ \A i \in 1 .. Len(L) - 1 :
              RemoveAt(L, k)[i] = IF i < k THEN L[i] ELSE L[i + 1]
<1> DEFINE A == SubSeq(L, 1, k - 1)
           B == SubSeq(L, k + 1, Len(L))
<1>1. A \in Seq(S) /\ Len(A) = k - 1 /\ \A i \in 1 .. k - 1 : A[i] = L[i]
  OBVIOUS
<1>2. B \in Seq(S) /\ Len(B) = Len(L) - k /\ \A i \in 1 .. Len(L) - k : B[i] = L[i + k]
  OBVIOUS
<1>3. RemoveAt(L, k) = A \o B
  BY Zenon DEF RemoveAt
<1> HIDE DEF A, B
<1>4. /\ A \o B \in Seq(S) /\ Len(A \o B) = Len(A) + Len(B)
      /\ \A i \in 1 .. Len(A) + Len(B) :
           (A \o B)[i] = IF i <= Len(A) THEN A[i] ELSE B[i - Len(A)]
  <2> SUFFICES ASSUME A \in Seq(S), B \in Seq(S)
               PROVE  /\ A \o B \in Seq(S) /\ Len(A \o B) = Len(A) + Len(B)
                      /\ \A i \in 1 .. Len(A) + Len(B) :
                           (A \o B)[i] = IF i <= Len(A) THEN A[i] ELSE B[i - Len(A)]
    BY <1>1, <1>2, Zenon
  <2> QED OBVIOUS
<1> QED BY <1>1, <1>2, <1>3, <1>4, SMTT(90)

(* The i-th slot of a log L that ends in slot t. *)
At(L, t, i) == IF i <= Len(L) THEN L[i] ELSE t

(* p chains the slots of L from h on and ends in the empty slot t. *)
Linked(p, h, L, t) ==
  /\ h = At(L, t, 1)
  /\ \A i \in 1 .. Len(L) : p[L[i]] = At(L, t, i + 1)
  /\ p[t] = Null

Distinct(L) == \A i, j \in 1 .. Len(L) : L[i] = L[j] => i = j

Misses(L, t) == \A i \in 1 .. Len(L) : L[i] # t

(* A list without repetitions has none once an entry is removed, and gains no slot. *)
LEMMA DistinctRemove ==
  ASSUME NEW L \in Seq(Slots), NEW k \in 1 .. Len(L), Distinct(L)
  PROVE  Distinct(RemoveAt(L, k)) /\ \A g : Misses(L, g) => Misses(RemoveAt(L, k), g)
<1> DEFINE M == RemoveAt(L, k)
           r(i) == IF i < k THEN i ELSE i + 1
<1>1. /\ M \in Seq(Slots) /\ Len(M) = Len(L) - 1
      /\ \A i \in 1 .. Len(L) - 1 : M[i] = IF i < k THEN L[i] ELSE L[i + 1]
  BY RemoveAtProps, Zenon
<1>2. Len(L) \in Nat
  OBVIOUS
<1> HIDE DEF M
<1>3. \A i \in 1 .. Len(M) : r(i) \in 1 .. Len(L) /\ M[i] = L[r(i)]
  BY <1>1, <1>2
<1>4. \A i, j \in 1 .. Len(M) : r(i) = r(j) => i = j
  BY <1>1, <1>2
<1> HIDE DEF r
<1>5. ASSUME NEW i \in 1 .. Len(M), NEW j \in 1 .. Len(M), M[i] = M[j] PROVE i = j
  <2>1. L[r(i)] = L[r(j)] /\ r(i) \in 1 .. Len(L) /\ r(j) \in 1 .. Len(L)
    BY <1>3, <1>5, Zenon
  <2>2. r(i) = r(j)
    BY <2>1, Zenon DEF Distinct
  <2> QED BY <1>4, <2>2, Zenon
<1>6. \A g : Misses(L, g) => Misses(M, g)
  BY <1>3, Zenon DEF Misses
<1> QED BY <1>5, <1>6, Zenon DEF Distinct, M

(* A store outside the chain leaves it alone. *)
LEMMA LinkedFrame ==
  ASSUME NEW p, NEW q, NEW h, NEW L \in Seq(Slots), NEW t,
         Linked(p, h, L, t),
         \A i \in 1 .. Len(L) : q[L[i]] = p[L[i]],
         q[t] = p[t]
  PROVE  Linked(q, h, L, t)
  BY Zenon DEF Linked

(* pd->next = dir->ghost_slot: the old tail a becomes the last entry. *)
LEMMA LinkedAppend ==
  ASSUME NEW p \in [Slots -> Slots \union {Null}], NEW h, NEW L \in Seq(Slots),
         NEW a \in Slots, NEW g \in Slots,
         Linked(p, h, L, a), Misses(L, a), g # a, p[g] = Null
  PROVE  Linked([p EXCEPT ![a] = g], h, Append(L, a), g)
<1> DEFINE q == [p EXCEPT ![a] = g]
           M == Append(L, a)
<1>1. M \in Seq(Slots) /\ Len(M) = Len(L) + 1
      /\ \A i \in 1 .. Len(L) + 1 : M[i] = At(L, a, i)
  BY DEF At
<1>2. q[a] = g /\ \A s \in Slots : s # a => q[s] = p[s]
  OBVIOUS
<1> HIDE DEF q, M
<1>3. h = At(M, g, 1)
  BY <1>1 DEF Linked, At
<1>4. ASSUME NEW i \in 1 .. Len(M) PROVE q[M[i]] = At(M, g, i + 1)
  <2>1. CASE i <= Len(L)
    <3>1. M[i] = L[i] /\ L[i] \in Slots /\ L[i] # a
      BY <1>1, <2>1 DEF At, Misses
    <3>2. p[L[i]] = At(L, a, i + 1)
      BY <2>1 DEF Linked
    <3>3. At(M, g, i + 1) = M[i + 1] /\ M[i + 1] = At(L, a, i + 1)
      BY <1>1, <2>1 DEF At
    <3> QED BY <1>2, <3>1, <3>2, <3>3, Zenon
  <2>2. CASE i = Len(L) + 1
    BY <1>1, <1>2, <2>2 DEF At
  <2> QED BY <1>1, <2>1, <2>2
<1>5. q[g] = Null
  BY <1>2, Zenon
<1> QED BY <1>3, <1>4, <1>5, Zenon DEF Linked, q, M

(* *prev_ptr = next_ptr, when prev_ptr is in the inode and when it is in   *)
(* the slot before.                                                        *)
LEMMA LinkedRemoveFirst ==
  ASSUME NEW p, NEW h, NEW L \in Seq(Slots), NEW t, Len(L) > 0, Linked(p, h, L, t)
  PROVE  Linked(p, At(L, t, 2), RemoveAt(L, 1), t)
<1>1. /\ RemoveAt(L, 1) \in Seq(Slots) /\ Len(RemoveAt(L, 1)) = Len(L) - 1
      /\ \A i \in 1 .. Len(L) - 1 : RemoveAt(L, 1)[i] = L[i + 1]
  BY RemoveAtProps, SMTT(90)
<1> DEFINE M == RemoveAt(L, 1)
<1> HIDE DEF M
<1>2. \A i \in 1 .. Len(L) : At(M, t, i) = At(L, t, i + 1)
  BY <1>1 DEF At, M
<1>3. \A i \in 1 .. Len(M) : p[M[i]] = At(M, t, i + 1)
  <2> SUFFICES ASSUME NEW i \in 1 .. Len(M) PROVE p[M[i]] = At(M, t, i + 1)
    OBVIOUS
  <2>1. M[i] = L[i + 1] /\ i + 1 \in 1 .. Len(L)
    BY <1>1 DEF M
  <2>2. p[L[i + 1]] = At(L, t, i + 1 + 1)
    BY <2>1, Zenon DEF Linked
  <2> QED BY <1>2, <2>1, <2>2, Zenon
<1> QED BY <1>2, <1>3 DEF Linked, M

(* Unlinking a slot that is not the head: its predecessor now points past it. *)
LEMMA LinkedRemoveLater ==
  ASSUME NEW p \in [Slots -> Slots \union {Null}], NEW h, NEW L \in Seq(Slots), NEW t \in Slots,
         NEW k \in 2 .. Len(L), Linked(p, h, L, t), Distinct(L), Misses(L, t)
  PROVE  Linked([p EXCEPT ![L[k - 1]] = At(L, t, k + 1)], h, RemoveAt(L, k), t)
<1> DEFINE q == [p EXCEPT ![L[k - 1]] = At(L, t, k + 1)]
           M == RemoveAt(L, k)
<1>0. Len(L) \in Nat /\ k \in 1 .. Len(L) /\ \A i \in 1 .. Len(L) : L[i] \in Slots
  OBVIOUS
<1>1. /\ M \in Seq(Slots) /\ Len(M) = Len(L) - 1
      /\ \A i \in 1 .. Len(L) - 1 : M[i] = IF i < k THEN L[i] ELSE L[i + 1]
  BY <1>0, RemoveAtProps, Zenon
<1> HIDE DEF M
<1>2. L[k - 1] \in Slots /\ q[L[k - 1]] = At(L, t, k + 1)
      /\ \A s \in Slots : s # L[k - 1] => q[s] = p[s]
  OBVIOUS
<1> HIDE DEF q
<1>3. h = At(M, t, 1)
  BY <1>1 DEF Linked, At
<1>4. q[t] = Null
  BY <1>2 DEF Linked, Misses
<1>5. ASSUME NEW i \in 1 .. Len(M) PROVE q[M[i]] = At(M, t, i + 1)
  <2>1. CASE i = k - 1
    BY <1>1, <1>2, <2>1 DEF At
  <2>2. CASE i < k - 1
    <3>1. M[i] = L[i] /\ L[i] \in Slots /\ L[i] # L[k - 1]
      <4>1. i \in 1 .. Len(L) - 1 /\ i \in 1 .. Len(L) /\ k - 1 \in 1 .. Len(L)
            /\ i # k - 1 /\ i < k
        BY <1>0, <1>1, <2>2
      <4> QED BY <1>0, <1>1, <4>1, Zenon DEF Distinct
    <3>2. At(M, t, i + 1) = L[i + 1] /\ p[L[i]] = L[i + 1]
      BY <1>1, <2>2, SMTT(90) DEF At, Linked
    <3> QED BY <1>2, <3>1, <3>2, Zenon
  <2>3. CASE i >= k
    <3>1. M[i] = L[i + 1] /\ L[i + 1] \in Slots /\ L[i + 1] # L[k - 1]
      <4>1. i \in 1 .. Len(L) - 1 /\ i + 1 \in 1 .. Len(L) /\ k - 1 \in 1 .. Len(L)
            /\ i + 1 # k - 1 /\ ~(i < k)
        BY <1>0, <1>1, <2>3
      <4> QED BY <1>0, <1>1, <4>1, Zenon DEF Distinct
    <3>2. At(M, t, i + 1) = At(L, t, i + 2) /\ p[L[i + 1]] = At(L, t, i + 2)
      BY <1>1, <2>3, SMTT(90) DEF At, Linked
    <3> QED BY <1>2, <3>1, <3>2, Zenon
  <2> QED BY <1>1, <2>1, <2>2, <2>3
<1> QED BY <1>3, <1>4, <1>5, Zenon DEF Linked, q, M
-----------------------------------------------------------------------------
Appending(d) == pc[d] \in {"store_ino", "store_next", "store_name", "list_add"}
Removing(d) == pc[d] \in {"store_prev", "clear_next", "free"}

(* What holds of each directory: its list, what its operation has worked   *)
(* out so far, and its PM chain.                                           *)
DirInv(d) ==
  /\ Distinct(list[d])
  /\ pc[d] \in {"absent", "flush"} => list[d] = <<>>
  /\ pc[d] = "flush" => head[d] = ghost[d]
  /\ pc[d] # "absent" =>
       ghost[d] \in Slots /\ Misses(list[d], ghost[d]) /\ pnext[ghost[d]] = Null
  /\ Appending(d) =>
       target[d] \in Slots /\ target[d] # ghost[d] /\ Misses(list[d], target[d])
  /\ Removing(d) =>
       /\ pos[d] \in 1 .. Len(list[d])
       /\ target[d] = list[d][pos[d]]
       /\ next[d] = At(list[d], ghost[d], pos[d] + 1)
  /\ pc[d] = "store_prev" =>
       prev[d] = IF pos[d] = 1 THEN Null ELSE list[d][pos[d] - 1]
  /\ pc[d] = "free" => pnext[target[d]] = Null
  /\ d \in Live => Linked(pnext, phead[d], PmLog(d), PmTail(d))
  /\ d \in Live =>
       head[d] = IF pc[d] = "store_prev" /\ pos[d] = 1 THEN next[d] ELSE phead[d]

OwnDisjoint == \A d, e \in Dirs : d # e => Own(d) \intersect Own(e) = {}

IInv ==
  /\ TypeOK
  /\ \A d \in Dirs : DirInv(d)
  /\ OwnDisjoint
  /\ UsedExact
  /\ FreeSlotsClean

(* The chain of a directory stays within the slots it accounts for. *)
LEMMA ChainOwned ==
  ASSUME TypeOK, NEW d \in Dirs, DirInv(d), d \in Live
  PROVE  /\ PmLog(d) \in Seq(Slots)
         /\ \A i \in 1 .. Len(PmLog(d)) : PmLog(d)[i] \in Own(d)
         /\ PmTail(d) \in Own(d)
         /\ PmTail(d) \in Slots
         /\ Distinct(PmLog(d)) /\ Misses(PmLog(d), PmTail(d))
<1> DEFINE L == list[d]
<1>1. L \in Seq(Slots) /\ pc[d] # "absent" /\ Distinct(L) /\ Misses(L, ghost[d])
      /\ ghost[d] \in Slots
  BY Zenon DEF TypeOK, DirInv, Live
<1>2. ghost[d] \in Own(d) /\ \A i \in 1 .. Len(L) : L[i] \in Own(d)
  BY <1>1 DEF Own, Range
<1>3. CASE pc[d] \in {"store_name", "list_add"}
  <2>1. PmLog(d) = Append(L, target[d]) /\ PmTail(d) = ghost[d]
    BY <1>3, Zenon DEF PmLog, PmTail
  <2>2. target[d] \in Slots /\ target[d] # ghost[d] /\ Misses(L, target[d])
        /\ target[d] \in Own(d)
    BY <1>3, Zenon DEF DirInv, Appending, Own
  <2>3. Append(L, target[d]) \in Seq(Slots) /\ Len(Append(L, target[d])) = Len(L) + 1
        /\ \A i \in 1 .. Len(L) + 1 :
             Append(L, target[d])[i] = IF i <= Len(L) THEN L[i] ELSE target[d]
    BY <1>1, <2>2
  <2> HIDE DEF L
  <2> QED BY <1>1, <1>2, <2>1, <2>2, <2>3 DEF Distinct, Misses
<1>4. CASE pc[d] \in {"clear_next", "free"}
  <2>1. PmLog(d) = RemoveAt(L, pos[d]) /\ PmTail(d) = ghost[d]
    BY <1>4, Zenon DEF PmLog, PmTail
  <2>2. pos[d] \in 1 .. Len(L)
    BY <1>4, Zenon DEF DirInv, Removing
  <2>3. RemoveAt(L, pos[d]) \in Seq(Slots) /\ Len(RemoveAt(L, pos[d])) = Len(L) - 1
        /\ \A i \in 1 .. Len(L) - 1 :
             RemoveAt(L, pos[d])[i] = IF i < pos[d] THEN L[i] ELSE L[i + 1]
    BY <1>1, <2>2, RemoveAtProps, Zenon
  <2> DEFINE M == RemoveAt(L, pos[d])
  <2> HIDE DEF L, M
  <2>4. \A i \in 1 .. Len(M) : M[i] \in Own(d) /\ M[i] # ghost[d]
    BY <1>1, <1>2, <2>2, <2>3, SMTT(90) DEF Misses, M
  <2>5. Distinct(M)
    BY <1>1, <2>2, DistinctRemove, Zenon DEF M
  <2> QED BY <1>1, <1>2, <2>1, <2>3, <2>4, <2>5, Zenon DEF Misses, M
<1>5. CASE pc[d] \notin {"store_name", "list_add", "clear_next", "free"}
  <2>1. PmLog(d) = L
    BY <1>5, Zenon DEF PmLog
  <2>2. CASE pc[d] \in {"store_ino", "store_next"}
    <3>1. PmTail(d) = target[d] /\ target[d] \in Own(d) /\ target[d] \in Slots
          /\ Misses(L, target[d])
      BY <2>2, Zenon DEF PmTail, Own, DirInv, Appending
    <3> QED BY <1>1, <1>2, <2>1, <3>1, Zenon
  <2>3. CASE pc[d] \notin {"store_ino", "store_next"}
    <3>1. PmTail(d) = ghost[d]
      BY <2>3, Zenon DEF PmTail
    <3> QED BY <1>1, <1>2, <2>1, <3>1, Zenon
  <2> QED BY <2>2, <2>3, Zenon
<1> QED BY <1>3, <1>4, <1>5, Zenon

(* The invariant gives the three statements about the logs. *)
LEMMA IInvMeaning == ASSUME IInv PROVE ChainIntact /\ LogsDisjoint
<1> SUFFICES ASSUME NEW d \in Live
             PROVE  /\ phead[d] = Chain(d)[1]
                    /\ \A i \in 1 .. Len(PmLog(d)) : pnext[PmLog(d)[i]] = Chain(d)[i + 1]
                    /\ pnext[PmTail(d)] = Null
                    /\ \A i, j \in DOMAIN Chain(d) : Chain(d)[i] = Chain(d)[j] => i = j
  BY Zenon DEF ChainIntact, LogsDisjoint, IInv, OwnDisjoint
<1>1. d \in Dirs /\ TypeOK /\ DirInv(d)
  BY Zenon DEF IInv, Live
<1>2. PmLog(d) \in Seq(Slots) /\ PmTail(d) \in Slots
      /\ Distinct(PmLog(d)) /\ Misses(PmLog(d), PmTail(d))
  BY <1>1, ChainOwned, Zenon
<1>3. Linked(pnext, phead[d], PmLog(d), PmTail(d))
  BY <1>1, Zenon DEF DirInv
<1>4. /\ Chain(d) \in Seq(Slots)
      /\ Len(Chain(d)) = Len(PmLog(d)) + 1
      /\ DOMAIN Chain(d) = 1 .. Len(PmLog(d)) + 1
      /\ \A i \in 1 .. Len(PmLog(d)) + 1 : Chain(d)[i] = At(PmLog(d), PmTail(d), i)
  BY <1>2 DEF Chain, At
<1>5. phead[d] = Chain(d)[1]
  BY <1>2, <1>3, <1>4 DEF Linked
<1>6. \A i \in 1 .. Len(PmLog(d)) : pnext[PmLog(d)[i]] = Chain(d)[i + 1]
  BY <1>2, <1>3, <1>4 DEF Linked
<1>7. \A i, j \in DOMAIN Chain(d) : Chain(d)[i] = Chain(d)[j] => i = j
  BY <1>2, <1>4 DEF At, Distinct, Misses
<1> QED BY <1>3, <1>5, <1>6, <1>7, Zenon DEF Linked

(* An element of a sequence is in its range. *)
LEMMA ElementInRange ==
  ASSUME NEW S, NEW L \in Seq(S), NEW i \in 1 .. Len(L)
  PROVE  L[i] \in Range(L)
  BY DEF Range

(* What is left to show when an operation ends: list and chain agree. *)
LEMMA IdleInv ==
  ASSUME NEW d \in Dirs, pc'[d] = "idle", Distinct(list'[d]), ghost'[d] \in Slots,
         Misses(list'[d], ghost'[d]), pnext'[ghost'[d]] = Null,
         Linked(pnext', phead'[d], list'[d], ghost'[d]), head'[d] = phead'[d]
  PROVE  DirInv(d)'
<1>1. PmLog(d)' = list'[d] /\ PmTail(d)' = ghost'[d] /\ ~ Appending(d)' /\ ~ Removing(d)'
  BY Zenon DEF PmLog, PmTail, Appending, Removing
<1>2. Linked(pnext, phead[d], PmLog(d), PmTail(d))'
  BY <1>1 DEF Linked, At
<1>3. Distinct(list[d])' /\ Misses(list[d], ghost[d])'
  BY Zenon DEF Distinct, Misses
<1> QED BY <1>1, <1>2, <1>3, Zenon DEF DirInv

(* A directory whose own variables are unchanged keeps its invariant as    *)
(* long as the slots it accounts for keep their next pointers.             *)
LEMMA FrameDir ==
  ASSUME TypeOK, NEW e \in Dirs, DirInv(e),
         pc'[e] = pc[e], list'[e] = list[e], ghost'[e] = ghost[e], head'[e] = head[e],
         target'[e] = target[e], pos'[e] = pos[e], prev'[e] = prev[e], next'[e] = next[e],
         phead'[e] = phead[e],
         \A s \in Own(e) : pnext'[s] = pnext[s]
  PROVE  DirInv(e)' /\ Own(e)' = Own(e)
<1>1. Own(e)' = Own(e)
  BY Zenon DEF Own
<1>2. /\ PmLog(e)' = PmLog(e) /\ PmTail(e)' = PmTail(e)
      /\ e \in Live' <=> e \in Live
      /\ Appending(e)' <=> Appending(e)
      /\ Removing(e)' <=> Removing(e)
  BY Zenon DEF PmLog, PmTail, Live, Appending, Removing
<1>3. e \in Live => Linked(pnext, phead[e], PmLog(e), PmTail(e))'
  <2> SUFFICES ASSUME e \in Live PROVE Linked(pnext', phead[e], PmLog(e), PmTail(e))
    BY <1>2 DEF Linked, At
  <2> QED BY ChainOwned, LinkedFrame, Zenon DEF DirInv
<1>4. pc[e] # "absent" => pnext'[ghost[e]] = pnext[ghost[e]]
  BY Zenon DEF Own
<1>5. pc[e] = "free" => pnext'[target[e]] = pnext[target[e]]
  <2> SUFFICES ASSUME pc[e] = "free" PROVE target[e] \in Own(e)
    BY Zenon
  <2>1. pos[e] \in 1 .. Len(list[e]) /\ target[e] = list[e][pos[e]] /\ list[e] \in Seq(Slots)
    BY Zenon DEF DirInv, Removing, TypeOK
  <2>2. target[e] \in Range(list[e])
    BY <2>1, ElementInRange, Zenon
  <2> QED BY <2>2, Zenon DEF Own
<1>6. /\ Distinct(list[e])' /\ (pc[e] \in {"absent", "flush"} => list[e] = <<>>)'
      /\ (pc[e] = "flush" => head[e] = ghost[e])'
  BY DEF DirInv, Distinct
<1>7. (pc[e] # "absent" =>
         ghost[e] \in Slots /\ Misses(list[e], ghost[e]) /\ pnext[ghost[e]] = Null)'
  BY <1>4, Zenon DEF DirInv, Misses
<1>8. (Appending(e) =>
         target[e] \in Slots /\ target[e] # ghost[e] /\ Misses(list[e], target[e]))'
  BY <1>2, Zenon DEF DirInv, Misses
<1>9. (Removing(e) =>
         /\ pos[e] \in 1 .. Len(list[e])
         /\ target[e] = list[e][pos[e]]
         /\ next[e] = At(list[e], ghost[e], pos[e] + 1))'
  BY <1>2, Zenon DEF DirInv, At
<1>10. /\ (pc[e] = "store_prev" =>
             prev[e] = IF pos[e] = 1 THEN Null ELSE list[e][pos[e] - 1])'
       /\ (pc[e] = "free" => pnext[target[e]] = Null)'
       /\ (e \in Live =>
             head[e] = IF pc[e] = "store_prev" /\ pos[e] = 1 THEN next[e] ELSE phead[e])'
  BY <1>2, <1>5, Zenon DEF DirInv
<1> QED BY <1>1, <1>2, <1>3, <1>6, <1>7, <1>8, <1>9, <1>10, Zenon DEF DirInv
-----------------------------------------------------------------------------
(* Everything but directory d is left alone, except that d may store next  *)
(* pointers into slots it accounts for.                                    *)
Others(d) ==
  /\ \A e \in Dirs : e # d =>
       /\ pc'[e] = pc[e] /\ list'[e] = list[e] /\ ghost'[e] = ghost[e]
       /\ head'[e] = head[e] /\ target'[e] = target[e] /\ pos'[e] = pos[e]
       /\ prev'[e] = prev[e] /\ next'[e] = next[e] /\ phead'[e] = phead[e]
  /\ \A s \in Slots : s \notin Own(d) => pnext'[s] = pnext[s]

(* A directory owns only slots of the table. *)
LEMMA OwnSlots == ASSUME TypeOK, NEW d \in Dirs, DirInv(d) PROVE Own(d) \subseteq Slots
<1>1. \A s \in Range(list[d]) : s \in Slots
  BY DEF Range, TypeOK
<1> QED BY <1>1, Zenon DEF Own, DirInv, Appending

(* A step of d leaves every other directory's log facts alone. *)
LEMMA FrameOthers ==
  ASSUME IInv, NEW d \in Dirs, Others(d), NEW e \in Dirs, e # d
  PROVE  DirInv(e)' /\ Own(e)' = Own(e)
<1>1. TypeOK /\ DirInv(e) /\ Own(e) \intersect Own(d) = {}
  BY Zenon DEF IInv, OwnDisjoint
<1>2. Own(e) \subseteq Slots
  BY <1>1, OwnSlots, Zenon
<1>3. \A s \in Own(e) : pnext'[s] = pnext[s]
  BY <1>1, <1>2, Zenon DEF Others
<1> QED BY <1>1, <1>3, FrameDir, Zenon DEF Others

(* A step of d that allocates and frees nothing. *)
LEMMA SameOwn ==
  ASSUME IInv, TypeOK', NEW d \in Dirs, Others(d), DirInv(d)',
         Own(d)' = Own(d), used' = used
  PROVE  IInv'
<1>1. \A e \in Dirs : DirInv(e)' /\ Own(e)' = Own(e)
  BY FrameOthers, Zenon
<1>2. OwnDisjoint'
  BY <1>1, Zenon DEF IInv, OwnDisjoint
<1>3. UsedExact'
  BY <1>1, Zenon DEF IInv, UsedExact
<1>4. Own(d) \subseteq used
  BY Zenon DEF IInv, UsedExact
<1>5. FreeSlotsClean'
  BY <1>4, Zenon DEF IInv, FreeSlotsClean, Others
<1> QED BY <1>1, <1>2, <1>3, <1>5, Zenon DEF IInv

(* A step of d that allocates slot g and stores nothing in PM. *)
LEMMA MoreOwn ==
  ASSUME IInv, TypeOK', NEW d \in Dirs, Others(d), DirInv(d)',
         NEW g \in Slots \ used, Own(d)' = Own(d) \union {g}, used' = used \union {g},
         pnext' = pnext
  PROVE  IInv'
<1>1. \A e \in Dirs : e # d => DirInv(e)' /\ Own(e)' = Own(e)
  BY FrameOthers, Zenon
<1>2. \A e \in Dirs : g \notin Own(e)
  BY Zenon DEF IInv, UsedExact
<1>3. OwnDisjoint'
  BY <1>1, <1>2 DEF IInv, OwnDisjoint
<1>4. UsedExact'
  BY <1>1, Zenon DEF IInv, UsedExact
<1>5. FreeSlotsClean'
  BY Zenon DEF IInv, FreeSlotsClean
<1> QED BY <1>1, <1>3, <1>4, <1>5, Zenon DEF IInv

(* A step of d that frees slot s, whose next pointer is 0. *)
LEMMA LessOwn ==
  ASSUME IInv, TypeOK', NEW d \in Dirs, Others(d), DirInv(d)',
         NEW s \in Own(d), Own(d)' = Own(d) \ {s}, used' = used \ {s},
         pnext' = pnext, pnext[s] = Null
  PROVE  IInv'
<1>1. \A e \in Dirs : e # d => DirInv(e)' /\ Own(e)' = Own(e)
  BY FrameOthers, Zenon
<1>2. \A e \in Dirs : e # d => s \notin Own(e)
  BY Zenon DEF IInv, OwnDisjoint
<1>3. OwnDisjoint'
  BY <1>1 DEF IInv, OwnDisjoint
<1>4. UsedExact'
  BY <1>1, <1>2 DEF IInv, UsedExact
<1>5. FreeSlotsClean'
  BY Zenon DEF IInv, FreeSlotsClean
<1> QED BY <1>1, <1>3, <1>4, <1>5, Zenon DEF IInv
-----------------------------------------------------------------------------
(* init_ghost_slot takes a free slot for a new directory; its next is 0 already. *)
LEMMA CreateLogStep == ASSUME IInv, NEW d \in Dirs, CreateLog(d) PROVE IInv'
<1>1. PICK g \in Slots \ used :
        /\ used' = used \union {g}
        /\ ghost' = [ghost EXCEPT ![d] = g]
        /\ head' = [head EXCEPT ![d] = g]
  BY Zenon DEF CreateLog
<1>2. /\ pc[d] = "absent" /\ pc' = [pc EXCEPT ![d] = "flush"]
      /\ UNCHANGED <<list, index, dname, dino, target, pos, prev, next,
                     phead, pnext, pname, pino>>
  BY Zenon DEF CreateLog, locals, pm
<1>3. TypeOK /\ DirInv(d) /\ g # Null
  BY NullAssumption, Zenon DEF IInv
<1>4. TypeOK'
  BY <1>1, <1>2, <1>3, Zenon DEF TypeOK
<1>5. pc'[d] = "flush" /\ ghost'[d] = g /\ head'[d] = g /\ list'[d] = <<>>
  BY <1>1, <1>2, <1>3, Zenon DEF TypeOK, DirInv
<1>6. pnext'[g] = Null
  BY <1>2, Zenon DEF IInv, FreeSlotsClean
<1>7. DirInv(d)'
  BY <1>5, <1>6 DEF DirInv, Distinct, Misses, Appending, Removing, Live
<1>8. Own(d)' = Own(d) \union {g}
  BY <1>2, <1>5 DEF Own, Range
<1>9. Others(d)
  BY <1>1, <1>2, <1>3, Zenon DEF Others, TypeOK
<1> QED BY <1>1, <1>2, <1>4, <1>7, <1>8, <1>9, MoreOwn, Zenon

(* inode_flush makes the new directory reachable with log_head at its ghost. *)
LEMMA FlushInodeStep == ASSUME IInv, NEW d \in Dirs, FlushInode(d) PROVE IInv'
<1>1. /\ pc[d] = "flush" /\ pc' = [pc EXCEPT ![d] = "idle"]
      /\ phead' = [phead EXCEPT ![d] = head[d]]
      /\ UNCHANGED <<used, list, index, ghost, head, dname, dino, target, pos, prev, next,
                     pnext, pname, pino>>
  BY Zenon DEF FlushInode, dram, locals
<1>2. TypeOK /\ DirInv(d)
  BY Zenon DEF IInv
<1>3. TypeOK'
  BY <1>1, <1>2, Zenon DEF TypeOK
<1>4. /\ pc'[d] = "idle" /\ list'[d] = <<>> /\ phead'[d] = ghost[d] /\ head[d] = ghost[d]
      /\ ghost[d] \in Slots /\ pnext[ghost[d]] = Null
  BY <1>1, <1>2, Zenon DEF TypeOK, DirInv
<1>5. PmLog(d)' = <<>> /\ PmTail(d)' = ghost[d]
  BY <1>1, <1>4, Zenon DEF PmLog, PmTail
<1>6. Linked(pnext, phead[d], PmLog(d), PmTail(d))'
  BY <1>1, <1>4, <1>5 DEF Linked, At
<1>7. DirInv(d)'
  BY <1>1, <1>4, <1>6 DEF DirInv, Distinct, Misses, Appending, Removing, Live
<1>8. Own(d)' = Own(d)
  BY <1>1, <1>4, Zenon DEF Own
<1>9. Others(d)
  BY <1>1, <1>2, Zenon DEF Others, TypeOK
<1> QED BY <1>1, <1>3, <1>7, <1>8, <1>9, SameOwn, Zenon

(* dir_append_entry takes a fresh ghost slot and fills the DRAM dirent. *)
LEMMA AppendBeginStep == ASSUME IInv, NEW d \in Dirs, AppendBegin(d) PROVE IInv'
<1>1. PICK name \in Names, ino \in Inos, g \in Slots \ used :
        /\ used' = used \union {g}
        /\ ghost' = [ghost EXCEPT ![d] = g]
        /\ dname' = [dname EXCEPT ![ghost[d]] = name]
        /\ dino' = [dino EXCEPT ![ghost[d]] = ino]
  BY Zenon DEF AppendBegin
<1>2. /\ pc[d] = "idle" /\ pc' = [pc EXCEPT ![d] = "store_ino"]
      /\ target' = [target EXCEPT ![d] = ghost[d]]
      /\ index' = [index EXCEPT ![d] = @ \union {ghost[d]}]
      /\ UNCHANGED <<list, head, pos, prev, next, phead, pnext, pname, pino>>
  BY Zenon DEF AppendBegin, pm
<1>3. TypeOK /\ DirInv(d) /\ g # Null
  BY NullAssumption, Zenon DEF IInv
<1>4. ghost[d] \in Slots /\ ghost[d] \in Own(d) /\ d \in Live
  BY <1>2, <1>3, Zenon DEF DirInv, Own, Live
<1>5. TypeOK'
  BY <1>1, <1>2, <1>3, <1>4 DEF TypeOK
<1>6. g \notin Own(d)
  BY Zenon DEF IInv, UsedExact
<1>7. /\ pc'[d] = "store_ino" /\ ghost'[d] = g /\ target'[d] = ghost[d] /\ list'[d] = list[d]
      /\ list[d] \in Seq(Slots)
  BY <1>1, <1>2, <1>3, Zenon DEF TypeOK
<1>8. Misses(list[d], g) /\ g # ghost[d]
  BY <1>2, <1>4, <1>6, <1>7 DEF Misses, Own, Range
<1>9. PmLog(d) = list[d] /\ PmTail(d) = ghost[d] /\ PmLog(d)' = list[d] /\ PmTail(d)' = ghost[d]
  BY <1>2, <1>7, Zenon DEF PmLog, PmTail
<1>10. Linked(pnext, phead[d], PmLog(d), PmTail(d))'
  BY <1>2, <1>3, <1>4, <1>9, Zenon DEF DirInv, Linked, At
<1>11. pnext'[g] = Null
  BY <1>2, Zenon DEF IInv, FreeSlotsClean
<1>12. DirInv(d)'
  <2>1. Distinct(list[d]) /\ Misses(list[d], ghost[d])
        /\ head[d] = phead[d]
    BY <1>2, <1>3, <1>4, Zenon DEF DirInv
  <2> QED BY <1>2, <1>4, <1>7, <1>8, <1>10, <1>11, <2>1, Zenon
          DEF DirInv, Distinct, Misses, Appending, Removing
<1>13. Own(d)' = Own(d) \union {g}
  BY <1>2, <1>7, Zenon DEF Own
<1>14. Others(d)
  BY <1>1, <1>2, <1>3, Zenon DEF Others, TypeOK
<1> QED BY <1>1, <1>2, <1>5, <1>12, <1>13, <1>14, MoreOwn, Zenon

(* Stores of ino and name touch no pointer. *)
LEMMA StoreContentStep ==
  ASSUME IInv, NEW d \in Dirs, StoreIno(d) \/ StoreName(d) PROVE IInv'
<1>1. /\ \/ pc[d] = "store_ino" /\ pc' = [pc EXCEPT ![d] = "store_next"]
         \/ pc[d] = "store_name" /\ pc' = [pc EXCEPT ![d] = "list_add"]
      /\ UNCHANGED <<used, list, index, ghost, head, dname, dino, target, pos, prev, next,
                     phead, pnext>>
      /\ \/ pino' = [pino EXCEPT ![target[d]] = dino[target[d]]] /\ pname' = pname
         \/ pname' = [pname EXCEPT ![target[d]] = dname[target[d]]] /\ pino' = pino
  BY Zenon DEF StoreIno, StoreName, dram, locals
<1>2. TypeOK /\ DirInv(d)
  BY Zenon DEF IInv
<1>3. target[d] \in Slots /\ d \in Live /\ d \in Live'
  BY <1>1, <1>2, Zenon DEF DirInv, Appending, Live, TypeOK
<1>4. TypeOK'
  <2>1. dino[target[d]] \in Inos \union {NoIno} /\ dname[target[d]] \in Names \union {NoName}
    BY <1>2, <1>3, Zenon DEF TypeOK
  <2>2. pino' \in [Slots -> Inos \union {NoIno}]
    BY <1>1, <1>2, <2>1, Zenon DEF TypeOK
  <2>3. pname' \in [Slots -> Names \union {NoName}]
    BY <1>1, <1>2, <2>1, Zenon DEF TypeOK
  <2>4. pc' \in [Dirs -> {"absent", "flush", "idle", "store_ino", "store_next", "store_name",
                          "list_add", "store_prev", "clear_next", "free"}]
        /\ \A e \in Dirs : pc'[e] # "absent" => pc[e] # "absent"
    BY <1>1, <1>2, Zenon DEF TypeOK
  <2> QED BY <1>1, <1>2, <2>2, <2>3, <2>4, Zenon DEF TypeOK
<1>5. PmLog(d)' = PmLog(d) /\ PmTail(d)' = PmTail(d)
  BY <1>1, <1>2 DEF PmLog, PmTail, TypeOK
<1>6. Linked(pnext, phead[d], PmLog(d), PmTail(d))'
  BY <1>1, <1>2, <1>3, <1>5, Zenon DEF DirInv, Linked, At
<1>7. DirInv(d)'
  BY <1>1, <1>2, <1>3, <1>6, SMTT(90) DEF DirInv, Distinct, Misses, Appending, Removing, TypeOK
<1>8. Own(d)' = Own(d)
  BY <1>1, <1>2, Zenon DEF Own, TypeOK
<1>9. Others(d)
  BY <1>1, <1>2, Zenon DEF Others, TypeOK
<1> QED BY <1>1, <1>4, <1>7, <1>8, <1>9, SameOwn, Zenon

(* The store of next turns the old ghost into an entry and the new slot into the ghost. *)
LEMMA StoreNextStep == ASSUME IInv, NEW d \in Dirs, StoreNext(d) PROVE IInv'
<1>1. /\ pc[d] = "store_next" /\ pc' = [pc EXCEPT ![d] = "store_name"]
      /\ pnext' = [pnext EXCEPT ![target[d]] = ghost[d]]
      /\ UNCHANGED <<used, list, index, ghost, head, dname, dino, target, pos, prev, next,
                     phead, pname, pino>>
  BY Zenon DEF StoreNext, dram, locals
<1>2. TypeOK /\ DirInv(d)
  BY Zenon DEF IInv
<1>3. /\ target[d] \in Slots /\ ghost[d] \in Slots /\ target[d] # ghost[d]
      /\ Misses(list[d], target[d]) /\ Misses(list[d], ghost[d]) /\ Distinct(list[d])
      /\ pnext[ghost[d]] = Null /\ d \in Live /\ head[d] = phead[d] /\ list[d] \in Seq(Slots)
  BY <1>1, <1>2, Zenon DEF DirInv, Appending, Live, TypeOK
<1>4. TypeOK'
  BY <1>1, <1>2, <1>3, Zenon DEF TypeOK
<1>5. pc'[d] = "store_name" /\ d \in Live'
  BY <1>1, <1>2, Zenon DEF TypeOK, Live
<1>6. Linked(pnext, phead[d], list[d], target[d])
  BY <1>1, <1>2, <1>3, Zenon DEF DirInv, PmLog, PmTail
<1>7. Linked(pnext', phead[d], Append(list[d], target[d]), ghost[d])
  BY <1>1, <1>2, <1>3, <1>6, LinkedAppend, Zenon DEF TypeOK
<1>8. PmLog(d)' = Append(list[d], target[d]) /\ PmTail(d)' = ghost[d]
  BY <1>1, <1>5, Zenon DEF PmLog, PmTail
<1>9. Linked(pnext, phead[d], PmLog(d), PmTail(d))'
  BY <1>1, <1>7, <1>8, Zenon DEF Linked, At
<1>10. pnext'[ghost[d]] = Null
  BY <1>1, <1>2, <1>3, Zenon DEF TypeOK
<1>11. DirInv(d)'
  BY <1>1, <1>3, <1>5, <1>9, <1>10, Zenon DEF DirInv, Distinct, Misses, Appending, Removing
<1>12. Own(d)' = Own(d) /\ target[d] \in Own(d)
  BY <1>1, <1>5, Zenon DEF Own
<1>13. Others(d)
  BY <1>1, <1>2, <1>12 DEF Others, TypeOK
<1> QED BY <1>1, <1>4, <1>11, <1>12, <1>13, SameOwn, Zenon

(* list_add_tail catches the DRAM list up with the chain in PM. *)
LEMMA AppendEndStep == ASSUME IInv, NEW d \in Dirs, AppendEnd(d) PROVE IInv'
<1>1. /\ pc[d] = "list_add" /\ pc' = [pc EXCEPT ![d] = "idle"]
      /\ list' = [list EXCEPT ![d] = Append(@, target[d])]
      /\ UNCHANGED <<used, index, ghost, head, dname, dino, target, pos, prev, next,
                     phead, pnext, pname, pino>>
  BY Zenon DEF AppendEnd, locals, pm
<1>2. TypeOK /\ DirInv(d)
  BY Zenon DEF IInv
<1> DEFINE L == list[d]
           M == Append(list[d], target[d])
<1>3. /\ target[d] \in Slots /\ ghost[d] \in Slots /\ target[d] # ghost[d]
      /\ Misses(L, target[d]) /\ Misses(L, ghost[d]) /\ Distinct(L)
      /\ pnext[ghost[d]] = Null /\ d \in Live /\ head[d] = phead[d] /\ L \in Seq(Slots)
  BY <1>1, <1>2, Zenon DEF DirInv, Appending, Live, TypeOK
<1>4. M \in Seq(Slots) /\ Len(M) = Len(L) + 1
      /\ \A i \in 1 .. Len(L) + 1 : M[i] = IF i <= Len(L) THEN L[i] ELSE target[d]
  BY <1>3
<1>5. list'[d] = M /\ pc'[d] = "idle" /\ d \in Live'
  BY <1>1, <1>2, Zenon DEF TypeOK, Live
<1>6. Linked(pnext, phead[d], M, ghost[d])
  BY <1>1, <1>2, <1>3, Zenon DEF PmLog, PmTail, DirInv
<1> HIDE DEF L, M
<1>7. TypeOK'
  <2>1. list' \in [Dirs -> Seq(Slots)]
    BY <1>1, <1>2, <1>4, Zenon DEF TypeOK, M
  <2> QED BY <1>1, <1>2, <2>1, Zenon DEF TypeOK
<1>8. /\ ghost'[d] = ghost[d] /\ pnext' = pnext /\ phead' = phead /\ head'[d] = phead'[d]
  BY <1>1, <1>3, Zenon
<1>9. Distinct(M) /\ Misses(M, ghost[d])
  BY <1>3, <1>4, SMTT(90) DEF Distinct, Misses
<1>11. DirInv(d)'
  BY <1>3, <1>5, <1>6, <1>8, <1>9, IdleInv, Zenon
<1>12. Own(d)' = Own(d)
  <2>1. Range(M) = Range(L) \union {target[d]}
    BY <1>3, <1>4, SMTT(90) DEF Range
  <2> QED BY <1>1, <1>5, <2>1, Zenon DEF Own, L
<1>13. Others(d)
  BY <1>1, <1>2, Zenon DEF Others, TypeOK
<1> QED BY <1>1, <1>7, <1>11, <1>12, <1>13, SameOwn, Zenon


(* dir_remove_entry finds the predecessor and successor of the entry it unlinks. *)
LEMMA RemoveBeginStep == ASSUME IInv, NEW d \in Dirs, RemoveBegin(d) PROVE IInv'
<1> DEFINE L == list[d]
           succ(k) == IF k = Len(L) THEN ghost[d] ELSE L[k + 1]
<1>1. PICK k \in DOMAIN L :
        /\ index' = [index EXCEPT ![d] = @ \ {L[k]}]
        /\ target' = [target EXCEPT ![d] = L[k]]
        /\ pos' = [pos EXCEPT ![d] = k]
        /\ next' = [next EXCEPT ![d] = succ(k)]
        /\ \/ /\ head[d] = L[k]
              /\ head' = [head EXCEPT ![d] = succ(k)]
              /\ prev' = [prev EXCEPT ![d] = Null]
           \/ /\ head[d] # L[k]
              /\ prev' = [prev EXCEPT ![d] = L[k - 1]]
              /\ head' = head
  BY Zenon DEF RemoveBegin
<1>2. /\ pc[d] = "idle" /\ pc' = [pc EXCEPT ![d] = "store_prev"]
      /\ UNCHANGED <<used, list, ghost, dname, dino, phead, pnext, pname, pino>>
  BY Zenon DEF RemoveBegin, pm
<1>3. TypeOK /\ DirInv(d) /\ d \in Live
  BY <1>2, Zenon DEF IInv, Live
<1>4. /\ L \in Seq(Slots) /\ DOMAIN L = 1 .. Len(L) /\ Distinct(L)
      /\ ghost[d] \in Slots /\ Misses(L, ghost[d]) /\ pnext[ghost[d]] = Null
      /\ head[d] = phead[d]
  BY <1>2, <1>3 DEF DirInv, TypeOK
<1>5. PmLog(d) = L /\ PmTail(d) = ghost[d] /\ Linked(pnext, phead[d], L, ghost[d])
  BY <1>2, <1>3, Zenon DEF PmLog, PmTail, DirInv
<1> HIDE DEF L
<1>6. head[d] = L[1]
  BY <1>4, <1>5, SMTT(90) DEF Linked, At
<1>7. head[d] = L[k] <=> k = 1
  BY <1>4, <1>6 DEF Distinct
<1>8. succ(k) \in Slots /\ succ(k) = At(L, ghost[d], k + 1) /\ L[k] \in Slots /\ k \in Nat
      /\ (k # 1 => L[k - 1] \in Slots)
  BY <1>4, SMTT(30) DEF At
<1> DEFINE v == succ(k)
<1> HIDE DEF v, succ
<1>9. /\ pc'[d] = "store_prev" /\ list'[d] = L /\ pos'[d] = k /\ target'[d] = L[k]
      /\ next'[d] = succ(k) /\ prev'[d] = IF k = 1 THEN Null ELSE L[k - 1]
      /\ head'[d] = IF k = 1 THEN succ(k) ELSE phead[d]
  <2>1. d \in DOMAIN pc /\ d \in DOMAIN pos /\ d \in DOMAIN target /\ d \in DOMAIN next
        /\ d \in DOMAIN prev /\ d \in DOMAIN head
    BY <1>3, Zenon DEF TypeOK
  <2>2. pc'[d] = "store_prev" /\ list'[d] = L
    BY <1>2, <2>1, Zenon DEF L
  <2>3. pos'[d] = k /\ target'[d] = L[k] /\ next'[d] = succ(k)
    BY <1>1, <2>1, Zenon
  <2>4. CASE k = 1
    BY <1>1, <1>7, <2>1, <2>2, <2>3, <2>4, Zenon
  <2>5. CASE k # 1
    BY <1>1, <1>4, <1>7, <2>1, <2>2, <2>3, <2>5, Zenon
  <2> QED BY <2>4, <2>5, Zenon
<1>10. TypeOK'
  <2>1. head' \in [Dirs -> Slots \union {Null}] /\ prev' \in [Dirs -> Slots \union {Null}]
        /\ next' \in [Dirs -> Slots \union {Null}] /\ target' \in [Dirs -> Slots \union {Null}]
        /\ pos' \in [Dirs -> Nat] /\ index' \in [Dirs -> SUBSET Slots]
    <3>1. head' \in [Dirs -> Slots \union {Null}]
      <4>1. head' = head \/ head' = [head EXCEPT ![d] = succ(k)]
        BY <1>1, Zenon
      <4> QED BY <1>3, <1>8, <4>1, Zenon DEF TypeOK
    <3>2. prev' \in [Dirs -> Slots \union {Null}]
      BY <1>1, <1>3, <1>7, <1>8, Zenon DEF TypeOK
    <3>3. next' \in [Dirs -> Slots \union {Null}] /\ target' \in [Dirs -> Slots \union {Null}]
      BY <1>1, <1>3, <1>8, Zenon DEF TypeOK
    <3>4. pos' \in [Dirs -> Nat] /\ index' \in [Dirs -> SUBSET Slots]
      BY <1>1, <1>3, <1>8, Zenon DEF TypeOK
    <3> QED BY <3>1, <3>2, <3>3, <3>4, Zenon
  <2>2. \A e \in Dirs : pc'[e] # "absent" => ghost'[e] # Null /\ head'[e] # Null
    <3>1. pc' = [pc EXCEPT ![d] = "store_prev"] /\ ghost' = ghost /\ succ(k) # Null
          /\ (head' = head \/ head' = [head EXCEPT ![d] = succ(k)])
          /\ pc[d] # "absent"
      BY <1>1, <1>2, <1>8, NullAssumption, Zenon
    <3> QED BY <1>3, <3>1, Zenon DEF TypeOK
  <2> QED BY <1>2, <1>3, <2>1, <2>2, Zenon DEF TypeOK
<1>11. d \in Live' /\ PmLog(d)' = L /\ PmTail(d)' = ghost[d]
  BY <1>2, <1>9, Zenon DEF PmLog, PmTail, Live
<1>12. Linked(pnext, phead[d], PmLog(d), PmTail(d))'
  BY <1>2, <1>5, <1>11, Zenon DEF Linked, At
<1>13. DirInv(d)'
  <2>1. Distinct(list[d])' /\ Misses(list[d], ghost[d])'
    BY <1>2, <1>4, <1>9, SMTT(90) DEF Distinct, Misses
  <2>2. (/\ pos[d] \in 1 .. Len(list[d])
         /\ target[d] = list[d][pos[d]]
         /\ next[d] = At(list[d], ghost[d], pos[d] + 1))'
    BY <1>2, <1>4, <1>8, <1>9, Zenon DEF At
  <2>3. (prev[d] = IF pos[d] = 1 THEN Null ELSE list[d][pos[d] - 1])'
    BY <1>9, Zenon
  <2>4. (head[d] = IF pc[d] = "store_prev" /\ pos[d] = 1 THEN next[d] ELSE phead[d])'
    BY <1>2, <1>9, Zenon
  <2> QED BY <1>2, <1>4, <1>9, <1>12, <2>1, <2>2, <2>3, <2>4, Zenon DEF DirInv, Appending
<1>14. Own(d)' = Own(d)
  BY <1>2, <1>9, Zenon DEF Own, L
<1>15. Others(d)
  BY <1>1, <1>2, <1>3 DEF Others, TypeOK
<1> QED BY <1>2, <1>10, <1>13, <1>14, <1>15, SameOwn, Zenon

(* The store through prev_ptr takes the entry out of the chain in PM. *)
LEMMA StorePrevStep == ASSUME IInv, NEW d \in Dirs, StorePrev(d) PROVE IInv'
<1> DEFINE L == list[d]
           k == pos[d]
<1>1. /\ pc[d] = "store_prev" /\ pc' = [pc EXCEPT ![d] = "clear_next"]
      /\ \/ /\ prev[d] = Null
            /\ phead' = [phead EXCEPT ![d] = next[d]]
            /\ pnext' = pnext
         \/ /\ prev[d] # Null
            /\ pnext' = [pnext EXCEPT ![prev[d]] = next[d]]
            /\ phead' = phead
      /\ UNCHANGED <<used, list, index, ghost, head, dname, dino, target, pos, prev, next,
                     pname, pino>>
  BY Zenon DEF StorePrev, dram, locals
<1>2. TypeOK /\ DirInv(d) /\ d \in Live
  BY <1>1, Zenon DEF IInv, Live
<1>3. /\ L \in Seq(Slots) /\ k \in 1 .. Len(L) /\ Distinct(L)
      /\ target[d] = L[k] /\ next[d] = At(L, ghost[d], k + 1)
      /\ prev[d] = (IF k = 1 THEN Null ELSE L[k - 1])
      /\ ghost[d] \in Slots /\ Misses(L, ghost[d]) /\ pnext[ghost[d]] = Null
      /\ head[d] = (IF k = 1 THEN next[d] ELSE phead[d])
      /\ phead \in [Dirs -> Slots \union {Null}] /\ pnext \in [Slots -> Slots \union {Null}]
  BY <1>1, <1>2, Zenon DEF DirInv, TypeOK, Removing
<1>4. PmLog(d) = L /\ PmTail(d) = ghost[d] /\ Linked(pnext, phead[d], L, ghost[d])
  BY <1>1, <1>2, Zenon DEF PmLog, PmTail, DirInv
<1>5. pc'[d] = "clear_next" /\ d \in Live'
  BY <1>1, <1>2, Zenon DEF TypeOK, Live
<1>6. PmLog(d)' = RemoveAt(L, k) /\ PmTail(d)' = ghost[d]
  BY <1>1, <1>5, Zenon DEF PmLog, PmTail
<1> HIDE DEF L, k
<1>7. TypeOK'
  BY <1>1, <1>2, <1>3, ZenonT(30) DEF TypeOK
<1>8. k # 1 => prev[d] = L[k - 1] /\ L[k - 1] \in Slots /\ prev[d] # Null /\ k \in 2 .. Len(L)
  BY <1>3, NullAssumption, SMTT(90)
<1>9. Linked(pnext', phead'[d], RemoveAt(L, k), ghost[d]) /\ head[d] = phead'[d]
  <2>1. CASE k = 1
    <3>1. pnext' = pnext /\ phead'[d] = At(L, ghost[d], 2) /\ head[d] = phead'[d]
      BY <1>1, <1>3, <2>1
    <3> QED BY <1>3, <1>4, <2>1, <3>1, LinkedRemoveFirst, SMTT(30)
  <2>2. CASE k # 1
    <3>1. pnext' = [pnext EXCEPT ![L[k - 1]] = At(L, ghost[d], k + 1)] /\ phead' = phead
      BY <1>1, <1>3, <1>8, <2>2, Zenon
    <3> QED BY <1>3, <1>4, <1>8, <2>2, <3>1, LinkedRemoveLater, Zenon
  <2> QED BY <2>1, <2>2, Zenon
<1>10. Linked(pnext, phead[d], PmLog(d), PmTail(d))'
  BY <1>6, <1>9, SMTT(90) DEF Linked, At
<1>11. pnext'[ghost[d]] = Null
  BY <1>9, Zenon DEF Linked
<1>12. DirInv(d)'
  <2>1. /\ list'[d] = L /\ ghost'[d] = ghost[d] /\ target'[d] = target[d] /\ pos'[d] = k
        /\ next'[d] = next[d] /\ head'[d] = head[d]
    BY <1>1, Zenon DEF L, k
  <2>2. Distinct(list[d])' /\ Misses(list[d], ghost[d])' /\ (ghost[d] \in Slots)'
    BY <1>3, <2>1, Zenon DEF Distinct, Misses
  <2>3. (/\ pos[d] \in 1 .. Len(list[d])
         /\ target[d] = list[d][pos[d]]
         /\ next[d] = At(list[d], ghost[d], pos[d] + 1))'
    BY <1>3, <2>1, Zenon DEF At
  <2> QED BY <1>5, <1>9, <1>10, <1>11, <2>1, <2>2, <2>3, Zenon DEF DirInv, Appending, Removing
<1>13. Own(d)' = Own(d) /\ (k # 1 => prev[d] \in Own(d))
  <2>1. Own(d)' = Own(d)
    BY <1>1, <1>5, Zenon DEF Own
  <2>2. k # 1 => prev[d] \in Range(L)
    BY <1>3, <1>8, SMTT(30) DEF Range
  <2> QED BY <1>1, <2>1, <2>2, Zenon DEF Own, L
<1>14. Others(d)
  BY <1>1, <1>2, <1>3, <1>13, Zenon DEF Others, TypeOK
<1> QED BY <1>1, <1>7, <1>12, <1>13, <1>14, SameOwn, Zenon

(* Clearing the next of the unlinked slot leaves the chain alone. *)
LEMMA ClearNextStep == ASSUME IInv, NEW d \in Dirs, ClearNext(d) PROVE IInv'
<1> DEFINE L == list[d]
           k == pos[d]
           M == RemoveAt(list[d], pos[d])
<1>1. /\ pc[d] = "clear_next" /\ pc' = [pc EXCEPT ![d] = "free"]
      /\ pnext' = [pnext EXCEPT ![target[d]] = Null]
      /\ UNCHANGED <<used, list, index, ghost, head, dname, dino, target, pos, prev, next,
                     phead, pname, pino>>
  BY Zenon DEF ClearNext, dram, locals
<1>2. TypeOK /\ DirInv(d) /\ d \in Live
  BY <1>1, Zenon DEF IInv, Live
<1>3. /\ L \in Seq(Slots) /\ k \in 1 .. Len(L) /\ Distinct(L) /\ target[d] = L[k]
      /\ ghost[d] \in Slots /\ Misses(L, ghost[d]) /\ pnext[ghost[d]] = Null
      /\ pnext \in [Slots -> Slots \union {Null}] /\ head[d] = phead[d]
  BY <1>1, <1>2, Zenon DEF DirInv, TypeOK, Removing
<1>4. Linked(pnext, phead[d], M, ghost[d])
  BY <1>1, <1>2, Zenon DEF PmLog, PmTail, DirInv
<1>5. pc'[d] = "free" /\ d \in Live'
  BY <1>1, <1>2, Zenon DEF TypeOK, Live
<1>6. PmLog(d)' = M /\ PmTail(d)' = ghost[d]
  BY <1>1, <1>5, Zenon DEF PmLog, PmTail
<1>7. /\ M \in Seq(Slots) /\ Len(M) = Len(L) - 1
      /\ \A i \in 1 .. Len(L) - 1 : M[i] = IF i < k THEN L[i] ELSE L[i + 1]
  BY <1>3, RemoveAtProps, Zenon
<1> HIDE DEF L, k, M
<1>8. target[d] \in Slots /\ target[d] # ghost[d]
  BY <1>3 DEF Misses
<1>9. \A i \in 1 .. Len(M) : M[i] \in Slots /\ M[i] # target[d]
  BY <1>3, <1>7, SMTT(30) DEF Distinct
<1>10. Linked(pnext', phead[d], M, ghost[d])
  <2>1. \A i \in 1 .. Len(M) : pnext'[M[i]] = pnext[M[i]]
    BY <1>1, <1>3, <1>9, Zenon
  <2>2. pnext'[ghost[d]] = pnext[ghost[d]]
    BY <1>1, <1>3, <1>8, Zenon
  <2> QED BY <1>4, <1>7, <2>1, <2>2, LinkedFrame, SMTT(30)
<1>11. Linked(pnext, phead[d], PmLog(d), PmTail(d))'
  BY <1>1, <1>6, <1>10, Zenon DEF Linked, At
<1>12. TypeOK'
  BY <1>1, <1>2, <1>8, Zenon DEF TypeOK
<1>13. pnext'[target[d]] = Null /\ pnext'[ghost[d]] = Null
  BY <1>1, <1>3, <1>8, Zenon
<1>14. DirInv(d)'
  <2>1. pos[d] \in 1 .. Len(list[d]) /\ target[d] = list[d][pos[d]]
        /\ next[d] = At(list[d], ghost[d], pos[d] + 1)
    BY <1>1, <1>2, Zenon DEF DirInv, Removing
  <2>2. /\ list'[d] = L /\ ghost'[d] = ghost[d] /\ target'[d] = target[d] /\ pos'[d] = pos[d]
        /\ next'[d] = next[d] /\ head'[d] = phead'[d]
    BY <1>1, <1>3, Zenon DEF L
  <2>3. Distinct(list[d])' /\ Misses(list[d], ghost[d])'
    BY <1>3, <2>2, Zenon DEF Distinct, Misses
  <2>4. (next[d] = At(list[d], ghost[d], pos[d] + 1))'
    BY <2>1, <2>2, Zenon DEF At, L
  <2> QED BY <1>3, <1>5, <1>11, <1>13, <2>1, <2>2, <2>3, <2>4, Zenon
          DEF DirInv, Appending, Removing, L
<1>15. Own(d)' = Own(d) /\ target[d] \in Own(d)
  <2>1. target[d] \in Range(L)
    BY <1>3 DEF Range
  <2> QED BY <1>1, <1>5, <2>1, Zenon DEF Own, L
<1>16. Others(d)
  BY <1>1, <1>2, <1>15, Zenon DEF Others, TypeOK
<1> QED BY <1>1, <1>12, <1>14, <1>15, <1>16, SameOwn, Zenon

(* The unlinked slot goes back to the bitmap and leaves the DRAM list. *)
LEMMA RemoveEndStep == ASSUME IInv, NEW d \in Dirs, RemoveEnd(d) PROVE IInv'
<1> DEFINE L == list[d]
           k == pos[d]
           M == RemoveAt(list[d], pos[d])
<1>1. /\ pc[d] = "free" /\ pc' = [pc EXCEPT ![d] = "idle"]
      /\ used' = used \ {target[d]}
      /\ list' = [list EXCEPT ![d] = RemoveAt(@, pos[d])]
      /\ dname' = [dname EXCEPT ![target[d]] = NoName]
      /\ dino' = [dino EXCEPT ![target[d]] = NoIno]
      /\ UNCHANGED <<index, ghost, head, target, pos, prev, next, phead, pnext, pname, pino>>
  BY Zenon DEF RemoveEnd, locals, pm
<1>2. TypeOK /\ DirInv(d) /\ d \in Live
  BY <1>1, Zenon DEF IInv, Live
<1>3. /\ L \in Seq(Slots) /\ k \in 1 .. Len(L) /\ Distinct(L) /\ target[d] = L[k]
      /\ ghost[d] \in Slots /\ Misses(L, ghost[d]) /\ pnext[ghost[d]] = Null
      /\ pnext[target[d]] = Null /\ head[d] = phead[d]
  BY <1>1, <1>2, Zenon DEF DirInv, TypeOK, Removing
<1>4. Linked(pnext, phead[d], M, ghost[d])
  BY <1>1, <1>2, Zenon DEF PmLog, PmTail, DirInv
<1>5. pc'[d] = "idle" /\ d \in Live' /\ list'[d] = M
  BY <1>1, <1>2, Zenon DEF TypeOK, Live
<1>6. Distinct(M) /\ Misses(M, ghost[d])
  BY <1>3, DistinctRemove, Zenon
<1>7. /\ M \in Seq(Slots) /\ Len(M) = Len(L) - 1
      /\ \A i \in 1 .. Len(L) - 1 : M[i] = IF i < k THEN L[i] ELSE L[i + 1]
  BY <1>3, RemoveAtProps, ZenonT(40)
<1> HIDE DEF L, k, M
<1>8. /\ ghost'[d] = ghost[d] /\ pnext' = pnext /\ phead' = phead /\ head'[d] = phead'[d]
  BY <1>1, <1>3, Zenon
<1>10. TypeOK'
  <2>1. list' \in [Dirs -> Seq(Slots)]
    BY <1>1, <1>2, <1>7, Zenon DEF TypeOK, M
  <2>2. dname' \in [Slots -> Names \union {NoName}] /\ dino' \in [Slots -> Inos \union {NoIno}]
    BY <1>1, <1>2, Zenon DEF TypeOK
  <2> QED BY <1>1, <1>2, <2>1, <2>2, Zenon DEF TypeOK
<1>11. DirInv(d)'
  BY <1>3, <1>4, <1>5, <1>8, <1>6, IdleInv, Zenon
<1>12. Own(d)' = Own(d) \ {target[d]} /\ target[d] \in Own(d)
  <2>1. Range(M) \subseteq Range(L) /\ target[d] \in Range(L) /\ target[d] \notin Range(M)
    <3>1. \A i \in 1 .. Len(M) : M[i] # L[k] /\ \E j \in 1 .. Len(L) : M[i] = L[j]
      BY <1>3, <1>7 DEF Distinct
    <3>2. /\ DOMAIN M = 1 .. Len(M) /\ DOMAIN L = 1 .. Len(L)
          /\ target[d] = L[k] /\ k \in 1 .. Len(L)
      BY <1>3, <1>7
    <3>3. Range(M) \subseteq Range(L)
      BY <3>1, <3>2, Zenon DEF Range
    <3>4. target[d] \notin Range(M)
      BY <3>1, <3>2, Zenon DEF Range
    <3> QED BY <3>2, <3>3, <3>4, Zenon DEF Range
  <2>2. \A s \in Range(L) : s # target[d] => s \in Range(M)
    <3>0. /\ DOMAIN M = 1 .. Len(M) /\ DOMAIN L = 1 .. Len(L) /\ target[d] = L[k]
      BY <1>3, <1>7
    <3> SUFFICES ASSUME NEW j \in 1 .. Len(L), L[j] # L[k]
                 PROVE  \E i \in 1 .. Len(M) : M[i] = L[j]
      BY <3>0, Zenon DEF Range
    <3>1. CASE j < k
      BY <1>3, <1>7, <3>1
    <3>2. CASE j > k
      <4>1. j - 1 \in 1 .. Len(M) /\ M[j - 1] = L[j]
        BY <1>3, <1>7, <3>2
      <4> QED BY <4>1, Zenon
    <3> QED BY <1>3, <3>1, <3>2
  <2>3. target[d] # ghost[d]
    BY <1>3, Zenon DEF Misses
  <2>4. Own(d) = Range(L) \union {ghost[d]} /\ Own(d)' = Range(M) \union {ghost[d]}
    BY <1>1, <1>5, Zenon DEF Own, L
  <2> QED BY <2>1, <2>2, <2>3, <2>4, Zenon
<1>13. Others(d)
  BY <1>1, <1>2, Zenon DEF Others, TypeOK
<1> QED BY <1>1, <1>3, <1>10, <1>11, <1>12, <1>13, LessOwn, Zenon
-----------------------------------------------------------------------------
(* The file system mkfs makes satisfies the invariant. *)
LEMMA InvInit == Init => IInv
<1> SUFFICES ASSUME Init PROVE IInv
  OBVIOUS
<1>1. PICK g \in Slots :
        /\ used = {g}
        /\ ghost = [d \in Dirs |-> IF d = Root THEN g ELSE Null]
  BY Zenon DEF Init
<1>2. /\ pc = [d \in Dirs |-> IF d = Root THEN "idle" ELSE "absent"]
      /\ list = [d \in Dirs |-> <<>>] /\ index = [d \in Dirs |-> {}]
      /\ head = ghost /\ phead = ghost
      /\ dname = [s \in Slots |-> NoName] /\ dino = [s \in Slots |-> NoIno]
      /\ target = [d \in Dirs |-> Null] /\ pos = [d \in Dirs |-> 0]
      /\ prev = [d \in Dirs |-> Null] /\ next = [d \in Dirs |-> Null]
      /\ pnext = [s \in Slots |-> Null]
      /\ pname = [s \in Slots |-> NoName] /\ pino = [s \in Slots |-> NoIno]
  BY Zenon DEF Init
<1>3. TypeOK
  BY <1>1, <1>2, NullAssumption DEF TypeOK
<1>4. \A d \in Dirs : Own(d) = IF d = Root THEN {g} ELSE {}
  <2>1. ASSUME NEW d \in Dirs PROVE Range(list[d]) = {}
    <3>1. list[d] = <<>> /\ DOMAIN list[d] = {}
      BY <1>2
    <3> QED BY <3>1, Zenon DEF Range
  <2> QED BY <1>1, <1>2, <2>1, Zenon DEF Own
<1>5. ASSUME NEW d \in Dirs PROVE DirInv(d)
  <2>1. CASE d = Root
    <3>1. pc[d] = "idle" /\ list[d] = <<>> /\ ghost[d] = g /\ phead[d] = g /\ head[d] = g
      BY <1>1, <1>2, <2>1, Zenon
    <3>2. PmLog(d) = <<>> /\ PmTail(d) = g
      BY <3>1, Zenon DEF PmLog, PmTail
    <3>3. Linked(pnext, phead[d], PmLog(d), PmTail(d))
      BY <1>2, <3>1, <3>2, SMTT(30) DEF Linked, At
    <3> QED BY <1>2, <3>1, <3>3 DEF DirInv, Distinct, Misses, Appending, Removing
  <2>2. CASE d # Root
    <3>1. pc[d] = "absent" /\ list[d] = <<>>
      BY <1>2, <2>2, Zenon
    <3> QED BY <3>1, SMTT(90) DEF DirInv, Distinct, Appending, Removing, Live
  <2> QED BY <2>1, <2>2, Zenon
<1>6. OwnDisjoint
  BY <1>4, Zenon DEF OwnDisjoint
<1>7. UsedExact
  BY <1>1, <1>4, RootAssumption, Zenon DEF UsedExact
<1>8. FreeSlotsClean
  BY <1>2, Zenon DEF FreeSlotsClean
<1> QED BY <1>3, <1>5, <1>6, <1>7, <1>8, Zenon DEF IInv

(* Every step of every directory's operation keeps the invariant. *)
LEMMA InvStep == IInv /\ [Next]_vars => IInv'
<1> SUFFICES ASSUME IInv, [Next]_vars PROVE IInv'
  OBVIOUS
<1>1. CASE UNCHANGED vars
  <2>1. Others(Root) /\ TypeOK'
    BY <1>1, Zenon DEF Others, vars, IInv, TypeOK
  <2>2. DirInv(Root)' /\ Own(Root)' = Own(Root)
    <3>1. TypeOK /\ Root \in Dirs /\ DirInv(Root)
      BY RootAssumption, Zenon DEF IInv
    <3>2. /\ pc' = pc /\ list' = list /\ ghost' = ghost /\ head' = head /\ target' = target
          /\ pos' = pos /\ prev' = prev /\ next' = next /\ phead' = phead /\ pnext' = pnext
      BY <1>1, Zenon DEF vars
    <3> QED BY <3>1, <3>2, FrameDir, Zenon
  <2>3. used' = used
    BY <1>1, Zenon DEF vars
  <2> QED BY <2>1, <2>2, <2>3, SameOwn, RootAssumption, Zenon
<1>2. CASE Next
  BY <1>2, CreateLogStep, FlushInodeStep, AppendBeginStep, StoreContentStep, StoreNextStep,
     AppendEndStep, RemoveBeginStep, StorePrevStep, ClearNextStep, RemoveEndStep, Zenon DEF Next
<1> QED BY <1>1, <1>2, Zenon

(* Crash safety of the directory logs, for any directories and slots: at   *)
(* every point between two PM stores each chain is intact and ends in an   *)
(* empty ghost, no slot is in two logs, the bitmap marks exactly the slots *)
(* in use, and a free slot carries no stale next pointer.                  *)
THEOREM LogsSafe == Spec => [](ChainIntact /\ LogsDisjoint /\ UsedExact /\ FreeSlotsClean)
<1>1. IInv => ChainIntact /\ LogsDisjoint /\ UsedExact /\ FreeSlotsClean
  BY IInvMeaning, Zenon DEF IInv
<1> QED BY InvInit, InvStep, <1>1, PTL DEF Spec

(* In particular a slot is never in two logs or twice in one, although     *)
(* directories under different locks exchange slots through the bitmap.    *)
THEOREM LogsApart == Spec => []LogsDisjoint
BY LogsSafe, PTL

(* ... and no slot leaks or is free while a log still needs it, at any     *)
(* point of dir_append_entry and dir_remove_entry.                         *)
THEOREM SlotsAccounted == Spec => []UsedExact
BY LogsSafe, PTL

(* Type correctness of the directory logs. *)
THEOREM LogsTyped == Spec => []TypeOK
<1>1. IInv => TypeOK
  BY Zenon DEF IInv
<1> QED BY InvInit, InvStep, <1>1, PTL DEF Spec
-----------------------------------------------------------------------------
(* Induction over the natural numbers, and the number of slots; both are   *)
(* proved at the end.                                                      *)
Induction == \A Q : 0 \in Q /\ (\A n \in Nat : n \in Q => n + 1 \in Q) => Nat \subseteq Q
Fits ==
  /\ Cardinality(Slots) \in Nat
  /\ \A n \in Nat : \A q \in [1 .. n -> Slots] : IsInjective(q) => n <= Cardinality(Slots)

(* What the walk of Reached visits along p from h on. *)
Walk(p, h) ==
  LET r[n \in 0 .. Cardinality(Slots)] ==
        IF n = 0 THEN {h} \ {Null} ELSE r[n - 1] \union ({p[s] : s \in r[n - 1]} \ {Null})
  IN  r[Cardinality(Slots)]

(* From the head of a chain the walk visits all of it, and nothing else. *)
LEMMA WalkVisits ==
  ASSUME Induction, Fits, NEW p, NEW h, NEW L \in Seq(Slots), NEW t \in Slots,
         Linked(p, h, L, t), Distinct(L), Misses(L, t)
  PROVE  \A x : x \in Walk(p, h) <=> x \in Range(L) \/ x = t
<1> DEFINE N == Cardinality(Slots)
           S == 0 .. N
           m == Len(L) + 1
           A(i) == At(L, t, i)
           F(g) == [n \in S |-> IF n = 0 THEN {h} \ {Null}
                                ELSE g[n - 1] \union ({p[s] : s \in g[n - 1]} \ {Null})]
           c == CHOOSE g : g = F(g)
           K(n) == {A(i) : i \in {j \in 1 .. m : j <= n + 1}}
           k == [n \in S |-> K(n)]
<1>a. Walk(p, h) = c[N]
  BY DEF Walk
<1>1. m \in Nat /\ m >= 1 /\ N \in Nat /\ Len(L) \in Nat
  BY DEF Fits
<1>2. /\ h = A(1) /\ A(m) = t /\ p[t] = Null
      /\ \A i \in 1 .. Len(L) : p[A(i)] = A(i + 1) /\ A(i) = L[i]
  BY DEF Linked, At
<1>3. \A i \in 1 .. m : A(i) \in Slots /\ A(i) # Null
  BY NullAssumption DEF At
<1>4. m <= N
  <2> DEFINE q == [i \in 1 .. m |-> A(i)]
  <2>1. \A i, j \in 1 .. m : A(i) = A(j) => i = j
    BY DEF At, Distinct, Misses
  <2>2. q \in [1 .. m -> Slots] /\ IsInjective(q)
    BY <1>3, <2>1, Zenon DEF IsInjective
  <2> QED BY <1>1, <2>2, Zenon DEF Fits
<1> HIDE DEF A, N, m
<1>5. k = F(k)
  <2> SUFFICES ASSUME NEW n \in S
               PROVE  k[n] = IF n = 0 THEN {h} \ {Null}
                             ELSE k[n - 1] \union ({p[s] : s \in k[n - 1]} \ {Null})
    BY Zenon
  <2>1. CASE n = 0
    <3>1. \A j \in 1 .. m : j <= n + 1 <=> j = 1
      BY <2>1
    <3>2. 1 \in 1 .. m
      BY <1>1
    <3>3. K(n) = {A(1)}
      BY <3>1, <3>2, Zenon
    <3>4. A(1) # Null
      BY <1>3, <3>2, Zenon
    <3>5. k[n] = {h} \ {Null}
      BY <1>2, <3>3, <3>4, Zenon
    <3> QED BY <2>1, <3>5, Zenon
  <2>2. CASE n # 0
    <3>1. n - 1 \in S /\ (n - 1) + 1 = n /\ n \in Nat
      BY <1>1, <2>2
    <3>2. k[n] = K(n) /\ k[n - 1] = K(n - 1)
      BY <3>1, Zenon
    <3>3. ASSUME NEW x \in K(n) PROVE x \in K(n - 1) \union ({p[s] : s \in K(n - 1)} \ {Null})
      <4>1. PICK i \in 1 .. m : i <= n + 1 /\ x = A(i)
        BY <3>3, Zenon
      <4>2. CASE i <= n
        BY <3>1, <4>1, <4>2, Zenon
      <4>3. CASE ~ (i <= n)
        <5>1. i - 1 \in 1 .. m /\ i - 1 <= n /\ i - 1 \in 1 .. Len(L) /\ (i - 1) + 1 = i
          BY <1>1, <2>2, <3>1, <4>1, <4>3 DEF m
        <5>2. A(i - 1) \in K(n - 1)
          BY <3>1, <5>1, Zenon
        <5>3. p[A(i - 1)] = x /\ x # Null
          BY <1>2, <1>3, <4>1, <5>1, Zenon
        <5> QED BY <5>2, <5>3, Zenon
      <4> QED BY <4>2, <4>3, Zenon
    <3>4. ASSUME NEW x \in K(n - 1) PROVE x \in K(n)
      <4>1. PICK i \in 1 .. m : i <= n /\ x = A(i)
        BY <3>1, <3>4, Zenon
      <4>2. i <= n + 1
        BY <3>1, <4>1
      <4> QED BY <4>1, <4>2, Zenon
    <3>5. ASSUME NEW s \in K(n - 1), p[s] # Null PROVE p[s] \in K(n)
      <4>1. PICK i \in 1 .. m : i <= n /\ s = A(i)
        BY <3>1, <3>5, Zenon
      <4>2. i # m
        BY <1>2, <3>5, <4>1, Zenon
      <4>3. i \in 1 .. Len(L) /\ i + 1 \in 1 .. m /\ i + 1 <= n + 1
        BY <1>1, <3>1, <4>1, <4>2 DEF m
      <4>4. p[s] = A(i + 1)
        BY <1>2, <4>1, <4>3, Zenon
      <4> QED BY <4>3, <4>4, Zenon
    <3> HIDE DEF K
    <3>6. K(n) = K(n - 1) \union ({p[s] : s \in K(n - 1)} \ {Null})
      BY <3>3, <3>4, <3>5, Zenon
    <3> QED BY <2>2, <3>2, <3>6, Zenon
  <2> QED BY <2>1, <2>2, Zenon
<1> HIDE DEF k
<1>6. c = F(c)
  BY <1>5, Zenon
<1> HIDE DEF c
<1>7. \A n \in S : c[n] = k[n]
  <2> DEFINE Q == {n \in Nat : n \in S => c[n] = k[n]}
  <2>1. 0 \in Q
    <3>1. 0 \in Nat /\ 0 \in S
      BY <1>1
    <3>2. F(c)[0] = {h} \ {Null} /\ F(k)[0] = {h} \ {Null}
      BY <3>1, Zenon
    <3> HIDE DEF F
    <3>3. c[0] = k[0]
      BY <1>5, <1>6, <3>2, Zenon
    <3> QED BY <3>1, <3>3, Zenon
  <2>2. ASSUME NEW n \in Nat, n \in Q PROVE n + 1 \in Q
    <3>1. n + 1 \in Nat /\ (n + 1) - 1 = n /\ n + 1 # 0
      OBVIOUS
    <3> SUFFICES ASSUME n + 1 \in S PROVE c[n + 1] = k[n + 1]
      BY <3>1, Zenon
    <3>2. n \in S
      BY <1>1
    <3>3. c[n] = k[n]
      BY <2>2, <3>2, Zenon
    <3>4. /\ F(c)[n + 1] = c[n] \union ({p[s] : s \in c[n]} \ {Null})
          /\ F(k)[n + 1] = k[n] \union ({p[s] : s \in k[n]} \ {Null})
      BY <3>1, Zenon
    <3> HIDE DEF F
    <3>5. c[n + 1] = F(c)[n + 1] /\ k[n + 1] = F(k)[n + 1]
      BY <1>5, <1>6, Zenon
    <3> QED BY <3>3, <3>4, <3>5, Zenon
  <2> HIDE DEF Q
  <2>3. Nat \subseteq Q
    BY <2>1, <2>2, Zenon DEF Induction
  <2>4. S \subseteq Nat
    BY <1>1
  <2> QED BY <2>3, <2>4, Zenon DEF Q
<1>8. c[N] = K(N)
  <2>1. N \in S
    BY <1>1
  <2> QED BY <1>7, <2>1, Zenon DEF k
<1>9. \A j \in 1 .. m : j <= N + 1
  BY <1>1, <1>4
<1>10. \A x : x \in K(N) <=> \E j \in 1 .. m : x = A(j)
  BY <1>9, Zenon
<1>11. \A j \in 1 .. m : j \in 1 .. Len(L) \/ j = m
  BY <1>1 DEF m
<1>12. \A j \in 1 .. Len(L) : j \in 1 .. m
  BY <1>1 DEF m
<1>13. m \in 1 .. m /\ DOMAIN L = 1 .. Len(L)
  BY <1>1
<1>14. \A x : x \in Range(L) <=> \E j \in 1 .. Len(L) : x = L[j]
  BY <1>13, Zenon DEF Range
<1> HIDE DEF K
<1>e. \A i \in 1 .. Len(L) : A(i) = L[i]
  BY <1>2, Zenon
<1>15. ASSUME NEW x, x \in K(N) PROVE x \in Range(L) \/ x = t
  <2>1. PICK j \in 1 .. m : x = A(j)
    BY <1>10, <1>15, Zenon
  <2>2. j = m => x = t
    BY <1>2, <2>1, Zenon
  <2>3. j \in 1 .. Len(L) => x \in Range(L)
    BY <1>e, <1>14, <2>1, Zenon
  <2> QED BY <1>11, <2>2, <2>3, Zenon
<1>16. ASSUME NEW x, x \in Range(L) PROVE x \in K(N)
  <2>1. PICK j \in 1 .. Len(L) : x = L[j]
    BY <1>14, <1>16, Zenon
  <2>2. j \in 1 .. m /\ x = A(j)
    BY <1>e, <1>12, <2>1, Zenon
  <2> QED BY <1>10, <2>2, Zenon
<1>17. t \in K(N)
  BY <1>2, <1>10, <1>13, Zenon
<1> QED BY <1>a, <1>8, <1>15, <1>16, <1>17, Zenon

(* The entries such a walk finds. *)
EntriesOf(p, h, nm, io) == {<<s, nm[s], io[s]>> : s \in {x \in Walk(p, h) : p[x] # Null}}

(* E holds one entry for each slot of L. *)
Finds(E, L, nm, io) == \A e : e \in E <=> \E s : s \in Range(L) /\ e = <<s, nm[s], io[s]>>

(* They are the slots of the log, without the ghost it ends in. *)
LEMMA WalkEntries ==
  ASSUME Induction, Fits, NEW p, NEW h, NEW L \in Seq(Slots), NEW t \in Slots,
         Linked(p, h, L, t), Distinct(L), Misses(L, t), NEW nm, NEW io
  PROVE  Finds(EntriesOf(p, h, nm, io), L, nm, io)
<1>1. \A x : x \in Walk(p, h) <=> x \in Range(L) \/ x = t
  BY WalkVisits, Zenon
<1>2. p[t] = Null
  BY Zenon DEF Linked
<1>3. ASSUME NEW s \in Range(L) PROVE p[s] # Null
  <2>1. PICK i \in 1 .. Len(L) : s = L[i]
    BY <1>3 DEF Range
  <2>2. At(L, t, i + 1) \in Slots
    BY DEF At
  <2> QED BY <2>1, <2>2, NullAssumption, Zenon DEF Linked
<1>4. \A s : s \in Walk(p, h) /\ p[s] # Null <=> s \in Range(L)
  BY <1>1, <1>2, <1>3, Zenon
<1> QED BY <1>4, Zenon DEF EntriesOf, Finds

(* The log of every directory in PM is a chain over slots it accounts for. *)
Chained ==
  \A d \in Live :
    /\ PmLog(d) \in Seq(Slots) /\ PmTail(d) \in Slots
    /\ Distinct(PmLog(d)) /\ Misses(PmLog(d), PmTail(d))
    /\ Linked(pnext, phead[d], PmLog(d), PmTail(d))
    /\ Range(PmLog(d)) \subseteq Own(d)

(* The inductive invariant says so. *)
LEMMA IInvChained == IInv => Chained
<1> SUFFICES ASSUME IInv, NEW d \in Live
             PROVE  /\ PmLog(d) \in Seq(Slots) /\ PmTail(d) \in Slots
                    /\ Distinct(PmLog(d)) /\ Misses(PmLog(d), PmTail(d))
                    /\ Linked(pnext, phead[d], PmLog(d), PmTail(d))
                    /\ Range(PmLog(d)) \subseteq Own(d)
  BY Zenon DEF Chained
<1>1. TypeOK /\ d \in Dirs /\ DirInv(d)
  BY Zenon DEF IInv, Live
<1>2. /\ PmLog(d) \in Seq(Slots) /\ PmTail(d) \in Slots
      /\ Distinct(PmLog(d)) /\ Misses(PmLog(d), PmTail(d))
      /\ \A i \in 1 .. Len(PmLog(d)) : PmLog(d)[i] \in Own(d)
  BY <1>1, ChainOwned, Zenon
<1>3. Linked(pnext, phead[d], PmLog(d), PmTail(d))
  BY <1>1, Zenon DEF DirInv
<1>4. Range(PmLog(d)) \subseteq Own(d)
  BY <1>2 DEF Range
<1> QED BY <1>2, <1>3, <1>4, Zenon

(* The durable entries change no more than the log and its contents do. *)
LEMMA SameEntries ==
  ASSUME Induction, Fits, Chained, Chained', NEW d \in Live, d \in Live', NEW x,
         \A s : s # x => (s \in Range(PmLog(d)) <=> s \in Range(PmLog(d))'),
         \A s \in Range(PmLog(d)) : s # x => pname'[s] = pname[s] /\ pino'[s] = pino[s]
  PROVE  {e \in PmEntries(d) : e[1] # x} = {e \in PmEntries(d)' : e[1] # x}
<1> DEFINE L == PmLog(d)
           M == PmLog(d)'
           t == PmTail(d)
           u == PmTail(d)'
<1>1. PmEntries(d) = EntriesOf(pnext, phead[d], pname, pino)
  BY Zenon DEF PmEntries, EntriesOf, Reached, Walk
<1>2. PmEntries(d)' = EntriesOf(pnext', phead'[d], pname', pino')
  BY Zenon DEF PmEntries, EntriesOf, Reached, Walk
<1>3. /\ L \in Seq(Slots) /\ t \in Slots /\ Distinct(L) /\ Misses(L, t)
      /\ Linked(pnext, phead[d], L, t)
  BY Zenon DEF Chained
<1>4. /\ M \in Seq(Slots) /\ u \in Slots /\ Distinct(M) /\ Misses(M, u)
      /\ Linked(pnext', phead'[d], M, u)
  BY Zenon DEF Chained, Distinct, Misses, Linked, At
<1>5. Range(PmLog(d))' = Range(M)
  BY Zenon DEF Range
<1> HIDE DEF L, M, t, u
<1>6. Finds(PmEntries(d), L, pname, pino)
  BY <1>1, <1>3, WalkEntries, Zenon
<1>7. Finds(PmEntries(d)', M, pname', pino')
  BY <1>2, <1>4, WalkEntries, Zenon
<1>8. \A s : s # x => (s \in Range(L) <=> s \in Range(M))
  BY <1>5, Zenon DEF L
<1>9. \A s \in Range(L) : s # x => pname'[s] = pname[s] /\ pino'[s] = pino[s]
  BY Zenon DEF L
<1> DEFINE P == PmEntries(d)
           R == PmEntries(d)'
<1> HIDE DEF P, R
<1>10. ASSUME NEW e, e[1] # x, e \in P PROVE e \in R
  <2>1. PICK s : s \in Range(L) /\ e = <<s, pname[s], pino[s]>>
    BY <1>6, <1>10, Zenon DEF P, Finds
  <2>2. e[1] = s
    BY <2>1
  <2>3. s \in Range(M) /\ e = <<s, pname'[s], pino'[s]>>
    BY <1>8, <1>9, <1>10, <2>1, <2>2, Zenon
  <2> QED BY <1>7, <2>3, Zenon DEF R, Finds
<1>11. ASSUME NEW e, e[1] # x, e \in R PROVE e \in P
  <2>1. PICK s : s \in Range(M) /\ e = <<s, pname'[s], pino'[s]>>
    BY <1>7, <1>11, Zenon DEF R, Finds
  <2>2. e[1] = s
    BY <2>1
  <2>3. s \in Range(L) /\ e = <<s, pname[s], pino[s]>>
    BY <1>8, <1>9, <1>11, <2>1, <2>2, Zenon
  <2> QED BY <1>6, <2>3, Zenon DEF P, Finds
<1>12. {e \in P : e[1] # x} = {e \in R : e[1] # x}
  BY <1>10, <1>11, Zenon
<1> QED BY <1>12, Zenon DEF P, R

(* A step of the operation on d. *)
Step(d) ==
  \/ CreateLog(d) \/ FlushInode(d)
  \/ AppendBegin(d) \/ StoreIno(d) \/ StoreNext(d) \/ StoreName(d) \/ AppendEnd(d)
  \/ RemoveBegin(d) \/ StorePrev(d) \/ ClearNext(d) \/ RemoveEnd(d)

(* Names and inode numbers are stored only into the slot being appended. *)
LEMMA ContentKept ==
  ASSUME IInv, NEW c \in Dirs, Step(c), NEW s,
         pc[c] \in {"store_ino", "store_name"} => s # target[c]
  PROVE  s \in Slots => pname'[s] = pname[s] /\ pino'[s] = pino[s]
<1>1. pname \in [Slots -> Names \union {NoName}] /\ pino \in [Slots -> Inos \union {NoIno}]
  BY Zenon DEF IInv, TypeOK
<1>2. CASE CreateLog(c) \/ FlushInode(c) \/ AppendBegin(c) \/ StoreNext(c) \/ AppendEnd(c)
  BY <1>2, Zenon DEF CreateLog, FlushInode, AppendBegin, StoreNext, AppendEnd, pm
<1>3. CASE RemoveBegin(c) \/ StorePrev(c) \/ ClearNext(c) \/ RemoveEnd(c)
  BY <1>3, Zenon DEF RemoveBegin, StorePrev, ClearNext, RemoveEnd, pm
<1>4. CASE StoreIno(c)
  BY <1>1, <1>4, Zenon DEF StoreIno
<1>5. CASE StoreName(c)
  BY <1>1, <1>5, Zenon DEF StoreName
<1> QED BY <1>2, <1>3, <1>4, <1>5, Zenon DEF Step

(* A step on c leaves the log of d alone. *)
LEMMA OtherLog ==
  ASSUME IInv, NEW c \in Dirs, Step(c), NEW d \in Live, d # c
  PROVE  /\ d \in Live' /\ target'[d] = target[d] /\ PmLog(d)' = PmLog(d)
<1>1. /\ pc \in [Dirs -> {pc[e] : e \in Dirs}] /\ list \in [Dirs -> {list[e] : e \in Dirs}]
      /\ target \in [Dirs -> {target[e] : e \in Dirs}] /\ pos \in [Dirs -> {pos[e] : e \in Dirs}]
  BY Zenon DEF IInv, TypeOK
<1>2. d \in Dirs
  BY Zenon DEF Live
<1>3. /\ pc'[d] = pc[d] /\ list'[d] = list[d] /\ target'[d] = target[d] /\ pos'[d] = pos[d]
  <2>1. CASE CreateLog(c) \/ FlushInode(c)
    BY <1>1, <1>2, <2>1, Zenon DEF CreateLog, FlushInode, dram, locals
  <2>2. CASE AppendBegin(c) \/ AppendEnd(c)
    BY <1>1, <1>2, <2>2, Zenon DEF AppendBegin, AppendEnd, locals
  <2>3. CASE StoreIno(c) \/ StoreNext(c) \/ StoreName(c)
    BY <1>1, <1>2, <2>3, Zenon DEF StoreIno, StoreNext, StoreName, dram, locals
  <2>4. CASE RemoveBegin(c)
    BY <1>1, <1>2, <2>4, Zenon DEF RemoveBegin
  <2>5. CASE StorePrev(c) \/ ClearNext(c)
    BY <1>1, <1>2, <2>5, Zenon DEF StorePrev, ClearNext, dram, locals
  <2>6. CASE RemoveEnd(c)
    BY <1>1, <1>2, <2>6, Zenon DEF RemoveEnd, locals
  <2> QED BY <2>1, <2>2, <2>3, <2>4, <2>5, <2>6, Zenon DEF Step
<1> QED BY <1>2, <1>3, Zenon DEF Live, PmLog

(* A step on d changes its log by the slot it works on, and no step changes *)
(* which slot that is before the operation has ended.                       *)
LEMMA OwnLog ==
  ASSUME IInv, NEW d \in Live, Step(d)
  PROVE  /\ d \in Live' /\ (pc[d] # "idle" => target'[d] = target[d])
         /\ \A s : s # target'[d] => (s \in Range(PmLog(d)) <=> s \in Range(PmLog(d))')
<1>1. /\ d \in Dirs /\ pc[d] \notin {"absent", "flush"} /\ TypeOK /\ DirInv(d)
  BY Zenon DEF Live, IInv
<1>2. /\ pc \in [Dirs -> {pc[e] : e \in Dirs}] /\ list \in [Dirs -> {list[e] : e \in Dirs}]
      /\ target \in [Dirs -> {target[e] : e \in Dirs}] /\ pos \in [Dirs -> {pos[e] : e \in Dirs}]
      /\ list[d] \in Seq(Slots)
  BY <1>1, Zenon DEF TypeOK
<1>3. ~ CreateLog(d) /\ ~ FlushInode(d)
  BY <1>1, Zenon DEF CreateLog, FlushInode
<1>4. CASE AppendBegin(d) \/ RemoveBegin(d)
  <2>1. pc[d] = "idle" /\ pc'[d] \in {"store_ino", "store_prev"} /\ list' = list
    BY <1>1, <1>2, <1>4, Zenon DEF AppendBegin, RemoveBegin
  <2>2. PmLog(d)' = PmLog(d) /\ d \in Live'
    BY <1>1, <2>1, Zenon DEF PmLog, Live
  <2> QED BY <2>1, <2>2, Zenon DEF Range
<1>5. CASE StoreIno(d) \/ StoreName(d) \/ ClearNext(d)
  <2>1. /\ \/ pc[d] = "store_ino" /\ pc'[d] = "store_next"
           \/ pc[d] = "store_name" /\ pc'[d] = "list_add"
           \/ pc[d] = "clear_next" /\ pc'[d] = "free"
        /\ list' = list /\ target' = target /\ pos' = pos
    BY <1>1, <1>2, <1>5, Zenon DEF StoreIno, StoreName, ClearNext, dram, locals
  <2>2. PmLog(d)' = PmLog(d) /\ d \in Live'
    BY <1>1, <2>1, Zenon DEF PmLog, Live
  <2> QED BY <2>1, <2>2, Zenon DEF Range
<1>6. CASE AppendEnd(d) \/ RemoveEnd(d)
  <2>1. /\ \/ pc[d] = "list_add" /\ list'[d] = Append(list[d], target[d])
           \/ pc[d] = "free" /\ list'[d] = RemoveAt(list[d], pos[d])
        /\ pc'[d] = "idle" /\ target' = target
    BY <1>1, <1>2, <1>6, Zenon DEF AppendEnd, RemoveEnd, locals
  <2>2. PmLog(d)' = PmLog(d) /\ d \in Live'
    BY <1>1, <2>1, Zenon DEF PmLog, Live
  <2> QED BY <2>1, <2>2, Zenon DEF Range
<1>7. CASE StoreNext(d)
  <2>1. /\ pc[d] = "store_next" /\ pc'[d] = "store_name" /\ list' = list /\ target' = target
    BY <1>1, <1>2, <1>7, Zenon DEF StoreNext, dram, locals
  <2>2. PmLog(d) = list[d] /\ PmLog(d)' = Append(list[d], target[d]) /\ d \in Live'
    BY <1>1, <2>1, Zenon DEF PmLog, Live
  <2>3. Range(PmLog(d))' = Range(Append(list[d], target[d]))
    BY <2>2, Zenon DEF Range
  <2>4. Range(Append(list[d], target[d])) = Range(list[d]) \union {target[d]}
    <3>1. target[d] \in Slots
      BY <1>1, <2>1, Zenon DEF DirInv, Appending
    <3> DEFINE L == list[d]
               a == target[d]
    <3>2. L \in Seq(Slots) /\ a \in Slots
      BY <1>2, <3>1, Zenon
    <3> HIDE DEF L, a
    <3>3. Range(Append(L, a)) = Range(L) \union {a}
      <4>1. /\ DOMAIN Append(L, a) = 1 .. Len(L) + 1 /\ DOMAIN L = 1 .. Len(L) /\ Len(L) \in Nat
            /\ \A i \in 1 .. Len(L) : Append(L, a)[i] = L[i]
            /\ Append(L, a)[Len(L) + 1] = a
        BY <3>2
      <4> QED BY <4>1 DEF Range
    <3> QED BY <3>3, Zenon DEF L, a
  <2> QED BY <2>1, <2>2, <2>3, <2>4, Zenon
<1>8. CASE StorePrev(d)
  <2>1. /\ pc[d] = "store_prev" /\ pc'[d] = "clear_next" /\ list' = list /\ target' = target /\ pos' = pos
    BY <1>1, <1>2, <1>8, Zenon DEF StorePrev, dram, locals
  <2> DEFINE L == list[d]
             k == pos[d]
             M == RemoveAt(L, k)
  <2>2. PmLog(d) = L /\ PmLog(d)' = M /\ d \in Live'
    BY <1>1, <2>1, Zenon DEF PmLog, Live
  <2>3. k \in 1 .. Len(L) /\ target[d] = L[k]
    BY <1>1, <2>1, Zenon DEF DirInv, Removing
  <2>4. /\ M \in Seq(Slots) /\ Len(M) = Len(L) - 1
        /\ \A i \in 1 .. Len(L) - 1 : M[i] = IF i < k THEN L[i] ELSE L[i + 1]
    BY <1>2, <2>3, RemoveAtProps, Zenon
  <2>5. Range(PmLog(d))' = Range(M) /\ L \in Seq(Slots)
    BY <1>2, <2>2, Zenon DEF Range
  <2> HIDE DEF L, k, M
  <2>6. DOMAIN L = 1 .. Len(L) /\ DOMAIN M = 1 .. Len(L) - 1 /\ Len(L) \in Nat
    BY <2>4, <2>5
  <2>7. ASSUME NEW i \in DOMAIN M PROVE M[i] \in Range(L)
    BY <2>3, <2>4, <2>6 DEF Range
  <2>8. ASSUME NEW i \in DOMAIN L, L[i] # L[k] PROVE L[i] \in Range(M)
    <3>1. i # k
      BY <2>8, Zenon
    <3>2. CASE i < k
      <4>1. i \in DOMAIN M /\ M[i] = L[i]
        BY <2>3, <2>4, <2>6, <3>2
      <4> QED BY <4>1, Zenon DEF Range
    <3>3. CASE i > k
      <4>1. i - 1 \in DOMAIN M /\ M[i - 1] = L[i]
        BY <2>3, <2>4, <2>6, <3>3
      <4> QED BY <4>1, Zenon DEF Range
    <3> QED BY <2>3, <2>6, <3>1, <3>2, <3>3
  <2>9. \A s : s # L[k] => (s \in Range(L) <=> s \in Range(M))
    BY <2>7, <2>8, Zenon DEF Range
  <2> QED BY <2>1, <2>2, <2>3, <2>5, <2>9, Zenon
<1> QED BY <1>3, <1>4, <1>5, <1>6, <1>7, <1>8, Zenon DEF Step

(* What CommittedStays says of a step. *)
Stays ==
  \A d \in Live :
    LET old == {e \in PmEntries(d) : e[1] # target'[d]}
        new == {e \in PmEntries(d)' : e[1] # target'[d]}
    IN  (pc[d] # "idle" => target'[d] = target[d]) /\ old = new

(* Every step keeps the entries it does not work on. *)
LEMMA StepStays == ASSUME Induction, Fits, IInv, Chained, Chained', Next PROVE Stays
<1> SUFFICES ASSUME NEW d \in Live
             PROVE  /\ pc[d] # "idle" => target'[d] = target[d]
                    /\ {e \in PmEntries(d) : e[1] # target'[d]} =
                         {e \in PmEntries(d)' : e[1] # target'[d]}
  BY Zenon DEF Stays
<1>1. PICK c \in Dirs : Step(c)
  BY Zenon DEF Next, Step
<1>2. d \in Dirs /\ TypeOK /\ DirInv(c) /\ DirInv(d)
  BY Zenon DEF Live, IInv
<1>3. Range(PmLog(d)) \subseteq Own(d) /\ Own(d) \subseteq Slots
  BY <1>2, OwnSlots, Zenon DEF Chained
<1>4. /\ d \in Live' /\ (pc[d] # "idle" => target'[d] = target[d])
      /\ \A s : s # target'[d] => (s \in Range(PmLog(d)) <=> s \in Range(PmLog(d))')
  <2>1. CASE c = d
    BY <1>1, <2>1, OwnLog, Zenon
  <2>2. CASE c # d
    <3>1. d \in Live' /\ target'[d] = target[d] /\ PmLog(d)' = PmLog(d)
      BY <1>1, <2>2, OtherLog, Zenon
    <3> QED BY <3>1, Zenon DEF Range
  <2> QED BY <2>1, <2>2, Zenon
<1>5. ASSUME NEW s \in Range(PmLog(d)), s # target'[d]
      PROVE  pname'[s] = pname[s] /\ pino'[s] = pino[s]
  <2>1. pc[c] \in {"store_ino", "store_name"} => s # target[c]
    <3> SUFFICES ASSUME pc[c] \in {"store_ino", "store_name"} PROVE s # target[c]
      BY Zenon
    <3>1. CASE c = d
      <4>1. pc[d] # "idle"
        BY <3>1
      <4> QED BY <1>4, <1>5, <3>1, <4>1, Zenon
    <3>2. CASE c # d
      <4>1. target[c] \in Own(c)
        BY Zenon DEF Own
      <4>2. Own(c) \intersect Own(d) = {}
        BY <1>2, <3>2, Zenon DEF IInv, OwnDisjoint
      <4> QED BY <1>3, <4>1, <4>2, Zenon
    <3> QED BY <3>1, <3>2, Zenon
  <2> QED BY <1>1, <1>3, <2>1, ContentKept, Zenon
<1> DEFINE x == target'[d]
<1>6. /\ \A s : s # x => (s \in Range(PmLog(d)) <=> s \in Range(PmLog(d))')
      /\ \A s \in Range(PmLog(d)) : s # x => pname'[s] = pname[s] /\ pino'[s] = pino[s]
  BY <1>4, <1>5, Zenon
<1> HIDE DEF x
<1>7. {e \in PmEntries(d) : e[1] # x} = {e \in PmEntries(d)' : e[1] # x}
  BY <1>4, <1>6, SameEntries, Zenon
<1> QED BY <1>4, <1>7, Zenon DEF x

FST == INSTANCE FiniteSetTheorems
WF  == INSTANCE WellFoundedInduction

(* Every set of natural numbers has a least one. *)
LEMMA Least == \A T \in SUBSET Nat : T # {} => \E x \in T : \A y \in T : x <= y
<1> SUFFICES ASSUME NEW T \in SUBSET Nat, T # {} PROVE \E x \in T : \A y \in T : x <= y
  BY Zenon
<1> DEFINE R == WF!OpToRel(<, Nat)
<1>1. WF!IsWellFoundedOn(R, Nat)
  BY WF!NatLessThanWellFounded, Zenon
<1>2. \A x, y \in Nat : x < y => <<x, y>> \in R
  BY DEF WF!OpToRel
<1> HIDE DEF R
<1>3. PICK x \in T : \A y \in T : ~ (<<y, x>> \in R)
  BY <1>1, WF!WFMin, Zenon
<1>4. \A y \in T : ~ (y < x)
  BY <1>2, <1>3, Zenon
<1> QED BY <1>4

(* So induction over the natural numbers is sound. *)
LEMMA InductionHolds == Induction
<1> SUFFICES ASSUME NEW Q, 0 \in Q, \A n \in Nat : n \in Q => n + 1 \in Q
             PROVE  Nat \subseteq Q
  BY Zenon DEF Induction
<1> DEFINE T == Nat \ Q
<1> SUFFICES ASSUME T # {} PROVE FALSE
  OBVIOUS
<1>1. PICK x \in T : \A y \in T : x <= y
  BY Least, Zenon
<1>2. x # 0 /\ x \in Nat
  BY <1>1
<1>3. x - 1 \in Nat /\ x - 1 \notin T
  BY <1>1, <1>2
<1> QED BY <1>1, <1>2, <1>3

(* There are finitely many slots, so a log without repetitions has at most *)
(* as many.                                                                *)
LEMMA FitsHolds == Fits
<1>1. \A S : Cardinality(S) = FST!Cardinality(S)
  BY Zenon DEF Cardinality, FST!Cardinality
<1>2. FST!IsFiniteSet(Slots)
  BY SlotsAssumption, Zenon DEF IsFiniteSet, FST!IsFiniteSet
<1>3. FST!Cardinality(Slots) \in Nat
  BY <1>2, FST!FS_CardinalityType, Zenon
<1>4. ASSUME NEW n \in Nat, NEW q \in [1 .. n -> Slots], IsInjective(q)
      PROVE  n <= FST!Cardinality(Slots)
  <2>1. q \in FST!Injection(1 .. n, Slots)
    BY <1>4, Zenon DEF IsInjective, FST!Injection, FST!IsInjective
  <2>2. FST!Cardinality(1 .. n) <= FST!Cardinality(Slots)
    BY <1>2, <2>1, FST!FS_Injection, Zenon
  <2>3. 1 \in Int /\ n \in Int /\ (1 > n => n = 0) /\ n - 1 + 1 = n
    OBVIOUS
  <2>4. FST!Cardinality(1 .. n) = IF 1 > n THEN 0 ELSE n - 1 + 1
    BY <2>3, FST!FS_Interval, Zenon
  <2>5. FST!Cardinality(1 .. n) = n
    BY <2>3, <2>4, Zenon
  <2> QED BY <2>2, <2>5, Zenon
<1> QED BY <1>1, <1>3, <1>4, Zenon DEF Fits

(* Every step, of any directory, keeps the durable entries of a directory  *)
(* except the one that directory's own operation works on: what append or  *)
(* remove has acknowledged is still there after a crash (CommittedStays).  *)
THEOREM EntriesStay == Spec => CommittedStays
<1>1. IInv /\ IInv' /\ Chained /\ Chained' /\ [Next]_vars => [Stays]_vars
  BY InductionHolds, FitsHolds, StepStays, Zenon
<1>2. Spec => [][Stays]_vars
  BY InvInit, InvStep, IInvChained, <1>1, PTL DEF Spec
<1> QED BY <1>2, PTL DEF CommittedStays, Stays
=============================================================================
