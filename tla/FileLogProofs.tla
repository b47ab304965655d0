--------------------------- MODULE FileLogProofs ---------------------------
(***************************************************************************)
(* Proofs about the log of regular files, for any number of threads,       *)
(* files, slots and blocks: the reference counts of the entries, which the *)
(* reuse of invalid entries relies on (IInv), then the data blocks         *)
(* (BInv).  What a crash finds, and the theorems, are in FileLogSafe.      *)
(***************************************************************************)
EXTENDS FileLog, TLAPS

(* Leaves are for Zenon, but for those that say otherwise. *)
USE Zenon

(* From taking the inode's lock to releasing it. *)
Busy == {"alloc", "write_ts", "dispatch", "insert", "store", "unlock"}
Run == [l : Nat, p : Nat, n : Nat \ {0}]
Cur(t) == ebuf[t][num[t] + 1]

FileTyped ==
  /\ life \in [Files -> {"live", "releasing", "free"}]
  /\ list \in [Files -> Seq(Slots)] /\ invalid \in [Files -> Seq(Slots)]
  /\ ghost \in [Files -> Slots]
  /\ index \in [Files -> [Blocks -> Slots \union {Null}]]
  /\ ent \in [Slots -> [l : Nat, p : Nat, n : Nat, ts : Nat, ref : Int]]
  /\ sused \subseteq Slots
WriteTyped ==
  /\ lock \in [Files -> Threads \union {Null}]
  /\ pc \in [Threads -> Busy \union {"idle", "read_size", "write_size"}]
  /\ file \in [Threads -> Files \union {Null}]
  /\ off \in [Threads -> Nat] /\ len \in [Threads -> Nat]
  /\ ebuf \in [Threads -> Seq(Run)]
  /\ num \in [Threads -> Nat] /\ stamp \in [Threads -> Nat] /\ ts \in Nat
  /\ slot \in [Threads -> Slots \union {Null}] /\ reuse \in [Threads -> BOOLEAN]
Typed == FileTyped /\ WriteTyped /\ dused \subseteq Data

(* A write has the lock of its file, which is there. *)
Locks(t) ==
  pc[t] \in Busy => file[t] \in Files /\ life[file[t]] = "live" /\ lock[file[t]] = t

(* The runs e a write of n blocks from o has allocated follow one another   *)
(* from its first block on; k of them are in the log.                       *)
Reach(o, e) == IF e = <<>> THEN o ELSE e[Len(e)].l + e[Len(e)].n
RunsOK(p, o, n, e, k) ==
  /\ o + n <= NB /\ o <= Reach(o, e) /\ Reach(o, e) <= o + n
  /\ UNION {Covers(r) : r \in Range(e)} = o .. Reach(o, e) - 1
  /\ \A i \in DOMAIN e : o <= e[i].l /\ e[i].l + e[i].n <= Reach(o, e)
  /\ \A i, j \in DOMAIN e : i < j => e[i].l + e[i].n <= e[j].l
  /\ IF p = "idle" THEN e = <<>> ELSE n >= 1
  /\ p \in {"alloc", "write_ts"} => k = 0
  /\ p = "write_ts" => e # <<>>
  /\ p \in {"dispatch", "insert", "store"} => k < Len(e)
  /\ p \in {"unlock", "read_size", "write_size", "idle"} => k = Len(e)
Runs(t) == RunsOK(pc[t], off[t], len[t], ebuf[t], num[t])

(* Every slot of a log is marked, and is in one log, once. *)
OwnSlots ==
  /\ \A f \in Files : ghost[f] \in sused /\ Range(list[f]) \subseteq sused
  /\ \A f, g \in Files : ghost[f] = ghost[g] => f = g
  /\ \A f, g \in Files : ghost[f] \notin Range(list[g])
  /\ \A f, g \in Files : f # g => Range(list[f]) \intersect Range(list[g]) = {}
  /\ \A f \in Files : IsInjective(list[f])

(* The slot s of the entry a write is adding for run r to the log L. *)
Uses(idx, s) == {b \in Blocks : idx[b] = s}
SlotOK(p, s, e, r, L, idx, ru) ==
  p \in {"insert", "store"} =>
    /\ s \in Range(L)
    /\ e.l = r.l /\ e.p = r.p /\ e.n = r.n
    /\ p = "insert" => e.ref = r.n /\ Uses(idx, s) = {}
    /\ p = "store" => Uses(idx, s) = Covers(r)
    /\ ~ ru => s = L[Len(L)]
Slotted(t) ==
  SlotOK(pc[t], slot[t], ent[slot[t]], Cur(t), list[file[t]], index[file[t]], reuse[t])

(* RefExact for one file, with the log L, the invalid entries v, the index  *)
(* idx, the entries E and those that are being filled F.                    *)
RefOK(L, v, idx, E, F) ==
  /\ \A s \in Range(L) \ F : E[s].ref = Cardinality(Uses(idx, s))
  /\ Range(v) = {s \in Range(L) \ F : E[s].ref = 0}
  /\ IsInjective(v)
  /\ \A b \in Blocks : idx[b] # Null => idx[b] \in Range(L) /\ b \in Covers(E[idx[b]])
RefOf(f) == RefOK(list[f], invalid[f], index[f], ent, Filling(f))

IInv ==
  /\ Typed /\ OwnSlots
  /\ \A t \in Threads : Locks(t) /\ Runs(t) /\ Slotted(t)
  /\ \A f \in Files : life[f] = "live" => RefOf(f)

(* Facts about finite sets, proved at the end. *)
Counting ==
  /\ \A S \in SUBSET Blocks : Cardinality(S) \in Nat /\ (Cardinality(S) = 0 <=> S = {})
  /\ \A S, T \in SUBSET Blocks :
       Cardinality(S \ T) = Cardinality(S) - Cardinality(S \intersect T)
  /\ \A a, b \in Int : a <= b + 1 => Cardinality(a .. b) = b - a + 1
Sorting ==
  \A n \in Nat : \A S \in SUBSET (1 .. n) :
    /\ Cardinality(S) \in Nat
    /\ Sorted(S) \in [1 .. Cardinality(S) -> S] /\ Range(Sorted(S)) = S
    /\ \A i, j \in 1 .. Cardinality(S) : i < j => Sorted(S)[i] < Sorted(S)[j]
    /\ S # {} => \E i \in S : \A j \in S : j <= i
-----------------------------------------------------------------------------
(* Sequences: what they hold after each of the operations on the lists. *)
LEMMA RangeAppend ==
  ASSUME NEW S, NEW L \in Seq(S), NEW x \in S
  PROVE  /\ Range(Append(L, x)) = Range(L) \union {x}
         /\ IsInjective(L) /\ x \notin Range(L) => IsInjective(Append(L, x))
<1> DEFINE A == Append(L, x)
<1>1. Len(A) = Len(L) + 1 /\ DOMAIN A = 1 .. Len(L) + 1 /\ DOMAIN L = 1 .. Len(L) /\ Len(L) \in Nat
      /\ \A i \in 1 .. Len(L) : A[i] = L[i]
  BY SMT
<1>2. A[Len(L) + 1] = x
  BY SMT
<1> HIDE DEF A
<1>3. Range(A) = Range(L) \union {x}
  BY <1>1, <1>2, SMT DEF Range
<1>4. ASSUME IsInjective(L), x \notin Range(L) PROVE IsInjective(A)
  BY <1>1, <1>2, <1>4, SMT DEF Range, IsInjective
<1> QED BY <1>3, <1>4 DEF A

(* RangeAppend for the lists of slots, ... *)
LEMMA AppendSlot ==
  \A L \in Seq(Slots), x \in Slots :
    /\ Append(L, x) \in Seq(Slots) /\ Append(L, x)[Len(Append(L, x))] = x
    /\ Range(Append(L, x)) = Range(L) \union {x}
    /\ IsInjective(L) /\ x \notin Range(L) => IsInjective(Append(L, x))
<1> SUFFICES ASSUME NEW L \in Seq(Slots), NEW x \in Slots
             PROVE  /\ Append(L, x) \in Seq(Slots) /\ Append(L, x)[Len(Append(L, x))] = x
                    /\ Range(Append(L, x)) = Range(L) \union {x}
                    /\ IsInjective(L) /\ x \notin Range(L) => IsInjective(Append(L, x))
  OBVIOUS
<1>1. Append(L, x) \in Seq(Slots) /\ Append(L, x)[Len(Append(L, x))] = x
  BY SMT
<1> QED BY <1>1, RangeAppend, SMT

(* ... and for the runs of a write. *)
LEMMA AppendRun ==
  \A e \in Seq(Run), q \in Run : Range(Append(e, q)) = Range(e) \union {q}
<1> SUFFICES ASSUME NEW e \in Seq(Run), NEW q \in Run PROVE Range(Append(e, q)) = Range(e) \union {q}
  OBVIOUS
<1> QED BY RangeAppend, SMT

(* The rest of a list. *)
LEMMA RangeTail ==
  ASSUME NEW S, NEW L \in Seq(S), L # <<>>
  PROVE  /\ Head(L) \in Range(L) /\ Tail(L) \in Seq(S)
         /\ Range(Tail(L)) \subseteq Range(L)
         /\ IsInjective(L) => /\ Range(Tail(L)) = Range(L) \ {Head(L)}
                              /\ IsInjective(Tail(L))
<1> DEFINE T == Tail(L)
<1>1. Len(L) \in Nat /\ Len(L) >= 1 /\ Len(T) = Len(L) - 1 /\ DOMAIN T = 1 .. Len(L) - 1
      /\ DOMAIN L = 1 .. Len(L) /\ T \in Seq(S) /\ \A i \in 1 .. Len(L) - 1 : T[i] = L[i + 1]
  BY SMT
<1>2. Head(L) = L[1]
  BY SMT
<1> HIDE DEF T
<1>3. Head(L) \in Range(L)
  BY <1>1, <1>2, SMT DEF Range
<1>4. Range(T) \subseteq Range(L)
  BY <1>1, SMT DEF Range
<1>5. ASSUME IsInjective(L) PROVE Range(T) = Range(L) \ {Head(L)}
  <2>1. ASSUME NEW y \in Range(L), y # Head(L) PROVE y \in Range(T)
    <3>1. PICK i \in 1 .. Len(L) : y = L[i]
      BY <1>1, SMT DEF Range
    <3>2. i # 1 /\ i - 1 \in 1 .. Len(L) - 1 /\ T[i - 1] = L[i]
      BY <1>1, <1>2, <2>1, <3>1, SMT
    <3>3. i - 1 \in DOMAIN T /\ T[i - 1] = y
      BY <1>1, <3>1, <3>2
    <3> QED BY <3>3 DEF Range
  <2>2. Head(L) \notin Range(T)
    <3> SUFFICES ASSUME NEW i \in 1 .. Len(L) - 1, T[i] = L[1] PROVE FALSE
      BY <1>1, <1>2, SMT DEF Range
    <3>1. L[i + 1] = L[1] /\ i + 1 \in 1 .. Len(L) /\ 1 \in 1 .. Len(L)
      BY <1>1, SMT
    <3>2. i + 1 = 1
      BY <1>1, <1>5, <3>1 DEF IsInjective
    <3> QED BY <3>2, SMT
  <2> QED BY <1>4, <2>1, <2>2
<1>6. ASSUME IsInjective(L) PROVE IsInjective(T)
  <2> SUFFICES ASSUME NEW i \in 1 .. Len(L) - 1, NEW j \in 1 .. Len(L) - 1, T[i] = T[j]
               PROVE  i = j
    BY <1>1, SMT DEF IsInjective
  <2>1. L[i + 1] = L[j + 1] /\ i + 1 \in 1 .. Len(L) /\ j + 1 \in 1 .. Len(L)
    BY <1>1, SMT
  <2>2. i + 1 = j + 1
    BY <1>1, <1>6, <2>1 DEF IsInjective
  <2> QED BY <2>2, SMT
<1> QED BY <1>1, <1>3, <1>4, <1>5, <1>6 DEF T

(* One list after another. *)
LEMMA RangeConcat ==
  ASSUME NEW S, NEW L \in Seq(S), NEW M \in Seq(S)
  PROVE  /\ L \o M \in Seq(S)
         /\ Range(L \o M) = Range(L) \union Range(M)
         /\ IsInjective(L) /\ IsInjective(M) /\ Range(L) \intersect Range(M) = {}
              => IsInjective(L \o M)
<1> DEFINE C == L \o M
<1>1. /\ C \in Seq(S) /\ Len(L) \in Nat /\ Len(M) \in Nat
      /\ DOMAIN C = 1 .. Len(L) + Len(M)
      /\ DOMAIN L = 1 .. Len(L) /\ DOMAIN M = 1 .. Len(M)
      /\ \A i \in 1 .. Len(L) : C[i] = L[i]
      /\ \A i \in 1 .. Len(M) : C[Len(L) + i] = M[i]
      /\ \A i \in 1 .. Len(L) + Len(M) : i \in 1 .. Len(L) \/ i - Len(L) \in 1 .. Len(M)
      /\ \A i \in 1 .. Len(L) + Len(M) : i \notin 1 .. Len(L) => C[i] = M[i - Len(L)]
  BY SMT
<1> HIDE DEF C
<1>2. Range(C) \subseteq Range(L) \union Range(M)
  BY <1>1, SMT DEF Range
<1>3. Range(L) \subseteq Range(C)
  BY <1>1, SMT DEF Range
<1>4. Range(M) \subseteq Range(C)
  BY <1>1, SMT DEF Range
<1>5. ASSUME IsInjective(L), IsInjective(M), Range(L) \intersect Range(M) = {}
      PROVE  IsInjective(C)
  <2> SUFFICES ASSUME NEW i \in 1 .. Len(L) + Len(M), NEW j \in 1 .. Len(L) + Len(M), C[i] = C[j]
               PROVE  i = j
    BY <1>1, SMT DEF IsInjective
  <2>1. CASE i \in 1 .. Len(L) /\ j \in 1 .. Len(L)
    BY <1>1, <1>5, <2>1 DEF IsInjective
  <2>2. CASE i \notin 1 .. Len(L) /\ j \notin 1 .. Len(L)
    <3>1. /\ M[i - Len(L)] = M[j - Len(L)]
          /\ i - Len(L) \in 1 .. Len(M) /\ j - Len(L) \in 1 .. Len(M)
      BY <1>1, <2>2, SMT
    <3>2. i - Len(L) = j - Len(L)
      BY <1>1, <1>5, <3>1 DEF IsInjective
    <3> QED BY <1>1, <3>2, SMT
  <2>3. CASE i \in 1 .. Len(L) /\ j \notin 1 .. Len(L)
    <3>1. L[i] = M[j - Len(L)] /\ j - Len(L) \in 1 .. Len(M)
      BY <1>1, <2>3
    <3>2. L[i] \in Range(L) /\ M[j - Len(L)] \in Range(M)
      BY <1>1, <2>3, <3>1 DEF Range
    <3> QED BY <1>5, <3>1, <3>2
  <2>4. CASE i \notin 1 .. Len(L) /\ j \in 1 .. Len(L)
    <3>1. L[j] = M[i - Len(L)] /\ i - Len(L) \in 1 .. Len(M)
      BY <1>1, <2>4
    <3>2. L[j] \in Range(L) /\ M[i - Len(L)] \in Range(M)
      BY <1>1, <2>4, <3>1 DEF Range
    <3> QED BY <1>5, <3>1, <3>2
  <2> QED BY <2>1, <2>2, <2>3, <2>4
<1> QED BY <1>1, <1>2, <1>3, <1>4, <1>5 DEF C
-----------------------------------------------------------------------------
(* A write's next run begins where the last one ends, and stays within it. *)
LEMMA RunsAppend ==
  ASSUME Counting, NEW o \in Nat, NEW n \in Nat, NEW e \in Seq(Run), NEW k,
         NEW m \in Nat \ {0}, NEW p \in Nat,
         RunsOK("alloc", o, n, e, k),
         NEW Z, Z = (o .. o + n - 1) \ UNION {Covers(r) : r \in Range(e)},
         m <= Cardinality(Z)
  PROVE  /\ [l |-> o + n - Cardinality(Z), p |-> p, n |-> m] \in Run
         /\ RunsOK("alloc", o, n, Append(e, [l |-> o + n - Cardinality(Z), p |-> p, n |-> m]), k)
<1> DEFINE R == Reach(o, e)
<1>1. R \in Nat /\ o <= R /\ R <= o + n
  <2>1. CASE e = <<>>
    BY <2>1, SMT DEF Reach, RunsOK
  <2>2. CASE e # <<>>
    <3>1. Len(e) \in Nat \ {0} /\ e[Len(e)] \in Run
      BY <2>2, SMT
    <3> QED BY <2>2, <3>1, SMT DEF Reach, RunsOK, Run
  <2> QED BY <2>1, <2>2
<1>2. UNION {Covers(r) : r \in Range(e)} = o .. R - 1
  BY DEF RunsOK
<1>3. Z = R .. o + n - 1
  BY <1>1, <1>2, SMT
<1>4. Cardinality(Z) = o + n - R
  <2>1. R \in Int /\ o + n - 1 \in Int /\ R <= (o + n - 1) + 1 /\ (o + n - 1) - R + 1 = o + n - R
    BY <1>1, SMT
  <2> QED BY <1>3, <2>1 DEF Counting
<1> HIDE DEF R
<1> DEFINE q == [l |-> o + n - Cardinality(Z), p |-> p, n |-> m]
<1>5. q \in Run /\ q.l = R /\ q.n = m /\ R + m <= o + n
  BY <1>1, <1>4, SMT DEF Run
<1> HIDE DEF q
<1> DEFINE a == Append(e, q)
<1>6. /\ Len(e) \in Nat /\ Len(a) = Len(e) + 1 /\ DOMAIN a = 1 .. Len(e) + 1 /\ a # <<>>
      /\ DOMAIN e = 1 .. Len(e)
      /\ \A i \in 1 .. Len(e) : a[i] = e[i] /\ e[i] \in Run
  BY SMT
<1>7. a[Len(e) + 1] = q
  BY SMT
<1> HIDE DEF a
<1>8. Reach(o, a) = R + m
  BY <1>5, <1>6, <1>7 DEF Reach
<1>9. \A i \in 1 .. Len(e) : e[i].l \in Nat /\ e[i].n \in Nat \ {0} /\ o <= e[i].l /\ e[i].l + e[i].n <= R
  BY <1>6 DEF RunsOK, Run, R
<1>10. UNION {Covers(r) : r \in Range(a)} = o .. R + m - 1
  <2>1. Range(a) = Range(e) \union {q}
    BY <1>5, AppendRun DEF a
  <2>2. Covers(q) = R .. R + m - 1
    BY <1>5 DEF Covers
  <2> DEFINE U == UNION {Covers(r) : r \in Range(a)}
             V == UNION {Covers(r) : r \in Range(e)}
  <2>3. \A x : x \in U <=> x \in V \/ x \in Covers(q)
    BY <2>1
  <2>4. V = o .. R - 1
    BY <1>2
  <2> HIDE DEF U, V
  <2>5. \A x : x \in U <=> x \in o .. R + m - 1
    <3>1. \A x : x \in o .. R + m - 1 <=> x \in o .. R - 1 \/ x \in R .. R + m - 1
      BY <1>1, SMT
    <3> QED BY <2>2, <2>3, <2>4, <3>1
  <2> QED BY <2>5 DEF U
<1>11. \A i \in DOMAIN a : o <= a[i].l /\ a[i].l + a[i].n <= R + m
  <2> SUFFICES ASSUME NEW i \in DOMAIN a PROVE o <= a[i].l /\ a[i].l + a[i].n <= R + m
    OBVIOUS
  <2>1. CASE i \in 1 .. Len(e)
    <3>1. a[i] = e[i] /\ e[i].l \in Nat /\ e[i].n \in Nat /\ o <= e[i].l /\ e[i].l + e[i].n <= R
      BY <1>6, <1>9, <2>1
    <3> QED BY <1>1, <3>1, SMT
  <2>2. CASE i \notin 1 .. Len(e)
    <3>1. i = Len(e) + 1
      BY <1>6, <2>2, SMT
    <3>2. a[i].l = R /\ a[i].n = m
      BY <1>5, <1>7, <3>1
    <3> QED BY <1>1, <3>2, SMT
  <2> QED BY <2>1, <2>2
<1>12. \A i, j \in DOMAIN a : i < j => a[i].l + a[i].n <= a[j].l
  <2> SUFFICES ASSUME NEW i \in DOMAIN a, NEW j \in DOMAIN a, i < j
               PROVE  a[i].l + a[i].n <= a[j].l
    OBVIOUS
  <2>1. CASE j \in 1 .. Len(e)
    <3>1. i \in 1 .. Len(e)
      BY <1>6, <2>1, SMT
    <3> QED BY <1>6, <2>1, <3>1 DEF RunsOK
  <2>2. CASE j \notin 1 .. Len(e)
    <3>1. j = Len(e) + 1 /\ i \in 1 .. Len(e)
      BY <1>6, <2>2, SMT
    <3>2. a[j].l = R /\ a[i] = e[i] /\ e[i].l + e[i].n <= R
      BY <1>5, <1>6, <1>7, <1>9, <3>1
    <3> QED BY <3>2, SMT
  <2> QED BY <2>1, <2>2
<1>13. RunsOK("alloc", o, n, a, k)
  <2>1. o + n <= NB /\ n >= 1 /\ k = 0
    BY SMT DEF RunsOK
  <2>2. o <= R + m /\ R + m <= o + n
    BY <1>1, <1>5, SMT
  <2>3. /\ IF "alloc" = "idle" THEN a = <<>> ELSE n >= 1
        /\ "alloc" \in {"alloc", "write_ts"} => k = 0
        /\ "alloc" = "write_ts" => a # <<>>
        /\ "alloc" \in {"dispatch", "insert", "store"} => k < Len(a)
        /\ "alloc" \in {"unlock", "read_size", "write_size", "idle"} => k = Len(a)
    BY <2>1, SMT
  <2>4. UNION {Covers(r) : r \in Range(a)} = o .. Reach(o, a) - 1
    <3> DEFINE W == UNION {Covers(r) : r \in Range(a)}
    <3>1. W = o .. R + m - 1
      BY <1>10
    <3> HIDE DEF W
    <3>2. R + m - 1 = Reach(o, a) - 1
      BY <1>1, <1>8, SMT
    <3>3. W = o .. Reach(o, a) - 1
      BY <3>1, <3>2
    <3> QED BY <3>3 DEF W
  <2>5. \A i \in DOMAIN a : o <= a[i].l /\ a[i].l + a[i].n <= Reach(o, a)
    BY <1>8, <1>11
  <2>6. o <= Reach(o, a) /\ Reach(o, a) <= o + n
    BY <1>8, <2>2
  <2> QED BY <1>12, <2>1, <2>3, <2>4, <2>5, <2>6 DEF RunsOK
<1> QED BY <1>5, <1>13 DEF q, a
-----------------------------------------------------------------------------
(* The entries that become invalid are those whose last block is taken over, *)
(* each of them once.                                                       *)
LEMMA DiedProps ==
  ASSUME Counting, Sorting, NEW f, index[f] \in [Blocks -> Slots \union {Null}],
         NEW r \in Run, Covers(r) \subseteq Blocks
  PROVE  /\ Died(f, r) \in Seq(Slots) /\ IsInjective(Died(f, r))
         /\ Range(Died(f, r)) = {s \in Slots : Dying(f, r, s)}
<1> DEFINE old == [i \in 1 .. r.n |-> index[f][r.l + i - 1]]
           last == {i \in 1 .. r.n : /\ old[i] # Null
                                     /\ Dying(f, r, old[i])
                                     /\ \A j \in i + 1 .. r.n : old[j] # old[i]}
           at == Sorted(last)
           K == Cardinality(last)
           D == [k \in 1 .. K |-> old[at[k]]]
<1>1. Died(f, r) = D
  BY DEF Died
<1>2. r.n \in Nat /\ r.l \in Nat
  BY SMT DEF Run
<1>3. \A i \in 1 .. r.n : r.l + i - 1 \in Covers(r)
  BY <1>2, SMT DEF Covers
<1>4. \A i \in 1 .. r.n : old[i] = index[f][r.l + i - 1] /\ old[i] \in Slots \union {Null}
  BY <1>3
<1>5. last \in SUBSET (1 .. r.n)
  OBVIOUS
<1>6. \A i \in last : /\ old[i] \in Slots /\ Dying(f, r, old[i]) /\ i \in 1 .. r.n
                      /\ \A j \in i + 1 .. r.n : old[j] # old[i]
  BY <1>4
<1>7. \A i \in 1 .. r.n : old[i] # Null /\ Dying(f, r, old[i])
                          /\ (\A j \in i + 1 .. r.n : old[j] # old[i]) => i \in last
  OBVIOUS
<1> HIDE DEF last
<1>8. /\ K \in Nat /\ at \in [1 .. K -> last] /\ Range(at) = last
      /\ \A i, j \in 1 .. K : i < j => at[i] < at[j]
  BY <1>2, <1>5 DEF Sorting
<1> HIDE DEF at, K
<1>9. D \in [1 .. K -> Slots] /\ \A k \in 1 .. K : D[k] = old[at[k]] /\ at[k] \in last
  <2>1. \A k \in 1 .. K : at[k] \in last /\ old[at[k]] \in Slots
    BY <1>6, <1>8
  <2> QED BY <2>1
<1> HIDE DEF D, old
<1>10. D \in Seq(Slots) /\ DOMAIN D = 1 .. K
  BY <1>8, <1>9, SMT
<1>11. IsInjective(D)
  <2> SUFFICES ASSUME NEW i \in 1 .. K, NEW j \in 1 .. K, D[i] = D[j], i < j PROVE FALSE
    BY <1>8, <1>10, SMT DEF IsInjective
  <2>1. at[i] \in last /\ at[j] \in last /\ at[i] < at[j] /\ old[at[i]] = old[at[j]]
    BY <1>8, <1>9
  <2>2. at[j] \in at[i] + 1 .. r.n
    BY <1>2, <1>6, <2>1, SMT
  <2> QED BY <1>6, <2>1, <2>2
<1>12. ASSUME NEW s \in Range(D) PROVE s \in Slots /\ Dying(f, r, s)
  <2>1. PICK k \in 1 .. K : D[k] = s
    BY <1>10, <1>12 DEF Range
  <2> QED BY <1>6, <1>9, <2>1
<1>13. ASSUME NEW s \in Slots, Dying(f, r, s) PROVE s \in Range(D)
  <2> DEFINE X == {i \in 1 .. r.n : old[i] = s}
  <2>1. X \in SUBSET (1 .. r.n)
    OBVIOUS
  <2>2. X # {}
    <3>1. Indexed(f, s) \intersect Covers(r) # {}
      <4>1. Lost(f, r, s) > 0
        BY <1>13 DEF Dying
      <4>2. {} \in SUBSET Blocks /\ Cardinality({}) = 0
        BY DEF Counting
      <4> QED BY <4>1, <4>2, SMT DEF Lost
    <3>2. PICK b \in Covers(r) : index[f][b] = s
      BY <3>1 DEF Indexed
    <3>3. b - r.l + 1 \in 1 .. r.n /\ r.l + (b - r.l + 1) - 1 = b
      BY <1>2, SMT DEF Covers
    <3>4. old[b - r.l + 1] = s
      BY <1>4, <3>2, <3>3
    <3> QED BY <3>3, <3>4
  <2>3. PICK i \in X : \A j \in X : j <= i
    BY <1>2, <2>1, <2>2 DEF Sorting
  <2>4. i \in 1 .. r.n /\ old[i] = s
    BY <2>3
  <2>5. \A j \in i + 1 .. r.n : old[j] # old[i]
    <3> SUFFICES ASSUME NEW j \in i + 1 .. r.n, old[j] = s PROVE FALSE
      BY <2>4
    <3>1. j \in 1 .. r.n /\ ~ (j <= i)
      BY <1>2, <2>4, SMT
    <3> QED BY <2>3, <3>1
  <2>6. i \in last
    BY <1>7, <1>13, <2>4, <2>5, NullAssumption
  <2>7. PICK k \in 1 .. K : at[k] = i
    BY <1>8, <2>6 DEF Range
  <2> QED BY <1>9, <1>10, <2>4, <2>7 DEF Range
<1>14. Range(D) = {s \in Slots : Dying(f, r, s)}
  BY <1>12, <1>13
<1> QED BY <1>1, <1>10, <1>11, <1>14

(* A file whose own entries stay as they are. *)
LEMMA RefFrame ==
  ASSUME NEW L, NEW v, NEW idx, NEW E, NEW G, NEW F, RefOK(L, v, idx, E, F),
         \A s \in Range(L) : G[s] = E[s]
  PROVE  RefOK(L, v, idx, G, F)
<1>1. \A s \in Range(L) \ F : G[s].ref = Cardinality(Uses(idx, s))
  BY DEF RefOK
<1>2. {s \in Range(L) \ F : G[s].ref = 0} = {s \in Range(L) \ F : E[s].ref = 0}
  OBVIOUS
<1>3. Range(v) = {s \in Range(L) \ F : G[s].ref = 0}
  BY <1>2 DEF RefOK
<1>4. \A b \in Blocks : idx[b] # Null => idx[b] \in Range(L) /\ b \in Covers(G[idx[b]])
  BY DEF RefOK
<1> QED BY <1>1, <1>3, <1>4 DEF RefOK

(* filent_try_reuse: the first invalid entry has no block in the index, and *)
(* may be filled with anything.                                             *)
LEMMA RefReuse ==
  ASSUME Counting, NEW L, NEW v \in Seq(Slots), v # <<>>,
         NEW idx \in [Blocks -> Slots \union {Null}], NEW E, NEW G,
         RefOK(L, v, idx, E, {}), \A s \in Slots \ {Head(v)} : G[s] = E[s],
         Range(L) \subseteq Slots
  PROVE  /\ Head(v) \in Range(L) /\ Uses(idx, Head(v)) = {}
         /\ RefOK(L, Tail(v), idx, G, {Head(v)})
<1> DEFINE h == Head(v)
<1>1. h \in Range(v) /\ IsInjective(v)
  BY RangeTail DEF RefOK
<1>2. h \in Range(L) /\ E[h].ref = 0
  BY <1>1 DEF RefOK
<1>3. Uses(idx, h) = {}
  <2>1. Cardinality(Uses(idx, h)) = 0
    BY <1>2 DEF RefOK
  <2>2. Uses(idx, h) \in SUBSET Blocks
    BY DEF Uses
  <2> QED BY <2>1, <2>2 DEF Counting
<1>4. Range(Tail(v)) = Range(v) \ {h} /\ IsInjective(Tail(v))
  BY <1>1, RangeTail
<1> HIDE DEF h
<1>5. \A s \in Range(L) \ {h} : G[s] = E[s]
  BY DEF h
<1>6. \A s \in Range(L) \ {h} : G[s].ref = Cardinality(Uses(idx, s))
  BY <1>5 DEF RefOK
<1>7. Range(Tail(v)) = {s \in Range(L) \ {h} : G[s].ref = 0}
  <2>1. \A s : s \in Range(v) <=> s \in Range(L) /\ E[s].ref = 0
    BY DEF RefOK
  <2>2. \A s : s \in Range(Tail(v)) <=> s \in Range(L) /\ s # h /\ G[s].ref = 0
    BY <1>4, <1>5, <2>1
  <2> QED BY <2>2
<1>8. ASSUME NEW b \in Blocks, idx[b] # Null
      PROVE  idx[b] \in Range(L) /\ b \in Covers(G[idx[b]])
  <2>1. idx[b] \in Range(L) /\ b \in Covers(E[idx[b]])
    BY <1>8 DEF RefOK
  <2>2. idx[b] # h
    BY <1>3 DEF Uses
  <2> QED BY <1>5, <2>1, <2>2
<1>9. RefOK(L, Tail(v), idx, G, {h})
  BY <1>4, <1>6, <1>7, <1>8 DEF RefOK
<1> QED BY <1>2, <1>3, <1>9 DEF h

(* An entry at the end of the log, in a slot that was in no log. *)
LEMMA RefAppend ==
  ASSUME NEW L \in Seq(Slots), NEW v, NEW s \in Slots, s \notin Range(L),
         NEW idx \in [Blocks -> Slots \union {Null}], NEW E, NEW G,
         RefOK(L, v, idx, E, {}), \A x \in Slots \ {s} : G[x] = E[x]
  PROVE  Uses(idx, s) = {} /\ RefOK(Append(L, s), v, idx, G, {s})
<1>1. Range(Append(L, s)) = Range(L) \union {s}
  BY AppendSlot
<1>2. Uses(idx, s) = {}
  BY NullAssumption DEF Uses, RefOK
<1>3. Range(L) \subseteq Slots
  BY SMT DEF Range
<1>4. Range(Append(L, s)) \ {s} = Range(L)
  BY <1>1
<1>5. \A x \in Range(L) : G[x] = E[x] /\ x # s
  BY <1>3
<1>6. \A x \in Range(Append(L, s)) \ {s} : G[x].ref = Cardinality(Uses(idx, x))
  BY <1>4, <1>5 DEF RefOK
<1>7. Range(v) = {x \in Range(Append(L, s)) \ {s} : G[x].ref = 0}
  <2>1. \A x : x \in Range(v) <=> x \in Range(L) /\ E[x].ref = 0
    BY DEF RefOK
  <2>2. \A x : x \in Range(v) <=> x \in Range(Append(L, s)) \ {s} /\ G[x].ref = 0
    BY <1>4, <1>5, <2>1
  <2> QED BY <2>2
<1>8. \A b \in Blocks : idx[b] # Null => idx[b] \in Range(L) /\ b \in Covers(G[idx[b]])
  BY <1>5 DEF RefOK
<1>9. \A b \in Blocks : idx[b] # Null => idx[b] \in Range(Append(L, s)) /\ b \in Covers(G[idx[b]])
  BY <1>1, <1>8
<1>10. IsInjective(v)
  BY DEF RefOK
<1> QED BY <1>2, <1>6, <1>7, <1>9, <1>10 DEF RefOK

(* file_index_insert: the entry in slot s takes the blocks of run r over.   *)
(* The entries D lose their last block; the index becomes jdx, the entries  *)
(* G.                                                                       *)
TakesOver(L, v, D, idx, E, r, s, jdx, G) ==
  /\ Range(L) \subseteq Slots /\ v \in Seq(Slots) /\ D \in Seq(Slots) /\ IsInjective(D)
  /\ idx \in [Blocks -> Slots \union {Null}]
  /\ E \in [Slots -> [l : Nat, p : Nat, n : Nat, ts : Nat, ref : Int]]
  /\ r \in Run /\ Covers(r) \subseteq Blocks
  /\ s \in Range(L) /\ E[s].l = r.l /\ E[s].n = r.n /\ E[s].ref = r.n /\ Uses(idx, s) = {}
  /\ RefOK(L, v, idx, E, {s})
  /\ \A x : x \in Range(D) <=>
           /\ x \in Slots
           /\ Cardinality(Uses(idx, x) \intersect Covers(r)) > 0
           /\ E[x].ref = Cardinality(Uses(idx, x) \intersect Covers(r))
  /\ jdx = [b \in Blocks |-> IF b \in Covers(r) THEN s ELSE idx[b]]
  /\ \A x \in Slots : G[x] = [E[x] EXCEPT
           !.ref = @ - Cardinality(Uses(idx, x) \intersect Covers(r))]

(* What such a step leaves is exact again. *)
LEMMA RefInsert ==
  ASSUME Counting, NEW L, NEW v, NEW D, NEW idx, NEW E, NEW r, NEW s, NEW jdx, NEW G,
         TakesOver(L, v, D, idx, E, r, s, jdx, G)
  PROVE  RefOK(L, v \o D, jdx, G, {}) /\ Uses(jdx, s) = Covers(r)
<1> USE DEF TakesOver
<1> DEFINE lost(x) == Cardinality(Uses(idx, x) \intersect Covers(r))
<1>1. \A x : Uses(idx, x) \in SUBSET Blocks /\ Uses(idx, x) \intersect Covers(r) \in SUBSET Blocks
  BY DEF Uses
<1>2. \A x : /\ Cardinality(Uses(idx, x)) \in Nat /\ lost(x) \in Nat
             /\ lost(x) = 0 <=> Uses(idx, x) \intersect Covers(r) = {}
             /\ Cardinality(Uses(idx, x)) = 0 <=> Uses(idx, x) = {}
             /\ Cardinality(Uses(idx, x) \ Covers(r)) = Cardinality(Uses(idx, x)) - lost(x)
  BY <1>1 DEF Counting
<1>3. \A b \in Blocks : jdx[b] = IF b \in Covers(r) THEN s ELSE idx[b]
  OBVIOUS
<1>4. Uses(jdx, s) = Covers(r)
  BY <1>3 DEF Uses
<1>5. \A x : x # s => Uses(jdx, x) = Uses(idx, x) \ Covers(r)
  BY <1>3 DEF Uses
<1>6. \A x \in Slots : /\ G[x].l = E[x].l /\ G[x].n = E[x].n
                       /\ G[x].ref = E[x].ref - lost(x) /\ E[x].ref \in Int
  <2> SUFFICES ASSUME NEW x \in Slots
               PROVE  /\ G[x].l = E[x].l /\ G[x].n = E[x].n
                      /\ G[x].ref = E[x].ref - lost(x) /\ E[x].ref \in Int
    OBVIOUS
  <2>1. E[x] \in [l : Nat, p : Nat, n : Nat, ts : Nat, ref : Int]
    OBVIOUS
  <2>2. G[x] = [E[x] EXCEPT !.ref = @ - lost(x)]
    OBVIOUS
  <2> HIDE DEF lost
  <2> QED BY <2>1, <2>2, SMT
<1>7. s \in Slots
  OBVIOUS
<1>8. lost(s) = 0
  BY <1>2
<1>9. Cardinality(Covers(r)) = r.n /\ r.n \in Nat \ {0} /\ r.l \in Nat
  <2>1. r.n \in Nat \ {0} /\ r.l \in Nat /\ r.l + r.n - 1 \in Int /\ r.l <= r.l + r.n - 1 + 1
        /\ r.l + r.n - 1 - r.l + 1 = r.n
    BY SMT DEF Run
  <2> QED BY <2>1, SMT DEF Counting, Covers
<1> HIDE DEF lost
<1>10. G[s].ref = r.n
  BY <1>6, <1>7, <1>8, <1>9, SMT
<1>11. \A x \in Range(L) \ {s} : E[x].ref = Cardinality(Uses(idx, x)) /\ x \in Slots
  BY DEF RefOK
<1>12. \A x \in Range(L) \ {s} : G[x].ref = Cardinality(Uses(jdx, x))
  <2> SUFFICES ASSUME NEW x \in Range(L) \ {s} PROVE G[x].ref = Cardinality(Uses(jdx, x))
    OBVIOUS
  <2>1. G[x].ref = E[x].ref - lost(x) /\ E[x].ref = Cardinality(Uses(idx, x))
    BY <1>6, <1>11
  <2>2. Uses(jdx, x) = Uses(idx, x) \ Covers(r)
    BY <1>5
  <2> QED BY <1>2, <2>1, <2>2
<1>13. \A x \in Range(L) \ {} : G[x].ref = Cardinality(Uses(jdx, x))
  BY <1>4, <1>9, <1>10, <1>12
<1>14. \A x : x \in Range(v) <=> x \in Range(L) /\ x # s /\ E[x].ref = 0
  BY DEF RefOK
<1>15. \A x : x \in Range(D) <=> x \in Slots /\ lost(x) > 0 /\ E[x].ref = lost(x)
  BY DEF lost
<1>16. \A x : lost(x) > 0 => (x \in Range(L) /\ x # s) \/ x = Null
  <2> SUFFICES ASSUME NEW x, lost(x) > 0, x # Null PROVE x \in Range(L) /\ x # s
    OBVIOUS
  <2>1. lost(x) # 0
    BY <1>2, SMT
  <2>2. PICK b \in Blocks : idx[b] = x
    BY <1>2, <2>1 DEF Uses
  <2> QED BY <1>8, <2>1, <2>2 DEF RefOK
<1>17. \A x : x \in Range(v) \union Range(D) <=> x \in Range(L) /\ G[x].ref = 0
  <2> SUFFICES ASSUME NEW x
               PROVE  x \in Range(v) \union Range(D) <=> x \in Range(L) /\ G[x].ref = 0
    OBVIOUS
  <2>1. CASE x \notin Range(L)
    BY <1>14, <1>15, <1>16, <2>1, NullAssumption
  <2>2. CASE x = s
    <3>1. x \notin Range(v) /\ x \notin Range(D)
      BY <1>8, <1>14, <1>15, <2>2, SMT
    <3> QED BY <1>9, <1>10, <2>2, <3>1, SMT
  <2>3. CASE x \in Range(L) /\ x # s
    <3>1. /\ G[x].ref = E[x].ref - lost(x) /\ E[x].ref = Cardinality(Uses(idx, x))
          /\ E[x].ref \in Nat /\ lost(x) \in Nat /\ x \in Slots
      <4>1. x \in Slots /\ E[x].ref = Cardinality(Uses(idx, x))
        BY <1>11, <2>3
      <4>2. E[x].ref \in Nat /\ lost(x) \in Nat
        BY <1>2, <4>1, SMT
      <4> QED BY <1>6, <4>1, <4>2
    <3>2. E[x].ref = 0 => lost(x) = 0
      <4>1. ASSUME E[x].ref = 0 PROVE lost(x) = 0
        <5>1. Uses(idx, x) \intersect Covers(r) = {}
          BY <1>2, <3>1, <4>1
        <5> QED BY <1>2, <5>1
      <4> QED BY <4>1
    <3>3. x \in Range(v) <=> E[x].ref = 0
      BY <1>14, <2>3
    <3>4. x \in Range(D) <=> lost(x) > 0 /\ E[x].ref = lost(x)
      BY <1>15, <3>1
    <3>5. E[x].ref = 0 \/ (lost(x) > 0 /\ E[x].ref = lost(x)) <=> G[x].ref = 0
      BY <3>1, <3>2, SMT
    <3> QED BY <2>3, <3>3, <3>4, <3>5
  <2> QED BY <2>1, <2>2, <2>3
<1>18. Range(v) \intersect Range(D) = {}
  <2> SUFFICES ASSUME NEW x \in Range(v), x \in Range(D) PROVE FALSE
    OBVIOUS
  <2> QED BY <1>14, <1>15, SMT
<1>19. /\ Range(v \o D) = {x \in Range(L) \ {} : G[x].ref = 0}
       /\ IsInjective(v \o D)
  <2>1. Range(v \o D) = Range(v) \union Range(D) /\ IsInjective(v \o D)
    <3>1. IsInjective(v)
      BY DEF RefOK
    <3>2. v \in Seq(Slots) /\ D \in Seq(Slots) /\ IsInjective(D)
      OBVIOUS
    <3> HIDE DEF lost
    <3>3. /\ Range(v \o D) = Range(v) \union Range(D)
          /\ IsInjective(v) /\ IsInjective(D) /\ Range(v) \intersect Range(D) = {} => IsInjective(v \o D)
      BY <3>2, RangeConcat, SMT
    <3> QED BY <1>18, <3>1, <3>2, <3>3
  <2> QED BY <1>17, <2>1
<1>20. ASSUME NEW b \in Blocks, jdx[b] # Null
       PROVE  jdx[b] \in Range(L) /\ b \in Covers(G[jdx[b]])
  <2>1. \A x \in Slots : Covers(G[x]) = Covers(E[x])
    BY <1>6 DEF Covers
  <2>2. CASE b \in Covers(r)
    <3>1. Covers(E[s]) = Covers(r)
      BY DEF Covers
    <3> QED BY <1>3, <1>7, <2>1, <2>2, <3>1
  <2>3. CASE b \notin Covers(r)
    <3>1. jdx[b] = idx[b]
      BY <1>3, <2>3
    <3>2. idx[b] \in Range(L) /\ b \in Covers(E[idx[b]])
      BY <1>20, <3>1 DEF RefOK
    <3>3. idx[b] \in Slots
      BY <3>2
    <3>4. b \in Covers(G[idx[b]])
      BY <2>1, <3>2, <3>3
    <3> QED BY <3>1, <3>2, <3>4
  <2> QED BY <2>2, <2>3
<1> QED BY <1>4, <1>13, <1>19, <1>20 DEF RefOK
-----------------------------------------------------------------------------
(* What a step leaves alone. *)
Same(u) ==
  /\ pc'[u] = pc[u] /\ file'[u] = file[u] /\ off'[u] = off[u] /\ len'[u] = len[u]
  /\ ebuf'[u] = ebuf[u] /\ num'[u] = num[u] /\ slot'[u] = slot[u] /\ reuse'[u] = reuse[u]
Dram == <<life, list, invalid, ghost, index, ent, sused>>

(* A thread the step does not touch keeps the lock of its file, ... *)
LEMMA KeepLocks ==
  ASSUME NEW u, Locks(u), Same(u),
         pc[u] \in Busy => life'[file[u]] = life[file[u]] /\ lock'[file[u]] = lock[file[u]]
  PROVE  Locks(u)'
BY DEF Locks, Same

(* ... its runs ... *)
LEMMA KeepRuns ==
  ASSUME NEW u, Runs(u), Same(u)
  PROVE  Runs(u)'
BY DEF Runs, Same

(* ... and the entry it is adding. *)
LEMMA KeepSlotted ==
  ASSUME NEW u, Slotted(u), Same(u),
         pc[u] \in {"insert", "store"} => /\ ent'[slot[u]] = ent[slot[u]]
                                          /\ list'[file[u]] = list[file[u]]
                                          /\ index'[file[u]] = index[file[u]]
  PROVE  Slotted(u)'
<1>1. CASE pc[u] \in {"insert", "store"}
  BY <1>1 DEF Slotted, Same, Cur
<1>2. CASE pc[u] \notin {"insert", "store"}
  BY <1>2 DEF Slotted, Same, SlotOK
<1> QED BY <1>1, <1>2

(* A thread that fills an entry has its file's lock, so it is the only one. *)
LEMMA OneWriter ==
  ASSUME IInv, NEW t \in Threads, NEW u \in Threads, pc[t] \in Busy, pc[u] \in Busy,
         file[t] = file[u]
  PROVE  t = u
BY DEF IInv, Locks

(* The entry a write is filling is the only one of its file. *)
LEMMA FillOne ==
  ASSUME IInv, NEW t \in Threads, pc[t] \in Busy
  PROVE  Filling(file[t]) = IF pc[t] = "insert" THEN {slot[t]} ELSE {}
<1>1. \A u \in Threads : pc[u] = "insert" => pc[u] \in Busy
  BY DEF Busy
<1>2. \A u \in Threads : pc[u] = "insert" /\ file[u] = file[t] => u = t
  BY <1>1, OneWriter
<1> QED BY <1>2 DEF Filling, In

(* A step that no filling of file f is part of. *)
LEMMA FillSame ==
  ASSUME NEW f,
         \A u \in Threads : (pc'[u] = "insert" /\ file'[u] = f) <=> (pc[u] = "insert" /\ file[u] = f),
         \A u \in Threads : pc[u] = "insert" /\ file[u] = f => slot'[u] = slot[u]
  PROVE  Filling(f)' = Filling(f)
BY DEF Filling, In

(* A step that touches neither the lists nor the index. *)
LEMMA Quiet ==
  ASSUME IInv, WriteTyped', (dused \subseteq Data)', UNCHANGED Dram,
         \A u \in Threads : Locks(u)' /\ Runs(u)' /\ Slotted(u)',
         \A u \in Threads : pc'[u] = "insert" <=> pc[u] = "insert",
         \A u \in Threads : pc[u] = "insert" => slot'[u] = slot[u] /\ file'[u] = file[u]
  PROVE  IInv'
<1>1. /\ life' = life /\ list' = list /\ invalid' = invalid /\ ghost' = ghost
      /\ index' = index /\ ent' = ent /\ sused' = sused
  BY DEF Dram
<1>2. OwnSlots'
  BY <1>1 DEF OwnSlots, IInv
<1>3. ASSUME NEW f \in Files, life'[f] = "live" PROVE RefOf(f)'
  <2>1. Filling(f)' = Filling(f)
    BY FillSame
  <2>2. RefOf(f)
    BY <1>1, <1>3 DEF IInv
  <2> QED BY <1>1, <2>1, <2>2 DEF RefOf
<1>4. FileTyped'
  BY <1>1 DEF FileTyped, Typed, IInv
<1> QED BY <1>2, <1>3, <1>4 DEF IInv, Typed

(* A step of one thread that touches neither the lists nor the index. *)
LEMMA QuietStep ==
  ASSUME IInv, NEW t \in Threads, WriteTyped', (dused \subseteq Data)', UNCHANGED Dram,
         \A u \in Threads \ {t} : Same(u),
         \A u \in Threads \ {t} : pc[u] \in Busy => lock'[file[u]] = lock[file[u]],
         Locks(t)', Runs(t)', pc'[t] \notin {"insert", "store"}, pc[t] # "insert"
  PROVE  IInv'
<1>1. \A u \in Threads \ {t} : Locks(u)'
  BY KeepLocks DEF IInv, Dram
<1>2. \A u \in Threads \ {t} : Runs(u)'
  BY KeepRuns DEF IInv
<1>3. \A u \in Threads \ {t} : Slotted(u)'
  BY KeepSlotted DEF IInv, Dram
<1>4. Slotted(t)'
  BY DEF Slotted, SlotOK
<1>5. \A u \in Threads : Locks(u)' /\ Runs(u)' /\ Slotted(u)'
  BY <1>1, <1>2, <1>3, <1>4
<1>6. \A u \in Threads : pc'[u] = "insert" <=> pc[u] = "insert"
  BY DEF Same
<1>7. \A u \in Threads : pc[u] = "insert" => slot'[u] = slot[u] /\ file'[u] = file[u]
  BY DEF Same
<1> QED BY <1>5, <1>6, <1>7, Quiet

(* The steps of inode_write_atomic, one by one.  The lock is taken, ... *)
LEMMA WriteBeginInv ==
  ASSUME IInv, NEW t \in Threads, WriteBegin(t)
  PROVE  IInv'
<1>1. PICK f \in Files, b \in Blocks : \E n \in 1 .. NB - b :
       /\ life[f] = "live" /\ lock[f] = Null
       /\ lock' = [lock EXCEPT ![f] = t]
       /\ file' = [file EXCEPT ![t] = f]
       /\ off' = [off EXCEPT ![t] = b]
       /\ len' = [len EXCEPT ![t] = n]
  BY DEF WriteBegin
<1>2. PICK n \in 1 .. NB - b :
       /\ life[f] = "live" /\ lock[f] = Null
       /\ lock' = [lock EXCEPT ![f] = t]
       /\ file' = [file EXCEPT ![t] = f]
       /\ off' = [off EXCEPT ![t] = b]
       /\ len' = [len EXCEPT ![t] = n]
  BY <1>1
<1>3. /\ pc[t] = "idle" /\ pc' = [pc EXCEPT ![t] = "alloc"]
      /\ UNCHANGED <<Dram, dused, ebuf, num, slot, reuse, stamp, ts>>
  BY DEF WriteBegin, Goto, Dram, inode, maps, regs
<1>4. WriteTyped
  BY DEF IInv, Typed
<1>5. b \in Nat /\ n \in Nat \ {0} /\ b + n <= NB /\ NB \in Nat
  BY SizeAssumption, SMT DEF Blocks
<1>6. WriteTyped'
  <2>1. lock' \in [Files -> Threads \union {Null}]
    BY <1>2, <1>4 DEF WriteTyped
  <2>2. pc' \in [Threads -> Busy \union {"idle", "read_size", "write_size"}]
    BY <1>3, <1>4 DEF WriteTyped, Busy
  <2>3. file' \in [Threads -> Files \union {Null}]
    BY <1>2, <1>4 DEF WriteTyped
  <2>4. off' \in [Threads -> Nat] /\ len' \in [Threads -> Nat]
    BY <1>2, <1>4, <1>5 DEF WriteTyped
  <2> QED BY <1>3, <1>4, <2>1, <2>2, <2>3, <2>4 DEF WriteTyped
<1>7. \A u \in Threads \ {t} : Same(u)
  BY <1>2, <1>3, <1>4 DEF Same, WriteTyped
<1>8. \A u \in Threads \ {t} : pc[u] \in Busy => lock'[file[u]] = lock[file[u]]
  <2> SUFFICES ASSUME NEW u \in Threads \ {t}, pc[u] \in Busy PROVE lock'[file[u]] = lock[file[u]]
    OBVIOUS
  <2>1. file[u] \in Files /\ lock[file[u]] = u /\ u # Null
    BY NullAssumption DEF IInv, Locks
  <2>2. file[u] # f
    BY <1>2, <2>1
  <2> QED BY <1>2, <1>4, <2>1, <2>2 DEF WriteTyped
<1>9. pc'[t] = "alloc" /\ file'[t] = f /\ lock'[f] = t /\ off'[t] = b /\ len'[t] = n
      /\ ebuf'[t] = ebuf[t] /\ num'[t] = num[t] /\ life'[f] = "live"
  BY <1>2, <1>3, <1>4 DEF WriteTyped, Dram
<1>10. Locks(t)'
  BY <1>9 DEF Locks
<1>11. Runs(t)'
  <2>1. ebuf[t] = <<>> /\ num[t] = 0
    <3>1. RunsOK("idle", off[t], len[t], ebuf[t], num[t])
      BY <1>3 DEF IInv, Runs
    <3> QED BY <3>1, SMT DEF RunsOK
  <2>2. Range(<<>>) = {}
    BY SMT DEF Range
  <2>3. Reach(b, <<>>) = b
    BY DEF Reach
  <2>4. UNION {Covers(r) : r \in Range(<<>>)} = b .. b - 1
    BY <1>5, <2>2, SMT
  <2>5. RunsOK("alloc", b, n, <<>>, 0)
    BY <1>5, <2>3, <2>4, SMT DEF RunsOK
  <2> QED BY <1>9, <2>1, <2>5 DEF Runs
<1>12. (dused \subseteq Data)' /\ UNCHANGED Dram
  BY <1>3 DEF IInv, Typed
<1>13. pc'[t] \notin {"insert", "store"} /\ pc[t] # "insert"
  BY <1>3, <1>9, SMT
<1> QED BY <1>6, <1>7, <1>8, <1>10, <1>11, <1>12, <1>13, QuietStep

(* A step of a write that changes nothing but its program counter. *)
LEMMA JumpInv ==
  ASSUME IInv, NEW t \in Threads, NEW q \in Busy \union {"idle", "read_size", "write_size"},
         pc' = [pc EXCEPT ![t] = q], WriteTyped', UNCHANGED dused, UNCHANGED Dram,
         \A u \in Threads : /\ file'[u] = file[u] /\ off'[u] = off[u] /\ len'[u] = len[u]
                            /\ ebuf'[u] = ebuf[u] /\ slot'[u] = slot[u] /\ reuse'[u] = reuse[u],
         \A u \in Threads \ {t} : num'[u] = num[u],
         \A u \in Threads \ {t} : pc[u] \in Busy => lock'[file[u]] = lock[file[u]],
         q \in Busy => pc[t] \in Busy /\ lock' = lock,
         RunsOK(q, off[t], len[t], ebuf[t], num'[t]),
         q \notin {"insert", "store"}, pc[t] # "insert"
  PROVE  IInv'
<1>1. pc'[t] = q /\ \A u \in Threads \ {t} : pc'[u] = pc[u]
  BY DEF IInv, Typed, WriteTyped
<1>2. \A u \in Threads \ {t} : Same(u)
  BY <1>1 DEF Same
<1>3. Locks(t)'
  <2>1. CASE q \in Busy
    <3>1. file[t] \in Files /\ life[file[t]] = "live" /\ lock[file[t]] = t
      BY <2>1 DEF IInv, Locks
    <3>2. life' = life /\ lock' = lock /\ file'[t] = file[t]
      BY <2>1 DEF Dram
    <3> QED BY <3>1, <3>2 DEF Locks
  <2>2. CASE q \notin Busy
    BY <1>1, <2>2 DEF Locks
  <2> QED BY <2>1, <2>2
<1>4. Runs(t)'
  BY <1>1 DEF Runs
<1>5. (dused \subseteq Data)'
  BY DEF IInv, Typed
<1>6. pc'[t] \notin {"insert", "store"} /\ pc[t] # "insert"
  BY <1>1
<1> QED BY <1>2, <1>3, <1>4, <1>5, <1>6, QuietStep

(* ... a run of blocks is allocated, ... *)
LEMMA AllocInv ==
  ASSUME IInv, Counting, NEW t \in Threads, Alloc(t)
  PROVE  IInv'
<1> DEFINE Z == Missing(t)
<1>1. PICK n \in 1 .. Cardinality(Z), p \in Data :
        /\ p .. p + n - 1 \subseteq Data \ dused
        /\ dused' = dused \union (p .. p + n - 1)
        /\ ebuf' = [ebuf EXCEPT ![t] =
             Append(@, [l |-> off[t] + len[t] - Cardinality(Z), p |-> p, n |-> n])]
  BY DEF Alloc
<1>2. /\ pc[t] = "alloc"
      /\ UNCHANGED <<Dram, lock, pc, file, off, len, num, slot, reuse, stamp, ts>>
  BY DEF Alloc, Dram, inode, args
<1>3. WriteTyped
  BY DEF IInv, Typed
<1>4. off[t] \in Nat /\ len[t] \in Nat /\ ebuf[t] \in Seq(Run)
  BY <1>3 DEF WriteTyped
<1>5. RunsOK("alloc", off[t], len[t], ebuf[t], num[t])
  BY <1>2 DEF IInv, Runs
<1>6. Z = (off[t] .. off[t] + len[t] - 1) \ UNION {Covers(r) : r \in Range(ebuf[t])}
  BY DEF Missing
<1> DEFINE q == [l |-> off[t] + len[t] - Cardinality(Z), p |-> p, n |-> n]
<1> HIDE DEF Z
<1>7. n \in Nat \ {0} /\ n <= Cardinality(Z) /\ p \in Nat
  <2>1. n \in Nat \ {0} /\ n <= Cardinality(Z)
    <3>1. n \in Int /\ n >= 1 /\ Cardinality(Z) >= n
      BY <1>1, SMT
    <3> QED BY <3>1, SMT
  <2>2. p \in Nat
    BY SizeAssumption, SMT DEF Data
  <2> QED BY <2>1, <2>2, SMT
<1>8. q \in Run /\ RunsOK("alloc", off[t], len[t], Append(ebuf[t], q), num[t])
  BY <1>4, <1>5, <1>6, <1>7, RunsAppend
<1> HIDE DEF q
<1>9. ebuf' = [ebuf EXCEPT ![t] = Append(@, q)]
  BY <1>1 DEF q
<1>10. WriteTyped'
  <2>1. ebuf' \in [Threads -> Seq(Run)]
    <3>1. Append(ebuf[t], q) \in Seq(Run)
      BY <1>4, <1>8, SMT
    <3> QED BY <1>3, <1>9, <3>1 DEF WriteTyped
  <2> QED BY <1>2, <1>3, <2>1 DEF WriteTyped
<1>11. \A u \in Threads \ {t} : Same(u)
  BY <1>2, <1>3, <1>9 DEF Same, WriteTyped
<1>12. Runs(t)'
  BY <1>2, <1>3, <1>8, <1>9 DEF Runs, WriteTyped
<1>13. Locks(t)'
  BY <1>2 DEF Locks, IInv, Dram
<1>14. (dused \subseteq Data)' /\ UNCHANGED Dram
  BY <1>1, <1>2 DEF IInv, Typed
<1>15. pc'[t] \notin {"insert", "store"} /\ pc[t] # "insert"
  BY <1>2, SMT
<1>16. \A u \in Threads \ {t} : pc[u] \in Busy => lock'[file[u]] = lock[file[u]]
  BY <1>2
<1> QED BY <1>10, <1>11, <1>12, <1>13, <1>14, <1>15, <1>16, QuietStep

(* The runs of a write that goes on. *)
LEMMA RunsJump ==
  ASSUME NEW p, NEW q, NEW o, NEW n, NEW e, NEW k, NEW m, RunsOK(p, o, n, e, k),
         p # "idle", q # "idle",
         q \in {"alloc", "write_ts"} => m = 0,
         q = "write_ts" => e # <<>>,
         q \in {"dispatch", "insert", "store"} => m < Len(e),
         q \in {"unlock", "read_size", "write_size", "idle"} => m = Len(e)
  PROVE  RunsOK(q, o, n, e, m)
BY DEF RunsOK

(* The timestamp is taken once all blocks of the write have been allocated. *)
LEMMA ReadTsInv ==
  ASSUME IInv, NEW t \in Threads, ReadTs(t)
  PROVE  IInv'
<1>1. /\ pc[t] = "alloc" /\ Missing(t) = {} /\ pc' = [pc EXCEPT ![t] = "write_ts"]
      /\ stamp' = [stamp EXCEPT ![t] = ts + 1]
      /\ UNCHANGED <<Dram, dused, lock, file, off, len, ebuf, num, slot, reuse, ts>>
  BY DEF ReadTs, Goto, Dram, inode, maps, args
<1>2. WriteTyped
  BY DEF IInv, Typed
<1>3. RunsOK("alloc", off[t], len[t], ebuf[t], num[t])
  BY <1>1 DEF IInv, Runs
<1>4. num[t] = 0 /\ len[t] >= 1 /\ off[t] \in Nat /\ len[t] \in Nat
  BY <1>2, <1>3, SMT DEF RunsOK, WriteTyped
<1>5. ebuf[t] # <<>>
  <2> SUFFICES ASSUME ebuf[t] = <<>> PROVE FALSE
    BY SMT
  <2>1. Range(<<>>) = {}
    BY SMT DEF Range
  <2>2. off[t] \in off[t] .. off[t] + len[t] - 1
    BY <1>4, SMT
  <2>3. off[t] \in UNION {Covers(r) : r \in Range(ebuf[t])}
    BY <1>1, <2>2 DEF Missing
  <2> QED BY <2>1, <2>3
<1>6. RunsOK("write_ts", off[t], len[t], ebuf[t], num[t])
  <2>1. "alloc" # "idle" /\ "write_ts" # "idle" /\ "write_ts" \notin {"dispatch", "insert", "store"}
        /\ "write_ts" \notin {"unlock", "read_size", "write_size", "idle"}
    BY SMT
  <2> QED BY <1>3, <1>4, <1>5, <2>1, RunsJump
<1>7. WriteTyped'
  <2>1. pc' \in [Threads -> Busy \union {"idle", "read_size", "write_size"}]
    BY <1>1, <1>2 DEF WriteTyped, Busy
  <2>2. stamp' \in [Threads -> Nat]
    BY <1>1, <1>2, SMT DEF WriteTyped
  <2> QED BY <1>1, <1>2, <2>1, <2>2 DEF WriteTyped
<1>8. /\ "write_ts" \notin {"insert", "store"} /\ pc[t] # "insert"
      /\ "write_ts" \in Busy \union {"idle", "read_size", "write_size"} /\ pc[t] \in Busy
  BY <1>1, SMT DEF Busy
<1>9. UNCHANGED dused /\ UNCHANGED Dram /\ lock' = lock
  BY <1>1
<1>10. \A u \in Threads : /\ file'[u] = file[u] /\ off'[u] = off[u] /\ len'[u] = len[u]
                          /\ ebuf'[u] = ebuf[u] /\ slot'[u] = slot[u] /\ reuse'[u] = reuse[u]
                          /\ num'[u] = num[u]
  BY <1>1
<1>11. RunsOK("write_ts", off[t], len[t], ebuf[t], num'[t])
  BY <1>1, <1>6
<1> QED BY <1>1, <1>7, <1>8, <1>9, <1>10, <1>11, JumpInv

(* ... and stored. *)
LEMMA WriteTsInv ==
  ASSUME IInv, NEW t \in Threads, WriteTs(t)
  PROVE  IInv'
<1>1. /\ pc[t] = "write_ts" /\ pc' = [pc EXCEPT ![t] = "dispatch"] /\ ts' = stamp[t]
      /\ UNCHANGED <<Dram, dused, lock, file, off, len, ebuf, num, slot, reuse, stamp>>
  BY DEF WriteTs, Goto, Dram, inode, maps, args, regs
<1>2. WriteTyped
  BY DEF IInv, Typed
<1>3. RunsOK("write_ts", off[t], len[t], ebuf[t], num[t])
  BY <1>1 DEF IInv, Runs
<1>4. num[t] = 0 /\ ebuf[t] # <<>> /\ ebuf[t] \in Seq(Run)
  BY <1>2, <1>3, SMT DEF RunsOK, WriteTyped
<1>5. RunsOK("dispatch", off[t], len[t], ebuf[t], num[t])
  <2>1. /\ "write_ts" # "idle" /\ "dispatch" # "idle" /\ "dispatch" \notin {"alloc", "write_ts"}
        /\ "dispatch" \notin {"unlock", "read_size", "write_size", "idle"}
    BY SMT
  <2>2. num[t] < Len(ebuf[t])
    BY <1>4, SMT
  <2> QED BY <1>3, <2>1, <2>2, RunsJump
<1>6. WriteTyped'
  <2>1. pc' \in [Threads -> Busy \union {"idle", "read_size", "write_size"}]
    BY <1>1, <1>2 DEF WriteTyped, Busy
  <2>2. ts' \in Nat
    BY <1>1, <1>2 DEF WriteTyped
  <2> QED BY <1>1, <1>2, <2>1, <2>2 DEF WriteTyped
<1>7. /\ "dispatch" \notin {"insert", "store"} /\ pc[t] # "insert"
      /\ "dispatch" \in Busy \union {"idle", "read_size", "write_size"} /\ pc[t] \in Busy
  BY <1>1, SMT DEF Busy
<1>8. UNCHANGED dused /\ UNCHANGED Dram /\ lock' = lock
  BY <1>1
<1>9. \A u \in Threads : /\ file'[u] = file[u] /\ off'[u] = off[u] /\ len'[u] = len[u]
                         /\ ebuf'[u] = ebuf[u] /\ slot'[u] = slot[u] /\ reuse'[u] = reuse[u]
                         /\ num'[u] = num[u]
  BY <1>1
<1>10. RunsOK("dispatch", off[t], len[t], ebuf[t], num'[t])
  BY <1>1, <1>5
<1> QED BY <1>1, <1>6, <1>7, <1>8, <1>9, <1>10, JumpInv

(* The entry is in PM: on to the next run, or the end. *)
LEMMA StoreInv ==
  ASSUME IInv, NEW t \in Threads, Store(t)
  PROVE  IInv'
<1> DEFINE q == IF num[t] + 1 < Len(ebuf[t]) THEN "dispatch" ELSE "unlock"
<1>1. /\ pc[t] = "store" /\ pc' = [pc EXCEPT ![t] = q] /\ num' = [num EXCEPT ![t] = @ + 1]
      /\ UNCHANGED <<Dram, dused, lock, file, off, len, ebuf, slot, reuse, stamp, ts>>
  BY DEF Store, Goto, Dram, maps, args
<1>2. WriteTyped
  BY DEF IInv, Typed
<1>3. RunsOK("store", off[t], len[t], ebuf[t], num[t])
  BY <1>1 DEF IInv, Runs
<1>4. num[t] \in Nat /\ num[t] < Len(ebuf[t]) /\ Len(ebuf[t]) \in Nat /\ num'[t] = num[t] + 1
      /\ \A u \in Threads \ {t} : num'[u] = num[u]
  <2>1. num[t] < Len(ebuf[t])
    BY <1>3, SMT DEF RunsOK
  <2>2. ebuf[t] \in Seq(Run) /\ num[t] \in Nat
    BY <1>2 DEF WriteTyped
  <2>3. num'[t] = num[t] + 1 /\ \A u \in Threads \ {t} : num'[u] = num[u]
    BY <1>1, <1>2 DEF WriteTyped
  <2> QED BY <2>1, <2>2, <2>3, SMT
<1>5. /\ q \in {"dispatch", "unlock"} /\ (q = "dispatch" => num[t] + 1 < Len(ebuf[t]))
      /\ (q = "unlock" => num[t] + 1 = Len(ebuf[t]))
  BY <1>4, SMT
<1> HIDE DEF q
<1>6. /\ q \notin {"insert", "store", "alloc", "write_ts", "read_size", "write_size", "idle"}
      /\ q \in Busy /\ pc[t] \in Busy /\ pc[t] # "insert" /\ "store" # "idle"
  BY <1>1, <1>5, SMT DEF Busy
<1>7. RunsOK(q, off[t], len[t], ebuf[t], num'[t])
  BY <1>3, <1>4, <1>5, <1>6, RunsJump
<1>8. WriteTyped'
  <2>1. pc' \in [Threads -> Busy \union {"idle", "read_size", "write_size"}]
    BY <1>1, <1>2, <1>6 DEF WriteTyped
  <2>2. num' \in [Threads -> Nat]
    BY <1>1, <1>2, SMT DEF WriteTyped
  <2> QED BY <1>1, <1>2, <2>1, <2>2 DEF WriteTyped
<1>9. UNCHANGED dused /\ UNCHANGED Dram /\ lock' = lock
  BY <1>1
<1>10. \A u \in Threads : /\ file'[u] = file[u] /\ off'[u] = off[u] /\ len'[u] = len[u]
                          /\ ebuf'[u] = ebuf[u] /\ slot'[u] = slot[u] /\ reuse'[u] = reuse[u]
  BY <1>1
<1> QED BY <1>1, <1>4, <1>6, <1>7, <1>8, <1>9, <1>10, JumpInv

(* The lock is released, ... *)
LEMMA UnlockInv ==
  ASSUME IInv, NEW t \in Threads, Unlock(t)
  PROVE  IInv'
<1>1. /\ pc[t] = "unlock" /\ pc' = [pc EXCEPT ![t] = "read_size"]
      /\ lock' = [lock EXCEPT ![file[t]] = Null]
      /\ UNCHANGED <<Dram, dused, file, off, len, ebuf, num, slot, reuse, stamp, ts>>
  BY DEF Unlock, Goto, Dram, inode, maps, args, regs
<1>2. WriteTyped
  BY DEF IInv, Typed
<1>3. RunsOK("unlock", off[t], len[t], ebuf[t], num[t])
  BY <1>1 DEF IInv, Runs
<1>4. num[t] = Len(ebuf[t])
  BY <1>3, SMT DEF RunsOK
<1>5. /\ "unlock" # "idle" /\ "read_size" \notin {"idle", "alloc", "write_ts", "dispatch", "insert", "store"}
      /\ "read_size" \notin Busy /\ pc[t] # "insert" /\ pc[t] \in Busy
  BY <1>1, SMT DEF Busy
<1>6. RunsOK("read_size", off[t], len[t], ebuf[t], num'[t])
  <2>1. num'[t] = num[t]
    BY <1>1
  <2> QED BY <1>3, <1>4, <1>5, <2>1, RunsJump
<1>7. WriteTyped'
  <2>1. pc' \in [Threads -> Busy \union {"idle", "read_size", "write_size"}]
    BY <1>1, <1>2 DEF WriteTyped
  <2>2. lock' \in [Files -> Threads \union {Null}]
    BY <1>1, <1>2 DEF WriteTyped
  <2> QED BY <1>1, <1>2, <2>1, <2>2 DEF WriteTyped
<1>8. \A u \in Threads \ {t} : pc[u] \in Busy => lock'[file[u]] = lock[file[u]]
  <2> SUFFICES ASSUME NEW u \in Threads \ {t}, pc[u] \in Busy PROVE lock'[file[u]] = lock[file[u]]
    OBVIOUS
  <2>1. file[u] # file[t] /\ file[u] \in Files
    <3>1. file[u] = file[t] => u = t
      BY <1>5, OneWriter
    <3> QED BY <3>1 DEF IInv, Locks
  <2> QED BY <1>1, <1>2, <2>1 DEF WriteTyped
<1>9. UNCHANGED dused /\ UNCHANGED Dram
  BY <1>1
<1>10. \A u \in Threads : /\ file'[u] = file[u] /\ off'[u] = off[u] /\ len'[u] = len[u]
                          /\ ebuf'[u] = ebuf[u] /\ slot'[u] = slot[u] /\ reuse'[u] = reuse[u]
                          /\ num'[u] = num[u]
  BY <1>1
<1>11. "read_size" \in Busy \union {"idle", "read_size", "write_size"}
  OBVIOUS
<1> QED BY <1>1, <1>5, <1>6, <1>7, <1>8, <1>9, <1>10, <1>11, JumpInv

(* ... the size read ... *)
LEMMA ReadSizeInv ==
  ASSUME IInv, NEW t \in Threads, ReadSize(t)
  PROVE  IInv'
<1>1. /\ pc[t] = "read_size" /\ pc' = [pc EXCEPT ![t] = "write_size"]
      /\ UNCHANGED <<Dram, dused, lock, file, off, len, ebuf, num, slot, reuse, stamp, ts>>
  BY DEF ReadSize, Goto, Dram, inode, maps, args
<1>2. WriteTyped
  BY DEF IInv, Typed
<1>3. RunsOK("read_size", off[t], len[t], ebuf[t], num[t])
  BY <1>1 DEF IInv, Runs
<1>4. num[t] = Len(ebuf[t])
  BY <1>3, SMT DEF RunsOK
<1>5. /\ "read_size" # "idle"
      /\ "write_size" \notin {"idle", "alloc", "write_ts", "dispatch", "insert", "store"}
      /\ "write_size" \notin Busy /\ pc[t] # "insert"
  BY <1>1, SMT DEF Busy
<1>6. RunsOK("write_size", off[t], len[t], ebuf[t], num'[t])
  <2>1. num'[t] = num[t]
    BY <1>1
  <2> QED BY <1>3, <1>4, <1>5, <2>1, RunsJump
<1>7. WriteTyped'
  <2>1. pc' \in [Threads -> Busy \union {"idle", "read_size", "write_size"}]
    BY <1>1, <1>2 DEF WriteTyped
  <2> QED BY <1>1, <1>2, <2>1 DEF WriteTyped
<1>8. UNCHANGED dused /\ UNCHANGED Dram /\ lock' = lock
  BY <1>1
<1>9. \A u \in Threads : /\ file'[u] = file[u] /\ off'[u] = off[u] /\ len'[u] = len[u]
                         /\ ebuf'[u] = ebuf[u] /\ slot'[u] = slot[u] /\ reuse'[u] = reuse[u]
                         /\ num'[u] = num[u]
  BY <1>1
<1>10. "write_size" \in Busy \union {"idle", "read_size", "write_size"}
  OBVIOUS
<1> QED BY <1>1, <1>5, <1>6, <1>7, <1>8, <1>9, <1>10, JumpInv

(* ... and written; the write returns. *)
LEMMA WriteSizeInv ==
  ASSUME IInv, NEW t \in Threads, WriteSize(t)
  PROVE  IInv'
<1>1. /\ pc[t] = "write_size" /\ pc' = [pc EXCEPT ![t] = "idle"]
      /\ file' = [file EXCEPT ![t] = Null] /\ ebuf' = [ebuf EXCEPT ![t] = <<>>]
      /\ slot' = [slot EXCEPT ![t] = Null] /\ reuse' = [reuse EXCEPT ![t] = FALSE]
      /\ off' = [off EXCEPT ![t] = 0] /\ len' = [len EXCEPT ![t] = 0]
      /\ num' = [num EXCEPT ![t] = 0] /\ stamp' = [stamp EXCEPT ![t] = 0]
      /\ UNCHANGED <<Dram, dused, lock, ts>>
  BY DEF WriteSize, Return, Goto, Dram, inode, maps
<1>2. WriteTyped
  BY DEF IInv, Typed
<1>3. WriteTyped'
  <2>1. pc' \in [Threads -> Busy \union {"idle", "read_size", "write_size"}]
    BY <1>1, <1>2 DEF WriteTyped
  <2>2. ebuf' \in [Threads -> Seq(Run)]
    BY <1>1, <1>2, SMT DEF WriteTyped
  <2>3. off' \in [Threads -> Nat] /\ len' \in [Threads -> Nat] /\ num' \in [Threads -> Nat]
        /\ stamp' \in [Threads -> Nat]
    BY <1>1, <1>2, SMT DEF WriteTyped
  <2>4. /\ file' \in [Threads -> Files \union {Null}] /\ slot' \in [Threads -> Slots \union {Null}]
        /\ reuse' \in [Threads -> BOOLEAN]
    BY <1>1, <1>2 DEF WriteTyped
  <2> QED BY <1>1, <1>2, <2>1, <2>2, <2>3, <2>4 DEF WriteTyped
<1>4. \A u \in Threads \ {t} : Same(u)
  BY <1>1, <1>2 DEF Same, WriteTyped
<1>5. pc'[t] = "idle" /\ off'[t] = 0 /\ len'[t] = 0 /\ ebuf'[t] = <<>> /\ num'[t] = 0
  BY <1>1, <1>2 DEF WriteTyped
<1>6. pc'[t] \notin Busy /\ pc'[t] \notin {"insert", "store"} /\ pc[t] # "insert"
  BY <1>1, <1>5, SMT DEF Busy
<1>7. Locks(t)'
  BY <1>6 DEF Locks
<1>8. Runs(t)'
  <2>1. Range(<<>>) = {}
    BY SMT DEF Range
  <2>2. Reach(0, <<>>) = 0
    BY DEF Reach
  <2>3. UNION {Covers(r) : r \in Range(<<>>)} = 0 .. 0 - 1
    BY <2>1, SMT
  <2>4. RunsOK("idle", 0, 0, <<>>, 0)
    BY SizeAssumption, <2>2, <2>3, SMT DEF RunsOK
  <2> QED BY <1>5, <2>4 DEF Runs
<1>9. (dused \subseteq Data)' /\ UNCHANGED Dram
  BY <1>1 DEF IInv, Typed
<1>10. \A u \in Threads \ {t} : pc[u] \in Busy => lock'[file[u]] = lock[file[u]]
  BY <1>1
<1> QED BY <1>3, <1>4, <1>6, <1>7, <1>8, <1>9, <1>10, QuietStep

(* A step that leaves the writes alone and the lists of the files that are there. *)
LEMMA FilesInv ==
  ASSUME IInv, FileTyped', (dused \subseteq Data)', OwnSlots',
         UNCHANGED <<lock, pc, file, off, len, ebuf, num, stamp, ts, slot, reuse>>,
         UNCHANGED <<invalid, index, ent>>,
         \A t \in Threads : pc[t] \in Busy => life'[file[t]] = life[file[t]],
         \A f \in Files : life'[f] = "live" => life[f] = "live" /\ list'[f] = list[f]
  PROVE  IInv'
<1>1. \A t \in Threads : Same(t)
  BY DEF Same
<1>2. WriteTyped'
  BY DEF WriteTyped, Typed, IInv
<1>3. \A t \in Threads : Locks(t)' /\ Runs(t)'
  <2>1. \A t \in Threads : Locks(t)'
    BY <1>1, KeepLocks DEF IInv
  <2>2. \A t \in Threads : Runs(t)'
    BY <1>1, KeepRuns DEF IInv
  <2> QED BY <2>1, <2>2
<1>4. ASSUME NEW t \in Threads PROVE Slotted(t)'
  <2>1. ASSUME pc[t] \in {"insert", "store"}
        PROVE  /\ ent'[slot[t]] = ent[slot[t]] /\ list'[file[t]] = list[file[t]]
               /\ index'[file[t]] = index[file[t]]
    <3>1. pc[t] \in Busy
      BY <2>1, SMT DEF Busy
    <3>2. file[t] \in Files /\ life'[file[t]] = "live"
      BY <3>1 DEF IInv, Locks
    <3> QED BY <3>2
  <2> QED BY <1>1, <2>1, KeepSlotted DEF IInv
<1>5. ASSUME NEW f \in Files, life'[f] = "live" PROVE RefOf(f)'
  <2>1. Filling(f)' = Filling(f)
    BY FillSame
  <2>2. RefOf(f) /\ list'[f] = list[f]
    BY <1>5 DEF IInv
  <2> QED BY <2>1, <2>2 DEF RefOf
<1> QED BY <1>2, <1>3, <1>4, <1>5 DEF IInv, Typed

(* The last link of a file goes: its release begins. *)
LEMMA UnlinkInv ==
  ASSUME IInv, NEW f \in Files, Unlink(f)
  PROVE  IInv'
<1>1. /\ life' = [life EXCEPT ![f] = "releasing"] /\ life[f] = "live"
      /\ \A t \in Threads : pc[t] = "idle" \/ file[t] # f
      /\ UNCHANGED <<list, invalid, ghost, index, ent, sused, dused>>
      /\ UNCHANGED <<lock, pc, file, off, len, ebuf, num, stamp, ts, slot, reuse>>
  BY DEF Unlink, maps, args, regs
<1>2. FileTyped
  BY DEF IInv, Typed
<1>3. FileTyped' /\ (dused \subseteq Data)'
  BY <1>1, <1>2 DEF FileTyped, IInv, Typed
<1>4. OwnSlots'
  BY <1>1 DEF OwnSlots, IInv
<1>5. \A g \in Files : g # f => life'[g] = life[g]
  BY <1>1, <1>2 DEF FileTyped
<1>6. ASSUME NEW t \in Threads, pc[t] \in Busy PROVE life'[file[t]] = life[file[t]]
  <2>1. pc[t] # "idle" /\ file[t] \in Files
    <3>1. pc[t] # "idle"
      BY <1>6, SMT DEF Busy
    <3> QED BY <1>6, <3>1 DEF IInv, Locks
  <2> QED BY <1>1, <1>5, <2>1
<1>7. ASSUME NEW g \in Files, life'[g] = "live" PROVE life[g] = "live" /\ list'[g] = list[g]
  BY <1>1, <1>5, <1>7
<1>8. UNCHANGED <<invalid, index, ent>>
  BY <1>1
<1>9. UNCHANGED <<lock, pc, file, off, len, ebuf, num, stamp, ts, slot, reuse>>
  BY <1>1
<1> QED BY <1>3, <1>4, <1>6, <1>7, <1>8, <1>9, FilesInv

(* The release of a file ends. *)
LEMMA ReleaseEndInv ==
  ASSUME IInv, NEW f \in Files, ReleaseEnd(f)
  PROVE  IInv'
<1>1. /\ life' = [life EXCEPT ![f] = "free"] /\ life[f] = "releasing"
      /\ UNCHANGED <<list, invalid, ghost, index, ent, sused, dused>>
      /\ UNCHANGED <<lock, pc, file, off, len, ebuf, num, stamp, ts, slot, reuse>>
  BY DEF ReleaseEnd, maps, args, regs
<1>2. FileTyped
  BY DEF IInv, Typed
<1>3. FileTyped' /\ (dused \subseteq Data)'
  BY <1>1, <1>2 DEF FileTyped, IInv, Typed
<1>4. OwnSlots'
  BY <1>1 DEF OwnSlots, IInv
<1>5. /\ \A g \in Files : g # f => life'[g] = life[g]
      /\ life[f] # "live" /\ life'[f] # "live"
  <2>1. life'[f] = "free" /\ \A g \in Files : g # f => life'[g] = life[g]
    BY <1>1, <1>2 DEF FileTyped
  <2>2. "free" # "live" /\ "releasing" # "live"
    BY SMT
  <2> QED BY <1>1, <2>1, <2>2
<1>6. ASSUME NEW t \in Threads, pc[t] \in Busy PROVE life'[file[t]] = life[file[t]]
  <2>1. file[t] \in Files /\ life[file[t]] = "live"
    BY <1>6 DEF IInv, Locks
  <2> QED BY <1>5, <2>1
<1>7. ASSUME NEW g \in Files, life'[g] = "live" PROVE life[g] = "live" /\ list'[g] = list[g]
  BY <1>1, <1>5, <1>7
<1>8. UNCHANGED <<invalid, index, ent>>
  BY <1>1
<1>9. UNCHANGED <<lock, pc, file, off, len, ebuf, num, stamp, ts, slot, reuse>>
  BY <1>1
<1> QED BY <1>3, <1>4, <1>6, <1>7, <1>8, <1>9, FilesInv

(* The release thread frees an entry. *)
LEMMA ReleaseEntryInv ==
  ASSUME IInv, NEW f \in Files, ReleaseEntry(f)
  PROVE  IInv'
<1> DEFINE h == Head(list[f])
<1>1. /\ life[f] = "releasing" /\ list[f] # <<>> /\ life' = life
      /\ list' = [list EXCEPT ![f] = Tail(@)] /\ sused' = sused \ {h} /\ dused' \subseteq dused
      /\ UNCHANGED <<invalid, ghost, index, ent>>
      /\ UNCHANGED <<lock, pc, file, off, len, ebuf, num, stamp, ts, slot, reuse>>
  BY DEF ReleaseEntry, args, regs
<1> HIDE DEF h
<1>2. FileTyped /\ OwnSlots /\ dused \subseteq Data
  BY DEF IInv, Typed
<1>3. list[f] \in Seq(Slots) /\ IsInjective(list[f])
  BY <1>2 DEF FileTyped, OwnSlots
<1>4. /\ h \in Range(list[f]) /\ Tail(list[f]) \in Seq(Slots)
      /\ Range(Tail(list[f])) = Range(list[f]) \ {h} /\ IsInjective(Tail(list[f]))
  BY <1>1, <1>3, RangeTail DEF h
<1>5. list'[f] = Tail(list[f]) /\ \A g \in Files : g # f => list'[g] = list[g]
  BY <1>1, <1>2 DEF FileTyped
<1>6. FileTyped' /\ (dused \subseteq Data)'
  <2>1. list' \in [Files -> Seq(Slots)]
    BY <1>1, <1>2, <1>4 DEF FileTyped
  <2> QED BY <1>1, <1>2, <2>1 DEF FileTyped
<1>7. OwnSlots'
  <2>1. \A g \in Files : Range(list'[g]) \subseteq Range(list[g])
    BY <1>4, <1>5
  <2>2. \A g \in Files : h \notin Range(list'[g])
    BY <1>2, <1>4, <1>5 DEF OwnSlots
  <2>3. \A g \in Files : ghost[g] # h
    <3>1. \A g \in Files : ghost[g] \notin Range(list[f])
      BY <1>2 DEF OwnSlots
    <3> QED BY <1>4, <3>1
  <2>4. \A g \in Files : ghost'[g] \in sused' /\ Range(list'[g]) \subseteq sused'
    <3>1. \A g \in Files : ghost[g] \in sused /\ Range(list[g]) \subseteq sused
      BY <1>2 DEF OwnSlots
    <3>2. \A s : s \in sused' <=> s \in sused /\ s # h
      BY <1>1
    <3>3. \A g \in Files : Range(list'[g]) \subseteq sused'
      BY <2>1, <2>2, <3>1, <3>2
    <3>4. \A g \in Files : ghost'[g] \in sused'
      BY <1>1, <2>3, <3>1, <3>2
    <3> QED BY <3>3, <3>4
  <2>5. \A g \in Files : IsInjective(list'[g])
    BY <1>2, <1>4, <1>5 DEF OwnSlots
  <2>6. \A e, g \in Files : e # g => Range(list'[e]) \intersect Range(list'[g]) = {}
    BY <1>2, <2>1 DEF OwnSlots
  <2>7. /\ \A e, g \in Files : ghost'[e] \notin Range(list'[g])
        /\ \A e, g \in Files : ghost'[e] = ghost'[g] => e = g
    BY <1>1, <1>2, <2>1 DEF OwnSlots
  <2> QED BY <2>4, <2>5, <2>6, <2>7 DEF OwnSlots
<1>8. ASSUME NEW g \in Files, life'[g] = "live" PROVE life[g] = "live" /\ list'[g] = list[g]
  <2>1. "releasing" # "live"
    BY SMT
  <2> QED BY <1>1, <1>5, <1>8, <2>1
<1>9. UNCHANGED <<invalid, index, ent>>
  BY <1>1
<1>10. UNCHANGED <<lock, pc, file, off, len, ebuf, num, stamp, ts, slot, reuse>>
  BY <1>1
<1>11. \A t \in Threads : pc[t] \in Busy => life'[file[t]] = life[file[t]]
  BY <1>1
<1> QED BY <1>6, <1>7, <1>8, <1>9, <1>10, <1>11, FilesInv
-----------------------------------------------------------------------------
(* A step of a write on the lists of its file.  The other files, and the    *)
(* entries in their logs, are left alone.                                   *)
LEMMA FileStep ==
  ASSUME IInv, NEW t \in Threads, pc[t] \in Busy, NEW q \in {"insert", "store"},
         pc' = [pc EXCEPT ![t] = q],
         UNCHANGED <<life, lock, file, off, len, ebuf, num, stamp, ts>>,
         \A u \in Threads \ {t} : slot'[u] = slot[u] /\ reuse'[u] = reuse[u],
         \A g \in Files \ {file[t]} : /\ list'[g] = list[g] /\ invalid'[g] = invalid[g]
                                      /\ index'[g] = index[g]
                                      /\ \A s \in Range(list[g]) : ent'[s] = ent[s],
         FileTyped', WriteTyped', (dused \subseteq Data)', OwnSlots', Runs(t)', Slotted(t)',
         RefOK(list'[file[t]], invalid'[file[t]], index'[file[t]], ent',
               IF q = "insert" THEN {slot'[t]} ELSE {})
  PROVE  IInv'
<1>1. pc'[t] = q /\ \A u \in Threads \ {t} : pc'[u] = pc[u]
  BY DEF IInv, Typed, WriteTyped
<1>2. \A u \in Threads \ {t} : Same(u)
  BY <1>1 DEF Same
<1>3. file[t] \in Files /\ life[file[t]] = "live" /\ lock[file[t]] = t
  BY DEF IInv, Locks
<1>4. Locks(t)'
  BY <1>3 DEF Locks
<1>5. \A u \in Threads \ {t} : Locks(u)' /\ Runs(u)'
  <2>1. \A u \in Threads \ {t} : Locks(u)'
    BY <1>2, KeepLocks DEF IInv
  <2>2. \A u \in Threads \ {t} : Runs(u)'
    BY <1>2, KeepRuns DEF IInv
  <2> QED BY <2>1, <2>2
<1>6. \A u \in Threads \ {t} : pc[u] \in Busy => file[u] \in Files \ {file[t]}
  <2>1. \A u \in Threads : pc[u] \in Busy => file[u] \in Files
    BY DEF IInv, Locks
  <2> QED BY <2>1, OneWriter
<1>7. \A u \in Threads : pc[u] \in {"insert", "store"} => pc[u] \in Busy
  BY DEF Busy
<1>8. ASSUME NEW u \in Threads \ {t} PROVE Slotted(u)'
  <2>1. ASSUME pc[u] \in {"insert", "store"}
        PROVE  /\ ent'[slot[u]] = ent[slot[u]] /\ list'[file[u]] = list[file[u]]
               /\ index'[file[u]] = index[file[u]]
    <3>1. file[u] \in Files \ {file[t]}
      BY <1>6, <1>7, <2>1
    <3>2. slot[u] \in Range(list[file[u]])
      BY <2>1 DEF IInv, Slotted, SlotOK
    <3> QED BY <3>1, <3>2
  <2> QED BY <1>2, <2>1, KeepSlotted DEF IInv
<1>9. ASSUME NEW g \in Files, life'[g] = "live" PROVE RefOf(g)'
  <2>1. CASE g = file[t]
    <3>1. \A u \in Threads : pc'[u] = "insert" /\ file'[u] = g => u = t
      BY <1>1, <1>6, <1>7, <2>1
    <3>2. Filling(g)' = IF q = "insert" THEN {slot'[t]} ELSE {}
      <4>1. \A u : u \in In(g, {"insert"})' <=> u = t /\ q = "insert"
        BY <1>1, <2>1, <3>1 DEF In
      <4> DEFINE S == In(g, {"insert"})'
      <4>2. Filling(g)' = {slot'[u] : u \in S}
        BY DEF Filling
      <4>3. \A u : u \in S <=> u = t /\ q = "insert"
        BY <4>1
      <4> HIDE DEF S
      <4>4. {slot'[u] : u \in S} = IF q = "insert" THEN {slot'[t]} ELSE {}
        <5>1. CASE q = "insert"
          <6>1. S = {t}
            BY <4>3, <5>1
          <6> QED BY <5>1, <6>1
        <5>2. CASE q # "insert"
          <6>1. S = {}
            BY <4>3, <5>2
          <6> QED BY <5>2, <6>1
        <5> QED BY <5>1, <5>2
      <4> QED BY <4>2, <4>4
    <3> QED BY <2>1, <3>2 DEF RefOf
  <2>2. CASE g # file[t]
    <3>1. Filling(g)' = Filling(g)
      BY <1>1, <2>2, FillSame
    <3>2. RefOK(list[g], invalid[g], index[g], ent, Filling(g))
      BY <1>9 DEF IInv, RefOf
    <3>3. /\ list'[g] = list[g] /\ invalid'[g] = invalid[g] /\ index'[g] = index[g]
          /\ \A s \in Range(list[g]) : ent'[s] = ent[s]
      BY <2>2
    <3>4. RefOK(list[g], invalid[g], index[g], ent', Filling(g))
      BY <3>2, <3>3, RefFrame, SMT
    <3> QED BY <3>1, <3>3, <3>4 DEF RefOf
  <2> QED BY <2>1, <2>2
<1> QED BY <1>4, <1>5, <1>8, <1>9 DEF IInv, Typed

(* The run a write is adding. *)
LEMMA CurRun ==
  ASSUME IInv, NEW t \in Threads, pc[t] \in {"dispatch", "insert", "store"}
  PROVE  /\ Cur(t) \in Run /\ Covers(Cur(t)) \subseteq Blocks
         /\ num[t] + 1 \in DOMAIN ebuf[t]
<1>1. ebuf[t] \in Seq(Run) /\ num[t] \in Nat /\ off[t] \in Nat /\ len[t] \in Nat
  BY DEF IInv, Typed, WriteTyped
<1>2. RunsOK(pc[t], off[t], len[t], ebuf[t], num[t])
  BY DEF IInv, Runs
<1>3. num[t] < Len(ebuf[t])
  BY <1>2 DEF RunsOK
<1>4. num[t] + 1 \in DOMAIN ebuf[t] /\ Cur(t) \in Run
  BY <1>1, <1>3, SMT DEF Cur
<1>5. off[t] <= Cur(t).l /\ Cur(t).l + Cur(t).n <= Reach(off[t], ebuf[t])
      /\ Reach(off[t], ebuf[t]) <= off[t] + len[t] /\ off[t] + len[t] <= NB
  BY <1>2, <1>4 DEF RunsOK, Cur
<1>6. ebuf[t] # <<>> /\ ebuf[t][Len(ebuf[t])] \in Run
  BY <1>1, <1>3, SMT
<1>7. Reach(off[t], ebuf[t]) \in Nat
  BY <1>6, SMT DEF Reach, Run
<1>8. Covers(Cur(t)) \subseteq Blocks
  <2>1. Cur(t).l \in Nat /\ Cur(t).n \in Nat
    BY <1>4, SMT DEF Run
  <2>2. 0 <= Cur(t).l /\ Cur(t).l + Cur(t).n <= NB /\ NB \in Nat
    <3> DEFINE l == Cur(t).l
               e == Cur(t).l + Cur(t).n
               r == Reach(off[t], ebuf[t])
               w == off[t] + len[t]
    <3>1. NB \in Nat
      BY SizeAssumption
    <3>2. l \in Nat /\ e \in Nat /\ w \in Nat
      BY <1>1, <2>1, SMT
    <3>3. r \in Nat /\ e <= r /\ r <= w /\ w <= NB
      BY <1>5, <1>7
    <3> HIDE DEF l, e, r, w
    <3>4. 0 <= l /\ e <= NB
      BY <3>1, <3>2, <3>3, SMT
    <3> QED BY <3>1, <3>4 DEF l, e
  <2> QED BY <2>1, <2>2, SMT DEF Covers, Blocks
<1> QED BY <1>4, <1>8

(* filent_try_reuse, or an append: the entry is filled in its slot. *)
LEMMA DispatchInv ==
  ASSUME IInv, Counting, NEW t \in Threads, Dispatch(t)
  PROVE  IInv'
<1> DEFINE f == file[t]
           r == Cur(t)
           h == slot'[t]
           e == [l |-> r.l, p |-> r.p, n |-> r.n, ts |-> stamp[t], ref |-> r.n]
<1>1. /\ pc[t] = "dispatch" /\ pc' = [pc EXCEPT ![t] = "insert"]
      /\ ent' = [ent EXCEPT ![h] = e]
      /\ UNCHANGED <<life, lock, file, off, len, ebuf, num, stamp, ts>>
      /\ UNCHANGED <<index, dused>>
  BY DEF Dispatch, Goto, args, Cur
<1>2. PICK o : /\ reuse' = [reuse EXCEPT ![t] = o] /\ o \in BOOLEAN
               /\ \/ /\ o /\ invalid[f] # <<>>
                     /\ slot' = [slot EXCEPT ![t] = Head(invalid[f])]
                     /\ invalid' = [invalid EXCEPT ![f] = Tail(@)]
                     /\ UNCHANGED <<ghost, list, sused>>
                  \/ /\ ~ o
                     /\ slot' = [slot EXCEPT ![t] = ghost[f]]
                     /\ list' = [list EXCEPT ![f] = Append(@, ghost[f])]
                     /\ \E g \in Slots \ sused : ghost' = [ghost EXCEPT ![f] = g] /\ sused' = sused \union {g}
                     /\ UNCHANGED invalid
  <2> DEFINE oo == Overwrites(f, r.n) /\ invalid[f] # <<>>
  <2>1. oo \in BOOLEAN
    OBVIOUS
  <2>2. /\ reuse' = [reuse EXCEPT ![t] = oo]
        /\ \/ /\ oo /\ invalid[f] # <<>>
              /\ slot' = [slot EXCEPT ![t] = Head(invalid[f])]
              /\ invalid' = [invalid EXCEPT ![f] = Tail(@)]
              /\ UNCHANGED <<ghost, list, sused>>
           \/ /\ ~ oo
              /\ slot' = [slot EXCEPT ![t] = ghost[f]]
              /\ list' = [list EXCEPT ![f] = Append(@, ghost[f])]
              /\ \E g \in Slots \ sused : ghost' = [ghost EXCEPT ![f] = g] /\ sused' = sused \union {g}
              /\ UNCHANGED invalid
    BY DEF Dispatch, TakeInvalid, Cur
  <2> HIDE DEF oo
  <2> QED BY <2>1, <2>2
<1>3. WriteTyped /\ FileTyped /\ OwnSlots /\ dused \subseteq Data
  BY DEF IInv, Typed
<1>4. pc[t] \in Busy /\ pc[t] \in {"dispatch", "insert", "store"} /\ pc[t] # "insert"
  BY <1>1, SMT DEF Busy
<1>5. f \in Files /\ life[f] = "live"
  BY <1>4 DEF IInv, Locks
<1>6. r \in Run
  BY <1>4, CurRun
<1>7. RefOK(list[f], invalid[f], index[f], ent, {})
  <2>1. Filling(f) = {}
    BY <1>4, FillOne
  <2> QED BY <1>5, <2>1 DEF IInv, RefOf
<1>8. /\ list[f] \in Seq(Slots) /\ invalid[f] \in Seq(Slots) /\ ghost[f] \in Slots
      /\ index[f] \in [Blocks -> Slots \union {Null}] /\ stamp[t] \in Nat
      /\ ent \in [Slots -> [l : Nat, p : Nat, n : Nat, ts : Nat, ref : Int]]
  BY <1>3, <1>5 DEF FileTyped, WriteTyped
<1>9. Range(list[f]) \subseteq Slots
  BY <1>8, SMT DEF Range
<1>10. /\ e \in [l : Nat, p : Nat, n : Nat, ts : Nat, ref : Int]
       /\ e.l = r.l /\ e.p = r.p /\ e.n = r.n /\ e.ref = r.n
  BY <1>6, <1>8, SMT DEF Run
<1> HIDE DEF r, e, f
<1>11. /\ h \in Slots
       /\ \/ /\ o /\ h = Head(invalid[f]) /\ invalid[f] # <<>>
          \/ /\ ~ o /\ h = ghost[f]
  <2>1. slot \in [Threads -> Slots \union {Null}]
    BY <1>3 DEF WriteTyped
  <2>2. invalid[f] # <<>> => Head(invalid[f]) \in Slots
    BY <1>8, SMT
  <2> QED BY <1>2, <1>8, <2>1, <2>2
<1>12. \A u \in Threads \ {t} : slot'[u] = slot[u] /\ reuse'[u] = reuse[u]
  BY <1>2, <1>3 DEF WriteTyped
<1> HIDE DEF h
<1>13. ent'[h] = e /\ \A s \in Slots \ {h} : ent'[s] = ent[s]
  BY <1>1, <1>8, <1>11
<1>14. /\ h \in Range(list'[f]) /\ Uses(index[f], h) = {}
       /\ RefOK(list'[f], invalid'[f], index[f], ent', {h})
       /\ ~ o => h = list'[f][Len(list'[f])]
       /\ h \in Range(list[f]) \union {ghost[f]}
  <2>1. CASE o
    <3>1. list'[f] = list[f] /\ invalid'[f] = Tail(invalid[f]) /\ h = Head(invalid[f]) /\ invalid[f] # <<>>
      BY <1>2, <1>3, <1>5, <1>11, <2>1 DEF FileTyped
    <3>2. \A s \in Slots \ {Head(invalid[f])} : ent'[s] = ent[s]
      BY <1>13, <3>1
    <3>3. /\ Head(invalid[f]) \in Range(list[f]) /\ Uses(index[f], Head(invalid[f])) = {}
          /\ RefOK(list[f], Tail(invalid[f]), index[f], ent', {Head(invalid[f])})
      BY <1>7, <1>8, <1>9, <3>1, <3>2, RefReuse
    <3> QED BY <2>1, <3>1, <3>3
  <2>2. CASE ~ o
    <3>1. list'[f] = Append(list[f], h) /\ invalid'[f] = invalid[f] /\ h = ghost[f]
      BY <1>2, <1>3, <1>5, <1>11, <2>2 DEF FileTyped
    <3>2. h \notin Range(list[f])
      BY <1>3, <1>5, <3>1 DEF OwnSlots
    <3>3. Uses(index[f], h) = {} /\ RefOK(Append(list[f], h), invalid[f], index[f], ent', {h})
      BY <1>7, <1>8, <1>11, <1>13, <3>2, RefAppend
    <3>4. Range(Append(list[f], h)) = Range(list[f]) \union {h}
      BY <1>8, <1>11, AppendSlot
    <3>5. Append(list[f], h)[Len(Append(list[f], h))] = h
      BY <1>8, <1>11, AppendSlot
    <3> QED BY <3>1, <3>3, <3>4, <3>5
  <2> QED BY <2>1, <2>2
<1>15. \A g \in Files \ {f} : /\ list'[g] = list[g] /\ invalid'[g] = invalid[g]
                              /\ index'[g] = index[g]
  BY <1>1, <1>2, <1>3 DEF FileTyped
<1>16. ASSUME NEW g \in Files \ {f}, NEW s \in Range(list[g]) PROVE ent'[s] = ent[s]
  <2>1. s \in Slots
    <3>1. list[g] \in Seq(Slots)
      BY <1>3 DEF FileTyped
    <3> QED BY <3>1, SMT DEF Range
  <2>2. s \notin Range(list[f]) /\ s # ghost[f]
    <3>1. Range(list[g]) \intersect Range(list[f]) = {} /\ ghost[f] \notin Range(list[g])
      BY <1>3, <1>5 DEF OwnSlots
    <3> QED BY <3>1
  <2>3. s # h
    BY <1>14, <2>2
  <2> QED BY <1>13, <2>1, <2>3
<1>17. WriteTyped'
  <2>1. pc' \in [Threads -> Busy \union {"idle", "read_size", "write_size"}]
    BY <1>1, <1>3 DEF WriteTyped, Busy
  <2>2. reuse' \in [Threads -> BOOLEAN]
    BY <1>2, <1>3 DEF WriteTyped
  <2>3. slot' \in [Threads -> Slots \union {Null}]
    <3>1. slot' = [slot EXCEPT ![t] = h]
      BY <1>2, <1>3 DEF WriteTyped, h
    <3> QED BY <1>3, <1>11, <3>1 DEF WriteTyped
  <2> QED BY <1>1, <1>3, <2>1, <2>2, <2>3 DEF WriteTyped
<1>18. FileTyped' /\ OwnSlots'
  <2>1. ent' \in [Slots -> [l : Nat, p : Nat, n : Nat, ts : Nat, ref : Int]]
    BY <1>1, <1>8, <1>10
  <2>2. CASE o
    <3>1. UNCHANGED <<ghost, list, sused>> /\ invalid' = [invalid EXCEPT ![f] = Tail(@)]
      BY <1>2, <2>2
    <3>2. Tail(invalid[f]) \in Seq(Slots)
      BY <1>8, <1>11, <2>2, SMT
    <3>3. invalid' \in [Files -> Seq(Slots)]
      BY <1>3, <3>1, <3>2 DEF FileTyped
    <3>4. OwnSlots'
      BY <1>3, <3>1 DEF OwnSlots
    <3> QED BY <1>1, <1>3, <2>1, <3>1, <3>3, <3>4 DEF FileTyped
  <2>3. CASE ~ o
    <3>1. PICK g \in Slots \ sused : ghost' = [ghost EXCEPT ![f] = g] /\ sused' = sused \union {g}
      BY <1>2, <2>3
    <3>2. list' = [list EXCEPT ![f] = Append(@, h)] /\ invalid' = invalid /\ h = ghost[f]
      BY <1>2, <1>11, <2>3
    <3>3. Append(list[f], h) \in Seq(Slots)
      BY <1>8, <1>11, SMT
    <3>4. list' \in [Files -> Seq(Slots)] /\ ghost' \in [Files -> Slots] /\ sused' \subseteq Slots
      BY <1>3, <3>1, <3>2, <3>3 DEF FileTyped
    <3>5. /\ list'[f] = Append(list[f], h) /\ ghost'[f] = g
          /\ \A x \in Files \ {f} : list'[x] = list[x] /\ ghost'[x] = ghost[x]
      BY <1>3, <1>5, <3>1, <3>2 DEF FileTyped
    <3>6. h \notin Range(list[f]) /\ IsInjective(list[f])
      BY <1>3, <1>5, <3>2 DEF OwnSlots
    <3>7. Range(list'[f]) = Range(list[f]) \union {h} /\ IsInjective(list'[f])
      <4>1. Range(Append(list[f], h)) = Range(list[f]) \union {h} /\ IsInjective(Append(list[f], h))
        BY <1>8, <1>11, <3>6, AppendSlot
      <4> QED BY <3>5, <4>1
    <3>8. \A x \in Files : ghost[x] \in sused /\ Range(list[x]) \subseteq sused /\ h \in sused
      BY <1>3, <1>5, <3>2 DEF OwnSlots
    <3>9. \A x \in Files : ghost'[x] \in sused' /\ Range(list'[x]) \subseteq sused'
      <4>1. g \in sused' /\ \A y \in sused : y \in sused'
        BY <3>1
      <4>2. ghost'[f] \in sused' /\ Range(list'[f]) \subseteq sused'
        BY <1>5, <3>5, <3>7, <3>8, <4>1
      <4>3. \A x \in Files \ {f} : ghost'[x] \in sused' /\ Range(list'[x]) \subseteq sused'
        BY <3>5, <3>8, <4>1
      <4> QED BY <4>2, <4>3
    <3>10. \A x, y \in Files : ghost'[x] = ghost'[y] => x = y
      <4>1. \A x \in Files \ {f} : ghost'[x] # ghost'[f]
        BY <3>1, <3>5, <3>8
      <4>2. \A x, y \in Files \ {f} : ghost'[x] = ghost'[y] => x = y
        BY <1>3, <3>5 DEF OwnSlots
      <4> QED BY <4>1, <4>2
    <3>11. \A x, y \in Files : ghost'[x] \notin Range(list'[y])
      <4> SUFFICES ASSUME NEW x \in Files, NEW y \in Files, ghost'[x] \in Range(list'[y]) PROVE FALSE
        OBVIOUS
      <4>1. ghost'[x] \in sused
        BY <3>5, <3>7, <3>8
      <4>2. x # f /\ ghost'[x] = ghost[x]
        BY <3>1, <3>5, <4>1
      <4>3. ghost[x] \notin Range(list[y]) /\ ghost[x] # h
        BY <1>3, <1>5, <3>2, <4>2 DEF OwnSlots
      <4> QED BY <3>5, <3>7, <4>2, <4>3
    <3>12. \A x, y \in Files : x # y => Range(list'[x]) \intersect Range(list'[y]) = {}
      <4>1. \A x \in Files : h \notin Range(list[x])
        BY <1>3, <1>5, <3>2 DEF OwnSlots
      <4>2. \A x \in Files \ {f} : Range(list[x]) \intersect Range(list[f]) = {}
        BY <1>3, <1>5 DEF OwnSlots
      <4>3. \A x \in Files \ {f} : Range(list'[x]) \intersect Range(list'[f]) = {}
        BY <3>5, <3>7, <4>1, <4>2
      <4>4. \A x, y \in Files \ {f} : x # y => Range(list'[x]) \intersect Range(list'[y]) = {}
        BY <1>3, <3>5 DEF OwnSlots
      <4> QED BY <4>3, <4>4
    <3>13. \A x \in Files : IsInjective(list'[x])
      BY <1>3, <3>5, <3>7 DEF OwnSlots
    <3>14. OwnSlots'
      BY <3>9, <3>10, <3>11, <3>12, <3>13 DEF OwnSlots
    <3> QED BY <1>1, <1>3, <2>1, <3>2, <3>4, <3>14 DEF FileTyped
  <2> QED BY <1>2, <2>2, <2>3
<1>19. pc'[t] = "insert" /\ reuse'[t] = o /\ file'[t] = f /\ Cur(t)' = r
  BY <1>1, <1>2, <1>3 DEF WriteTyped, Cur, r, f
<1>20. Runs(t)'
  <2>1. RunsOK("dispatch", off[t], len[t], ebuf[t], num[t])
    BY <1>1 DEF IInv, Runs
  <2>2. num[t] < Len(ebuf[t])
    BY <2>1, SMT DEF RunsOK
  <2>3. /\ "dispatch" # "idle" /\ "insert" \notin {"idle", "alloc", "write_ts"}
        /\ "insert" \notin {"unlock", "read_size", "write_size", "idle"}
    BY SMT
  <2>4. RunsOK("insert", off[t], len[t], ebuf[t], num[t])
    BY <2>1, <2>2, <2>3, RunsJump
  <2> QED BY <1>1, <1>19, <2>4 DEF Runs
<1>21. Slotted(t)'
  <2>1. "insert" # "store"
    BY SMT
  <2>2. SlotOK("insert", h, e, r, list'[f], index[f], o)
    BY <1>10, <1>14, <2>1 DEF SlotOK
  <2> QED BY <1>1, <1>13, <1>19, <2>2 DEF Slotted, h
<1>22. (dused \subseteq Data)' /\ UNCHANGED <<life, lock, file, off, len, ebuf, num, stamp, ts>>
  BY <1>1, <1>3
<1>23. RefOK(list'[f], invalid'[f], index'[f], ent', IF "insert" = "insert" THEN {h} ELSE {})
  BY <1>1, <1>14
<1> QED BY <1>1, <1>4, <1>12, <1>15, <1>16, <1>17, <1>18, <1>20, <1>21, <1>22, <1>23, FileStep DEF f, h

(* file_index_insert: the index and the reference counts change together. *)
LEMMA InsertInv ==
  ASSUME IInv, Counting, Sorting, NEW t \in Threads, Insert(t)
  PROVE  IInv'
<1> DEFINE f == file[t]
           r == Cur(t)
           h == slot[t]
           idx == index[f]
           D == Died(f, r)
           jdx == [b \in Blocks |-> IF b \in Covers(r) THEN h ELSE idx[b]]
<1>1. /\ pc[t] = "insert" /\ pc' = [pc EXCEPT ![t] = "store"]
      /\ index' = [index EXCEPT ![f] = [b \in Blocks |-> IF b \in Covers(r) THEN h ELSE @[b]]]
      /\ ent' = [s \in Slots |-> [ent[s] EXCEPT !.ref = @ - Lost(f, r, s)]]
      /\ invalid' = [invalid EXCEPT ![f] = @ \o D]
      /\ dused' \subseteq dused
      /\ UNCHANGED <<life, lock, file, off, len, ebuf, num, stamp, ts>>
      /\ UNCHANGED <<list, ghost, sused, slot, reuse>>
  BY DEF Insert, Goto, args, regs, Cur
<1>2. WriteTyped /\ FileTyped /\ OwnSlots /\ dused \subseteq Data
  BY DEF IInv, Typed
<1>3. pc[t] \in Busy /\ pc[t] \in {"dispatch", "insert", "store"}
  BY <1>1, SMT DEF Busy
<1>4. f \in Files /\ life[f] = "live"
  BY <1>3 DEF IInv, Locks
<1>5. r \in Run /\ Covers(r) \subseteq Blocks
  BY <1>3, CurRun
<1>6. RefOK(list[f], invalid[f], index[f], ent, {h})
  <2>1. Filling(f) = {h}
    BY <1>1, <1>3, FillOne
  <2> QED BY <1>4, <2>1 DEF IInv, RefOf
<1>7. /\ list[f] \in Seq(Slots) /\ invalid[f] \in Seq(Slots)
      /\ idx \in [Blocks -> Slots \union {Null}]
      /\ ent \in [Slots -> [l : Nat, p : Nat, n : Nat, ts : Nat, ref : Int]]
  BY <1>2, <1>4 DEF FileTyped
<1>8. Range(list[f]) \subseteq Slots
  BY <1>7, SMT DEF Range
<1>9. /\ h \in Range(list[f]) /\ ent[h].l = r.l /\ ent[h].p = r.p /\ ent[h].n = r.n
      /\ ent[h].ref = r.n /\ Uses(idx, h) = {}
      /\ (~ reuse[t] => h = list[f][Len(list[f])])
  <2>1. SlotOK("insert", h, ent[h], r, list[f], idx, reuse[t])
    BY <1>1 DEF IInv, Slotted
  <2> QED BY <2>1 DEF SlotOK
<1>10. /\ D \in Seq(Slots) /\ IsInjective(D)
       /\ Range(D) = {s \in Slots : Dying(f, r, s)}
  BY <1>5, <1>7, DiedProps
<1>11. \A s : Lost(f, r, s) = Cardinality(Uses(idx, s) \intersect Covers(r))
  BY DEF Lost, Indexed, Uses
<1>12. \A x : x \in Range(D) <=>
           /\ x \in Slots
           /\ Cardinality(Uses(idx, x) \intersect Covers(r)) > 0
           /\ ent[x].ref = Cardinality(Uses(idx, x) \intersect Covers(r))
  BY <1>10, <1>11 DEF Dying
<1>13. \A x \in Slots : ent'[x] = [ent[x] EXCEPT
                  !.ref = @ - Cardinality(Uses(idx, x) \intersect Covers(r))]
  BY <1>1, <1>11
<1>14. index' = [index EXCEPT ![f] = jdx]
  BY <1>1
<1> HIDE DEF D
<1>15. RefOK(list[f], invalid[f] \o D, jdx, ent', {}) /\ Uses(jdx, h) = Covers(r)
  <2>1. jdx = [b \in Blocks |-> IF b \in Covers(r) THEN h ELSE idx[b]]
    BY SMT
  <2>2. RefOK(list[f], invalid[f], idx, ent, {h})
    BY <1>6
  <2> HIDE DEF jdx, idx, f, r, h
  <2>3. TakesOver(list[f], invalid[f], D, idx, ent, r, h, jdx, ent')
    BY <1>5, <1>7, <1>8, <1>9, <1>10, <1>12, <1>13, <2>1, <2>2 DEF TakesOver
  <2> QED BY <2>3, RefInsert, SMT
<1>16. jdx \in [Blocks -> Slots \union {Null}]
  BY <1>7, <1>8, <1>9
<1> HIDE DEF jdx
<1>17. /\ index'[f] = jdx /\ invalid'[f] = invalid[f] \o D /\ list'[f] = list[f]
       /\ \A g \in Files \ {f} : /\ list'[g] = list[g] /\ invalid'[g] = invalid[g]
                                 /\ index'[g] = index[g]
  BY <1>1, <1>2, <1>4, <1>14 DEF FileTyped
<1>18. ASSUME NEW s \in Slots
       PROVE  /\ ent'[s] \in [l : Nat, p : Nat, n : Nat, ts : Nat, ref : Int]
              /\ ent'[s].l = ent[s].l /\ ent'[s].p = ent[s].p /\ ent'[s].n = ent[s].n
              /\ s \notin Range(list[f]) => ent'[s] = ent[s]
  <2> DEFINE c == Cardinality(Uses(idx, s) \intersect Covers(r))
  <2>1. ent[s] \in [l : Nat, p : Nat, n : Nat, ts : Nat, ref : Int]
    BY <1>7
  <2>2. ent'[s] = [ent[s] EXCEPT !.ref = @ - c]
    BY <1>13
  <2>3. c \in Nat
    <3>1. Uses(idx, s) \intersect Covers(r) \in SUBSET Blocks
      BY DEF Uses
    <3> QED BY <3>1 DEF Counting
  <2>4. s \notin Range(list[f]) => c = 0
    <3>1. ASSUME s \notin Range(list[f]) PROVE Uses(idx, s) \intersect Covers(r) = {}
      <4>1. s # Null
        BY NullAssumption
      <4> QED BY <1>6, <3>1, <4>1 DEF RefOK, Uses
    <3>2. {} \in SUBSET Blocks
      OBVIOUS
    <3> QED BY <3>1, <3>2 DEF Counting
  <2> HIDE DEF c
  <2>5. ent'[s] \in [l : Nat, p : Nat, n : Nat, ts : Nat, ref : Int]
        /\ ent'[s].l = ent[s].l /\ ent'[s].p = ent[s].p /\ ent'[s].n = ent[s].n
    BY <2>1, <2>2, <2>3, SMT
  <2>6. c = 0 => ent'[s] = ent[s]
    <3> HAVE c = 0
    <3>1. ent[s].ref - c = ent[s].ref
      BY <2>1, SMT
    <3>2. ent'[s] = [ent[s] EXCEPT !.ref = ent[s].ref]
      BY <2>2, <3>1
    <3> QED BY <2>1, <3>2, SMT
  <2> QED BY <2>4, <2>5, <2>6
<1>19. \A g \in Files \ {f} : \A s \in Range(list[g]) : ent'[s] = ent[s]
  <2> SUFFICES ASSUME NEW g \in Files \ {f}, NEW s \in Range(list[g]) PROVE ent'[s] = ent[s]
    OBVIOUS
  <2>1. list[g] \in Seq(Slots)
    BY <1>2 DEF FileTyped
  <2>2. s \in Slots
    BY <2>1, SMT DEF Range
  <2>3. s \notin Range(list[f])
    BY <1>2, <1>4 DEF OwnSlots
  <2> QED BY <1>18, <2>2, <2>3
<1>20. FileTyped'
  <2>1. ent' \in [Slots -> [l : Nat, p : Nat, n : Nat, ts : Nat, ref : Int]]
    <3>1. ent' = [s \in Slots |-> ent'[s]]
      BY <1>1
    <3> QED BY <1>18, <3>1
  <2>2. invalid[f] \o D \in Seq(Slots)
    BY <1>7, <1>10, SMT
  <2>3. invalid' \in [Files -> Seq(Slots)]
    BY <1>1, <1>2, <2>2 DEF FileTyped
  <2>4. index' \in [Files -> [Blocks -> Slots \union {Null}]]
    BY <1>2, <1>14, <1>16 DEF FileTyped
  <2> QED BY <1>1, <1>2, <2>1, <2>3, <2>4 DEF FileTyped
<1>21. WriteTyped'
  <2>1. pc' \in [Threads -> Busy \union {"idle", "read_size", "write_size"}]
    BY <1>1, <1>2 DEF WriteTyped, Busy
  <2> QED BY <1>1, <1>2, <2>1 DEF WriteTyped
<1>22. OwnSlots' /\ (dused \subseteq Data)'
  BY <1>1, <1>2 DEF OwnSlots
<1>23. pc'[t] = "store" /\ reuse'[t] = reuse[t] /\ file'[t] = f /\ Cur(t)' = r /\ slot'[t] = h
  BY <1>1, <1>2 DEF WriteTyped, Cur
<1>24. Runs(t)'
  <2>1. RunsOK("insert", off[t], len[t], ebuf[t], num[t])
    BY <1>1 DEF IInv, Runs
  <2>2. num[t] < Len(ebuf[t])
    BY <2>1, SMT DEF RunsOK
  <2>3. /\ "insert" # "idle" /\ "store" \notin {"idle", "alloc", "write_ts"}
        /\ "store" \notin {"unlock", "read_size", "write_size", "idle"}
    BY SMT
  <2>4. RunsOK("store", off[t], len[t], ebuf[t], num[t])
    BY <2>1, <2>2, <2>3, RunsJump
  <2> QED BY <1>1, <1>23, <2>4 DEF Runs
<1>25. Slotted(t)'
  <2>1. "insert" # "store"
    BY SMT
  <2>2. h \in Slots
    BY <1>8, <1>9
  <2>3. ent'[h].l = r.l /\ ent'[h].p = r.p /\ ent'[h].n = r.n
    BY <1>9, <1>18, <2>2
  <2>4. SlotOK("store", h, ent'[h], r, list[f], jdx, reuse[t])
    BY <1>9, <1>15, <2>1, <2>3 DEF SlotOK
  <2> QED BY <1>17, <1>23, <2>4 DEF Slotted
<1>26. UNCHANGED <<life, lock, file, off, len, ebuf, num, stamp, ts>>
  BY <1>1
<1>27. RefOK(list'[f], invalid'[f], index'[f], ent', IF "store" = "insert" THEN {slot'[t]} ELSE {})
  <2>1. "store" # "insert"
    BY SMT
  <2> QED BY <1>15, <1>17, <2>1
<1>28. \A u \in Threads \ {t} : slot'[u] = slot[u] /\ reuse'[u] = reuse[u]
  BY <1>1
<1> QED BY <1>1, <1>3, <1>17, <1>19, <1>20, <1>21, <1>22, <1>24, <1>25, <1>26, <1>27, <1>28,
       FileStep

(* Every step of every thread and of the release thread. *)
LEMMA NextInv ==
  ASSUME IInv, Counting, Sorting, Next
  PROVE  IInv'
<1>1. ASSUME NEW t \in Threads, inode_write_atomic(t) PROVE IInv'
  BY <1>1, WriteBeginInv, AllocInv, ReadTsInv, WriteTsInv, DispatchInv, InsertInv, StoreInv,
     UnlockInv, ReadSizeInv, WriteSizeInv DEF inode_write_atomic
<1>2. ASSUME NEW f \in Files, Unlink(f) \/ ReleaseEntry(f) \/ ReleaseEnd(f) PROVE IInv'
  BY <1>2, UnlinkInv, ReleaseEntryInv, ReleaseEndInv
<1> QED BY <1>1, <1>2 DEF Next

(* A step of something else. *)
LEMMA StutterInv ==
  ASSUME IInv, UNCHANGED vars
  PROVE  IInv'
<1>1. /\ UNCHANGED Dram /\ UNCHANGED dused
      /\ UNCHANGED <<lock, pc, file, off, len, ebuf, num, stamp, ts, slot, reuse>>
  BY DEF vars, Dram
<1>2. WriteTyped' /\ (dused \subseteq Data)'
  BY <1>1 DEF IInv, Typed, WriteTyped
<1>3. \A u \in Threads : Same(u)
  BY <1>1 DEF Same
<1>4. \A u \in Threads : Locks(u)'
  BY <1>1, <1>3, KeepLocks DEF IInv, Dram
<1>5. \A u \in Threads : Runs(u)'
  BY <1>3, KeepRuns DEF IInv
<1>6. \A u \in Threads : Slotted(u)'
  BY <1>1, <1>3, KeepSlotted DEF IInv, Dram
<1> QED BY <1>1, <1>2, <1>4, <1>5, <1>6, Quiet

(* A fresh file system. *)
LEMMA InitInv ==
  ASSUME Init, Counting
  PROVE  IInv
<1>1. /\ life = [f \in Files |-> "live"] /\ list = [f \in Files |-> <<>>]
      /\ invalid = [f \in Files |-> <<>>] /\ ghost \in [Files -> Slots] /\ IsInjective(ghost)
      /\ index = [f \in Files |-> [b \in Blocks |-> Null]] /\ ent = [s \in Slots |-> Filent]
      /\ sused = Range(ghost) /\ dused = {}
  BY DEF Init
<1>2. /\ lock = [f \in Files |-> Null] /\ pc = [t \in Threads |-> "idle"]
      /\ file = [t \in Threads |-> Null] /\ off = [t \in Threads |-> 0]
      /\ len = [t \in Threads |-> 0] /\ ebuf = [t \in Threads |-> <<>>]
      /\ num = [t \in Threads |-> 0] /\ stamp = [t \in Threads |-> 0]
      /\ slot = [t \in Threads |-> Null] /\ reuse = [t \in Threads |-> FALSE] /\ ts = 0
  BY DEF Init
<1>3. Range(<<>>) = {} /\ <<>> \in Seq(Slots) /\ <<>> \in Seq(Run)
  BY SMT DEF Range
<1>4. FileTyped
  <2>1. Filent \in [l : Nat, p : Nat, n : Nat, ts : Nat, ref : Int]
    BY SMT DEF Filent
  <2>2. Range(ghost) \subseteq Slots
    BY <1>1 DEF Range
  <2>3. /\ life \in [Files -> {"live", "releasing", "free"}]
        /\ index \in [Files -> [Blocks -> Slots \union {Null}]]
    BY <1>1
  <2>4. list \in [Files -> Seq(Slots)] /\ invalid \in [Files -> Seq(Slots)]
    BY <1>1, <1>3
  <2> QED BY <1>1, <2>1, <2>2, <2>3, <2>4 DEF FileTyped
<1>5. WriteTyped
  <2>1. 0 \in Nat
    BY SMT
  <2> QED BY <1>2, <1>3, <2>1 DEF WriteTyped
<1>6. OwnSlots
  <2>1. \A f \in Files : ghost[f] \in sused
    BY <1>1 DEF Range
  <2>2. \A f \in Files : list[f] = <<>>
    BY <1>1
  <2>3. \A f, g \in Files : ghost[f] = ghost[g] => f = g
    BY <1>1 DEF IsInjective
  <2>4. IsInjective(<<>>)
    BY SMT DEF IsInjective
  <2> QED BY <1>3, <2>1, <2>2, <2>3, <2>4 DEF OwnSlots
<1>7. \A t \in Threads : Locks(t) /\ Slotted(t)
  <2>1. "idle" \notin Busy /\ "idle" \notin {"insert", "store"}
    BY SMT DEF Busy
  <2>2. \A t \in Threads : pc[t] = "idle"
    BY <1>2
  <2> QED BY <2>1, <2>2 DEF Locks, Slotted, SlotOK
<1>8. \A t \in Threads : Runs(t)
  <2>1. Reach(0, <<>>) = 0
    BY DEF Reach
  <2>2. UNION {Covers(r) : r \in Range(<<>>)} = 0 .. 0 - 1
    BY <1>3, SMT
  <2>3. RunsOK("idle", 0, 0, <<>>, 0)
    BY SizeAssumption, <2>1, <2>2, SMT DEF RunsOK
  <2> QED BY <1>2, <2>3 DEF Runs
<1>9. ASSUME NEW f \in Files PROVE RefOf(f)
  <2>1. list[f] = <<>> /\ invalid[f] = <<>> /\ \A b \in Blocks : index[f][b] = Null
    BY <1>1
  <2>2. IsInjective(<<>>)
    BY SMT DEF IsInjective
  <2> QED BY <1>3, <2>1, <2>2 DEF RefOf, RefOK
<1>10. dused \subseteq Data
  BY <1>1
<1> QED BY <1>4, <1>5, <1>6, <1>7, <1>8, <1>9, <1>10 DEF IInv, Typed
-----------------------------------------------------------------------------
(* No file has been unlinked. *)
Calm == \A f \in Files : life[f] = "live"

Area(r) == r.p .. r.p + r.n - 1

(* The blocks of files that have data, with where it is, and ... *)
Cells == {x \in Files \X Blocks : index[x[1]][x[2]] # Null}
Place == [x \in Cells |-> BlockOf(ent[index[x[1]][x[2]]], x[2])]

(* ... the runs of writes under way that are not in the index yet. *)
Held(t) == (IF pc[t] = "store" THEN num[t] + 2 ELSE num[t] + 1) .. Len(ebuf[t])
Parts == {y \in Threads \X Nat : y[2] \in Held(y[1])}
Part  == [y \in Parts |-> Area(ebuf[y[1]][y[2]])]

(* The data blocks D that are marked are those of the cells U, one each,    *)
(* and those of the runs H, and no two have a block in common.              *)
DataOK(U, at, H, ar, D) ==
  /\ \A x, y \in U : at[x] = at[y] => x = y
  /\ \A x \in U : at[x] \in D
  /\ \A h \in H : ar[h] \subseteq D
  /\ \A x \in U, h \in H : at[x] \notin ar[h]
  /\ \A h, k \in H : h # k => ar[h] \intersect ar[k] = {}
  /\ \A d \in D : (\E x \in U : at[x] = d) \/ (\E h \in H : d \in ar[h])
DataInv == Calm => DataOK(Cells, Place, Parts, Part, dused)

(* A run of free blocks R is allocated. *)
LEMMA DataAdd ==
  ASSUME NEW U, NEW at, NEW H, NEW ar, NEW D, DataOK(U, at, H, ar, D),
         NEW h, h \notin H, NEW R, R \intersect D = {},
         NEW A, A[h] = R, \A k \in H : A[k] = ar[k]
  PROVE  DataOK(U, at, H \union {h}, A, D \union R)
<1>1. \A x \in U, k \in H \union {h} : at[x] \notin A[k]
  BY DEF DataOK
<1>2. \A k \in H \union {h} : A[k] \subseteq D \union R
  BY DEF DataOK
<1>3. \A j, k \in H \union {h} : j # k => A[j] \intersect A[k] = {}
  <2>1. \A j, k \in H : j # k => A[j] \intersect A[k] = {}
    BY DEF DataOK
  <2>2. \A k \in H : A[k] \intersect A[h] = {}
    BY DEF DataOK
  <2> QED BY <2>1, <2>2
<1>4. \A d \in D \union R : (\E x \in U : at[x] = d) \/ (\E k \in H \union {h} : d \in A[k])
  BY DEF DataOK
<1>5. /\ \A x, y \in U : at[x] = at[y] => x = y
      /\ \A x \in U : at[x] \in D \union R
  BY DEF DataOK
<1> QED BY <1>1, <1>2, <1>3, <1>4, <1>5 DEF DataOK

(* The run h goes to the cells C; the blocks these had are freed. *)
Moves(U, at, H, ar, h, C, to, A, F) ==
  /\ h \in H
  /\ \A x \in C : to[x] \in ar[h]
  /\ \A x, y \in C : to[x] = to[y] => x = y
  /\ \A d \in ar[h] : \E x \in C : to[x] = d
  /\ \A x \in U \ C : to[x] = at[x]
  /\ \A k \in H \ {h} : A[k] = ar[k]
  /\ \A d : d \in F <=> \E x \in U : x \in C /\ at[x] = d

(* No block is used twice or lost when a run moves from a write into the    *)
(* index (filent_insert_callback).                                          *)
LEMMA DataMove ==
  ASSUME NEW U, NEW at, NEW H, NEW ar, NEW D, DataOK(U, at, H, ar, D),
         NEW h, NEW C, NEW to, NEW A, NEW F, Moves(U, at, H, ar, h, C, to, A, F)
  PROVE  DataOK(U \union C, to, H \ {h}, A, D \ F)
<1> USE DEF Moves
<1>a. \A x, y \in U : at[x] = at[y] => x = y
  BY DEF DataOK
<1>b. \A x \in U : at[x] \in D
  BY DEF DataOK
<1>c. \A k \in H : ar[k] \subseteq D
  BY DEF DataOK
<1>d. \A x \in U, k \in H : at[x] \notin ar[k]
  BY DEF DataOK
<1>1. \A x, y \in U \union C : to[x] = to[y] => x = y
  <2> SUFFICES ASSUME NEW x \in U \union C, NEW y \in U \union C, to[x] = to[y] PROVE x = y
    OBVIOUS
  <2>1. CASE x \in C /\ y \in C
    BY <2>1
  <2>2. CASE x \in C /\ y \notin C
    <3>1. y \in U /\ to[y] = at[y] /\ to[x] \in ar[h]
      BY <2>2
    <3> QED BY <1>d, <3>1
  <2>3. CASE x \notin C /\ y \in C
    <3>1. x \in U /\ to[x] = at[x] /\ to[y] \in ar[h]
      BY <2>3
    <3> QED BY <1>d, <3>1
  <2>4. CASE x \notin C /\ y \notin C
    <3>1. x \in U /\ y \in U /\ at[x] = at[y]
      BY <2>4
    <3> QED BY <1>a, <3>1
  <2> QED BY <2>1, <2>2, <2>3, <2>4
<1>2. \A x \in U \union C : to[x] \in D \ F
  <2> SUFFICES ASSUME NEW x \in U \union C PROVE to[x] \in D /\ to[x] \notin F
    OBVIOUS
  <2>1. CASE x \in C
    <3>1. to[x] \in ar[h]
      BY <2>1
    <3>2. to[x] \notin F
      BY <1>d, <3>1
    <3> QED BY <1>c, <3>1, <3>2
  <2>2. CASE x \notin C
    <3>1. x \in U /\ to[x] = at[x]
      BY <2>2
    <3>2. at[x] \notin F
      BY <1>a, <2>2, <3>1
    <3> QED BY <1>b, <3>1, <3>2
  <2> QED BY <2>1, <2>2
<1>3. ASSUME NEW k \in H \ {h}, NEW d \in A[k] PROVE d \in D \ F
  <2>1. d \in ar[k] /\ k \in H
    BY <1>3
  <2>2. d \notin F
    <3> SUFFICES ASSUME d \in F PROVE FALSE
      OBVIOUS
    <3>1. PICK x \in U : x \in C /\ at[x] = d
      OBVIOUS
    <3>2. at[x] \notin ar[k]
      BY <1>d, <2>1
    <3> QED BY <2>1, <3>1, <3>2
  <2> QED BY <1>c, <2>1, <2>2
<1>4. \A x \in U \union C, k \in H \ {h} : to[x] \notin A[k]
  <2> SUFFICES ASSUME NEW x \in U \union C, NEW k \in H \ {h} PROVE to[x] \notin A[k]
    OBVIOUS
  <2>1. CASE x \in C
    <3>1. ar[h] \intersect ar[k] = {}
      BY DEF DataOK
    <3> QED BY <2>1, <3>1
  <2>2. CASE x \notin C
    BY <2>2 DEF DataOK
  <2> QED BY <2>1, <2>2
<1>5. \A j, k \in H \ {h} : j # k => A[j] \intersect A[k] = {}
  BY DEF DataOK
<1>6. ASSUME NEW d \in D \ F
      PROVE  (\E x \in U \union C : to[x] = d) \/ (\E k \in H \ {h} : d \in A[k])
  <2>1. CASE \E x \in U : at[x] = d
    BY <2>1
  <2>2. CASE \E k \in H : d \in ar[k]
    BY <2>2
  <2> QED BY <2>1, <2>2 DEF DataOK
<1> QED BY <1>1, <1>2, <1>3, <1>4, <1>5, <1>6 DEF DataOK

(* A step that leaves the index and the place of every entry in it alone. *)
LEMMA CellsFrame ==
  ASSUME index' = index,
         \A x \in Cells : LET s == index[x[1]][x[2]] IN ent'[s].l = ent[s].l /\ ent'[s].p = ent[s].p
  PROVE  Cells' = Cells /\ Place' = Place
<1>1. Cells' = Cells
  BY DEF Cells
<1>2. \A x \in Cells : BlockOf(ent'[index'[x[1]][x[2]]], x[2]) = BlockOf(ent[index[x[1]][x[2]]], x[2])
  BY DEF BlockOf
<1>3. Place' = Place
  BY <1>1, <1>2 DEF Place
<1> QED BY <1>1, <1>3

(* A step that leaves the runs that are held alone. *)
LEMMA PartsFrame ==
  ASSUME \A u \in Threads : Held(u)' = Held(u),
         \A u \in Threads : \A i \in Held(u) : ebuf'[u][i] = ebuf[u][i]
  PROVE  Parts' = Parts /\ Part' = Part
<1>1. \A y \in Threads \X Nat : y[1] \in Threads
  BY SMT
<1>2. Parts' = Parts
  BY <1>1 DEF Parts
<1>3. \A y \in Parts : y[1] \in Threads /\ y[2] \in Held(y[1])
  BY <1>1 DEF Parts
<1>4. \A y \in Parts : Area(ebuf'[y[1]][y[2]]) = Area(ebuf[y[1]][y[2]])
  BY <1>3
<1>5. Part' = Part
  BY <1>2, <1>4 DEF Part
<1> QED BY <1>2, <1>5

(* A step that leaves everything about the data blocks alone. *)
LEMMA DataFrame ==
  ASSUME DataInv, Calm' => Calm, Cells' = Cells, Place' = Place, Parts' = Parts, Part' = Part,
         dused' = dused
  PROVE  DataInv'
BY DEF DataInv

(* The steps that do not touch the index, one by one. *)
LEMMA CalmBack ==
  ASSUME IInv, Next
  PROVE  Calm' => Calm
<1>1. ASSUME NEW t \in Threads, inode_write_atomic(t) PROVE life' = life
  BY <1>1 DEF inode_write_atomic, WriteBegin, Alloc, ReadTs, WriteTs, Dispatch, Insert, Store,
     Unlock, ReadSize, WriteSize, inode
<1>2. ASSUME NEW f \in Files, Unlink(f) \/ ReleaseEntry(f) \/ ReleaseEnd(f) PROVE Calm' => Calm
  <2>1. life \in [Files -> {"live", "releasing", "free"}]
    BY DEF IInv, Typed, FileTyped
  <2>2. "releasing" # "live" /\ "free" # "live"
    BY SMT
  <2>3. CASE Unlink(f)
    <3>1. life'[f] = "releasing"
      BY <2>1, <2>3 DEF Unlink
    <3> QED BY <2>2, <3>1 DEF Calm
  <2>4. CASE ReleaseEntry(f)
    BY <2>4 DEF ReleaseEntry, Calm
  <2>5. CASE ReleaseEnd(f)
    <3>1. life'[f] = "free"
      BY <2>1, <2>5 DEF ReleaseEnd
    <3> QED BY <2>2, <3>1 DEF Calm
  <2> QED BY <1>2, <2>3, <2>4, <2>5
<1> QED BY <1>1, <1>2 DEF Next, Calm

(* A step that touches neither the index nor the runs of the writes. *)
LEMMA QuietData ==
  ASSUME IInv, DataInv, Next, index' = index, ent' = ent, dused' = dused,
         \A u \in Threads : Held(u)' = Held(u),
         \A u \in Threads : \A i \in Held(u) : ebuf'[u][i] = ebuf[u][i]
  PROVE  DataInv'
<1>1. Cells' = Cells /\ Place' = Place
  BY CellsFrame
<1>2. Parts' = Parts /\ Part' = Part
  BY PartsFrame
<1> QED BY <1>1, <1>2, CalmBack, DataFrame

(* The steps of a write that are of this kind: Store only drops from the    *)
(* runs of a write the one that is in the index already.                    *)
LEMMA QuietSteps ==
  ASSUME IInv, DataInv, Next, NEW t \in Threads,
         WriteBegin(t) \/ ReadTs(t) \/ WriteTs(t) \/ Store(t) \/ Unlock(t) \/ ReadSize(t)
  PROVE  DataInv'
<1>1. /\ index' = index /\ ent' = ent /\ dused' = dused /\ ebuf' = ebuf
      /\ \E q : pc' = [pc EXCEPT ![t] = q]
  BY DEF WriteBegin, ReadTs, WriteTs, Store, Unlock, ReadSize, Goto, inode, maps, regs
<1>2. pc \in [Threads -> Busy \union {"idle", "read_size", "write_size"}]
      /\ num \in [Threads -> Nat]
  BY DEF IInv, Typed, WriteTyped
<1>3. \A u \in Threads \ {t} : pc'[u] = pc[u]
  BY <1>1, <1>2
<1>4. CASE Store(t)
  <2>1. pc[t] = "store" /\ num' = [num EXCEPT ![t] = @ + 1]
        /\ pc'[t] = (IF num[t] + 1 < Len(ebuf[t]) THEN "dispatch" ELSE "unlock")
    BY <1>2, <1>4 DEF Store, Goto
  <2>2. num'[t] = num[t] + 1 /\ \A u \in Threads \ {t} : num'[u] = num[u]
    BY <1>2, <2>1
  <2>3. pc'[t] # "store"
    BY <2>1, SMT
  <2>4. (num[t] + 1) + 1 = num[t] + 2
    BY <1>2, SMT
  <2>5. \A u \in Threads : Held(u)' = Held(u)
    BY <1>1, <1>3, <2>1, <2>2, <2>3, <2>4 DEF Held
  <2> QED BY <1>1, <2>5, QuietData
<1>5. CASE ~ Store(t)
  <2>1. num' = num
    BY <1>5 DEF WriteBegin, ReadTs, WriteTs, Unlock, ReadSize, regs
  <2>2. pc[t] # "store" /\ pc'[t] # "store"
    BY <1>2, <1>5, SMT DEF WriteBegin, ReadTs, WriteTs, Unlock, ReadSize, Goto
  <2>3. \A u \in Threads : Held(u)' = Held(u)
    BY <1>1, <1>3, <2>1, <2>2 DEF Held
  <2> QED BY <1>1, <2>3, QuietData
<1> QED BY <1>4, <1>5

(* The end of a write, which has no run left. *)
LEMMA WriteSizeData ==
  ASSUME IInv, DataInv, Next, NEW t \in Threads, WriteSize(t)
  PROVE  DataInv'
<1>1. /\ index' = index /\ ent' = ent /\ dused' = dused /\ pc[t] = "write_size"
      /\ pc' = [pc EXCEPT ![t] = "idle"] /\ ebuf' = [ebuf EXCEPT ![t] = <<>>]
      /\ num' = [num EXCEPT ![t] = 0]
  BY DEF WriteSize, Return, Goto, inode, maps
<1>2. /\ pc \in [Threads -> Busy \union {"idle", "read_size", "write_size"}]
      /\ num \in [Threads -> Nat] /\ ebuf \in [Threads -> Seq(Run)]
  BY DEF IInv, Typed, WriteTyped
<1>3. /\ pc'[t] = "idle" /\ num'[t] = 0 /\ ebuf'[t] = <<>>
      /\ \A u \in Threads \ {t} : pc'[u] = pc[u] /\ num'[u] = num[u] /\ ebuf'[u] = ebuf[u]
  BY <1>1, <1>2
<1>4. num[t] = Len(ebuf[t])
  <2>1. RunsOK("write_size", off[t], len[t], ebuf[t], num[t])
    BY <1>1 DEF IInv, Runs
  <2> QED BY <2>1 DEF RunsOK
<1>5. Held(t) = {} /\ Held(t)' = {}
  <2>1. Len(ebuf[t]) \in Nat
    BY <1>2, SMT
  <2>2. Held(t) = {}
    BY <1>1, <1>4, <2>1, SMT DEF Held
  <2>3. Held(t)' = {}
    BY <1>3, SMT DEF Held
  <2> QED BY <2>2, <2>3
<1>6. \A u \in Threads : Held(u)' = Held(u)
  BY <1>3, <1>5 DEF Held
<1>7. \A u \in Threads : \A i \in Held(u) : ebuf'[u][i] = ebuf[u][i]
  BY <1>3, <1>5
<1> QED BY <1>1, <1>6, <1>7, QuietData

(* An entry is filled in a slot that no block of any file has. *)
LEMMA DispatchData ==
  ASSUME IInv, IInv', DataInv, Next, NEW t \in Threads, Dispatch(t)
  PROVE  DataInv'
<1> DEFINE h == slot'[t]
<1>1. /\ index' = index /\ dused' = dused /\ ebuf' = ebuf /\ num' = num /\ life' = life
      /\ pc[t] = "dispatch" /\ pc' = [pc EXCEPT ![t] = "insert"] /\ file' = file
      /\ \E e : ent' = [ent EXCEPT ![h] = e]
  BY DEF Dispatch, Goto, args
<1>2. /\ pc \in [Threads -> Busy \union {"idle", "read_size", "write_size"}]
      /\ DOMAIN ent = Slots
      /\ index \in [Files -> [Blocks -> Slots \union {Null}]]
  BY DEF IInv, Typed, WriteTyped, FileTyped
<1>3. pc'[t] = "insert" /\ \A u \in Threads \ {t} : pc'[u] = pc[u]
  BY <1>1, <1>2
<1>4. "insert" # "store" /\ "dispatch" # "store"
  BY SMT
<1>5. \A u \in Threads : Held(u)' = Held(u)
  BY <1>1, <1>3, <1>4 DEF Held
<1>6. Parts' = Parts /\ Part' = Part
  BY <1>1, <1>5, PartsFrame
<1>7. CASE Calm
  <2>1. ASSUME NEW x \in Cells PROVE index[x[1]][x[2]] # h /\ index[x[1]][x[2]] \in Slots
    <3>1. x[1] \in Files /\ x[2] \in Blocks /\ index[x[1]][x[2]] # Null
      BY SMT DEF Cells
    <3>2. index[x[1]][x[2]] \in Slots
      <4>1. index[x[1]] \in [Blocks -> Slots \union {Null}]
        BY <1>2, <3>1
      <4> QED BY <3>1, <4>1
    <3>3. SlotOK("insert", h, ent'[h], Cur(t)', list'[file[t]], index[file[t]], reuse'[t])
      BY <1>1, <1>3 DEF IInv, Slotted
    <3>4. h \in Range(list'[file[t]]) /\ Uses(index[file[t]], h) = {}
      BY <3>3 DEF SlotOK
    <3>5. CASE x[1] = file[t]
      BY <3>1, <3>2, <3>4, <3>5 DEF Uses
    <3>6. CASE x[1] # file[t]
      <4>1. RefOf(x[1])'
        BY <1>1, <1>7, <3>1 DEF IInv, Calm
      <4>2. index[x[1]][x[2]] \in Range(list'[x[1]])
        BY <1>1, <3>1, <4>1 DEF RefOf, RefOK
      <4>3. file[t] \in Files
        <5>1. pc[t] \in Busy
          BY <1>1, SMT DEF Busy
        <5> QED BY <5>1 DEF IInv, Locks
      <4>4. Range(list'[x[1]]) \intersect Range(list'[file[t]]) = {}
        BY <3>1, <3>6, <4>3 DEF IInv, OwnSlots
      <4> QED BY <3>2, <3>4, <4>2, <4>4
    <3> QED BY <3>5, <3>6
  <2>2. \A x \in Cells : ent'[index[x[1]][x[2]]] = ent[index[x[1]][x[2]]]
    BY <1>1, <1>2, <2>1
  <2>3. Cells' = Cells /\ Place' = Place
    BY <1>1, <2>2, CellsFrame
  <2> QED BY <1>1, <1>6, <2>3, CalmBack, DataFrame
<1>8. CASE ~ Calm
  BY <1>8, CalmBack DEF DataInv
<1> QED BY <1>7, <1>8

(* A run of free data blocks is allocated. *)
LEMMA AllocData ==
  ASSUME IInv, DataInv, Next, NEW t \in Threads, Alloc(t)
  PROVE  DataInv'
<1>1. PICK n \in 1 .. Cardinality(Missing(t)), p \in Data :
        /\ p .. p + n - 1 \subseteq Data \ dused
        /\ dused' = dused \union (p .. p + n - 1)
        /\ ebuf' = [ebuf EXCEPT ![t] =
             Append(@, [l |-> off[t] + len[t] - Cardinality(Missing(t)), p |-> p, n |-> n])]
  BY DEF Alloc
<1>2. pc[t] = "alloc" /\ index' = index /\ ent' = ent /\ pc' = pc /\ num' = num
  BY DEF Alloc, inode
<1> DEFINE q == [l |-> off[t] + len[t] - Cardinality(Missing(t)), p |-> p, n |-> n]
           m == Len(ebuf[t]) + 1
           h == <<t, m>>
           R == p .. p + n - 1
<1>3. q.p = p /\ q.n = n
  BY SMT
<1> HIDE DEF q
<1>4. Area(q) = R
  BY <1>3 DEF Area
<1>5. ebuf \in [Threads -> Seq(Run)]
  BY DEF IInv, Typed, WriteTyped
<1>6. ebuf'[t] = Append(ebuf[t], q) /\ \A u \in Threads \ {t} : ebuf'[u] = ebuf[u]
  BY <1>1, <1>5 DEF q
<1>7. /\ Len(ebuf[t]) \in Nat /\ Len(ebuf'[t]) = m /\ ebuf'[t][m] = q
      /\ \A i \in 1 .. Len(ebuf[t]) : ebuf'[t][i] = ebuf[t][i]
  <2>1. ebuf[t] \in Seq(Run)
    BY <1>5
  <2>2. Len(ebuf[t]) \in Nat /\ Len(Append(ebuf[t], q)) = m
        /\ \A i \in 1 .. Len(ebuf[t]) : Append(ebuf[t], q)[i] = ebuf[t][i]
    BY <2>1, SMT
  <2>3. Append(ebuf[t], q)[m] = q
    BY <2>1, SMT
  <2> QED BY <1>6, <2>2, <2>3
<1>8. num[t] = 0
  <2>1. RunsOK("alloc", off[t], len[t], ebuf[t], num[t])
    BY <1>2 DEF IInv, Runs
  <2> QED BY <2>1 DEF RunsOK
<1>9. Held(t) = 1 .. Len(ebuf[t]) /\ Held(t)' = 1 .. m
  BY <1>2, <1>7, <1>8, SMT DEF Held
<1>10. \A u \in Threads \ {t} : Held(u)' = Held(u)
  BY <1>2, <1>6 DEF Held
<1>11. /\ m \in Nat /\ m \notin Held(t)
       /\ \A i : i \in Held(t)' <=> i \in Held(t) \/ i = m
  BY <1>7, <1>9, SMT
<1> HIDE DEF m
<1>12. h \in Threads \X Nat /\ h[1] = t /\ h[2] = m /\ \A y \in Threads \X Nat :
         y[1] \in Threads /\ (y[1] = t /\ y[2] = m => y = h)
  BY <1>11, SMT
<1> HIDE DEF h, R
<1>13. h \notin Parts
  BY <1>11, <1>12 DEF Parts
<1>14. Parts' = Parts \union {h}
  <2>1. \A y \in Threads \X Nat : y[2] \in Held(y[1])' <=> y[2] \in Held(y[1]) \/ y = h
    <3> SUFFICES ASSUME NEW y \in Threads \X Nat
                 PROVE  y[2] \in Held(y[1])' <=> y[2] \in Held(y[1]) \/ y = h
      OBVIOUS
    <3>1. CASE y[1] = t
      BY <1>11, <1>12, <3>1
    <3>2. CASE y[1] # t
      BY <1>10, <1>12, <3>2
    <3> QED BY <3>1, <3>2
  <2> QED BY <1>12, <2>1 DEF Parts
<1>15. Part'[h] = R
  <2>1. h \in Parts'
    BY <1>14
  <2>2. Part'[h] = Area(ebuf'[h[1]][h[2]])
    BY <2>1 DEF Part
  <2> QED BY <1>4, <1>7, <1>12, <2>2
<1>16. ASSUME NEW k \in Parts PROVE Part'[k] = Part[k]
  <2>1. k \in Threads \X Nat /\ k[2] \in Held(k[1]) /\ k[1] \in Threads
    BY <1>12 DEF Parts
  <2>2. ebuf'[k[1]][k[2]] = ebuf[k[1]][k[2]]
    <3>1. CASE k[1] = t
      BY <1>7, <1>9, <2>1, <3>1
    <3>2. CASE k[1] # t
      BY <1>6, <2>1, <3>2
    <3> QED BY <3>1, <3>2
  <2>3. k \in Parts'
    BY <1>14
  <2> QED BY <2>2, <2>3 DEF Part
<1>17. R \intersect dused = {} /\ dused' = dused \union R
  BY <1>1 DEF R
<1>18. Cells' = Cells /\ Place' = Place
  BY <1>2, CellsFrame
<1>19. ASSUME Calm PROVE DataOK(Cells, Place, Parts \union {h}, Part', dused \union R)
  <2>1. DataOK(Cells, Place, Parts, Part, dused)
    BY <1>19 DEF DataInv
  <2> QED BY <1>13, <1>15, <1>16, <1>17, <2>1, DataAdd
<1> QED BY <1>14, <1>17, <1>18, <1>19, CalmBack DEF DataInv

(* The blocks of a run, in the order of those of the file. *)
LEMMA RunPlace ==
  ASSUME NEW r \in Run
  PROVE  /\ \A b \in Covers(r) : BlockOf(r, b) \in Area(r)
         /\ \A b, c \in Covers(r) : BlockOf(r, b) = BlockOf(r, c) => b = c
         /\ \A d \in Area(r) : \E b \in Covers(r) : BlockOf(r, b) = d
<1>1. r.l \in Nat /\ r.p \in Nat /\ r.n \in Nat
  BY SMT DEF Run
<1>2. /\ \A b \in Covers(r) : BlockOf(r, b) \in Area(r)
      /\ \A b, c \in Covers(r) : BlockOf(r, b) = BlockOf(r, c) => b = c
  BY <1>1, SMT DEF Covers, BlockOf, Area
<1>3. ASSUME NEW d \in Area(r) PROVE \E b \in Covers(r) : BlockOf(r, b) = d
  <2>1. d - r.p + r.l \in Covers(r) /\ BlockOf(r, d - r.p + r.l) = d
    BY <1>1, SMT DEF Covers, BlockOf, Area
  <2> QED BY <2>1
<1> QED BY <1>2, <1>3

(* filent_insert_callback: the entry gets its blocks, those they had are    *)
(* freed.                                                                   *)
LEMMA InsertData ==
  ASSUME IInv, IInv', DataInv, Next, NEW t \in Threads, Insert(t)
  PROVE  DataInv'
<1> DEFINE f == file[t]
           r == Cur(t)
           s == slot[t]
           h == <<t, num[t] + 1>>
           C == {x \in Files \X Blocks : x[1] = f /\ x[2] \in Covers(r)}
           F == FreedData(f, r)
<1>1. /\ pc[t] = "insert" /\ pc' = [pc EXCEPT ![t] = "store"]
      /\ index' = [index EXCEPT ![f] = [b \in Blocks |-> IF b \in Covers(r) THEN s ELSE @[b]]]
      /\ ent' = [e \in Slots |-> [ent[e] EXCEPT !.ref = @ - Lost(f, r, e)]]
      /\ dused' = dused \ F /\ ebuf' = ebuf /\ num' = num /\ slot' = slot /\ file' = file
  BY DEF Insert, Goto, args, regs, Cur
<1>2. /\ pc \in [Threads -> Busy \union {"idle", "read_size", "write_size"}]
      /\ ent \in [Slots -> [l : Nat, p : Nat, n : Nat, ts : Nat, ref : Int]]
      /\ index \in [Files -> [Blocks -> Slots \union {Null}]]
      /\ num \in [Threads -> Nat] /\ ebuf \in [Threads -> Seq(Run)]
  BY DEF IInv, Typed, WriteTyped, FileTyped
<1>3. pc'[t] = "store" /\ \A u \in Threads \ {t} : pc'[u] = pc[u]
  BY <1>1, <1>2
<1>4. r \in Run /\ Covers(r) \subseteq Blocks /\ num[t] + 1 \in DOMAIN ebuf[t]
  <2>1. pc[t] \in {"dispatch", "insert", "store"}
    BY <1>1, SMT
  <2> QED BY <2>1, CurRun
<1>5. f \in Files
  <2>1. pc[t] \in Busy
    BY <1>1, SMT DEF Busy
  <2> QED BY <2>1 DEF IInv, Locks
<1>6. s \in Slots /\ ent[s].l = r.l /\ ent[s].p = r.p
  <2>1. SlotOK("insert", s, ent[s], r, list[f], index[f], reuse[t])
    BY <1>1 DEF IInv, Slotted
  <2>2. s \in Range(list[f]) /\ ent[s].l = r.l /\ ent[s].p = r.p
    BY <2>1 DEF SlotOK
  <2>3. list[f] \in Seq(Slots)
    BY <1>5 DEF IInv, Typed, FileTyped
  <2>4. Range(list[f]) \subseteq Slots
    BY <2>3, SMT DEF Range
  <2> QED BY <2>2, <2>4
<1>7. ASSUME NEW e \in Slots PROVE ent'[e].l = ent[e].l /\ ent'[e].p = ent[e].p
  <2>1. ent[e] \in [l : Nat, p : Nat, n : Nat, ts : Nat, ref : Int]
    BY <1>2
  <2> DEFINE c == ent[e].ref - Lost(f, r, e)
  <2>2. ent'[e] = [ent[e] EXCEPT !.ref = c]
    BY <1>1
  <2> HIDE DEF c
  <2> QED BY <2>1, <2>2, SMT
<1>8. /\ \A b \in Blocks : index'[f][b] = IF b \in Covers(r) THEN s ELSE index[f][b]
      /\ \A g \in Files \ {f} : index'[g] = index[g]
  <2>1. /\ index'[f] = [b \in Blocks |-> IF b \in Covers(r) THEN s ELSE index[f][b]]
        /\ \A g \in Files \ {f} : index'[g] = index[g]
    BY <1>1, <1>2, <1>5
  <2> QED BY <2>1
<1>9. /\ h \in Threads \X Nat /\ h[1] = t /\ h[2] = num[t] + 1
      /\ \A y \in Threads \X Nat : y[1] = t /\ y[2] = num[t] + 1 => y = h
  <2>1. num[t] + 1 \in Nat
    BY <1>2, SMT
  <2> QED BY <2>1, SMT
<1>p. \A y \in Threads \X Nat : y[1] \in Threads
  BY SMT
<1>x. \A x \in Files \X Blocks : x[1] \in Files /\ x[2] \in Blocks
  BY SMT
<1>y. \A x, y \in Files \X Blocks : x[1] = y[1] /\ x[2] = y[2] => x = y
  BY SMT
<1>z. \A g \in Files, b \in Blocks :
        <<g, b>> \in Files \X Blocks /\ <<g, b>>[1] = g /\ <<g, b>>[2] = b
  BY SMT
<1> HIDE DEF f, r, s, h, C, F
<1>10. \A x : x \in C <=> x \in Files \X Blocks /\ x[1] = f /\ x[2] \in Covers(r)
  BY DEF C
<1>w. ASSUME NEW x \in Files \X Blocks, x \notin C PROVE index'[x[1]][x[2]] = index[x[1]][x[2]]
  <2>1. x[1] \in Files /\ x[2] \in Blocks
    BY <1>x
  <2>2. CASE x[1] = f
    <3>1. x[2] \notin Covers(r)
      BY <1>10, <1>w, <2>2
    <3>2. index'[f][x[2]] = index[f][x[2]]
      BY <1>8, <2>1, <3>1
    <3> QED BY <2>2, <3>2
  <2>3. CASE x[1] # f
    BY <1>8, <2>1, <2>3
  <2> QED BY <2>2, <2>3
<1>11. /\ num[t] + 1 \in Held(t)
       /\ \A i : i \in Held(t)' <=> i \in Held(t) /\ i # num[t] + 1
  <2>1. num[t] \in Nat /\ ebuf[t] \in Seq(Run)
    BY <1>2
  <2>2. num[t] + 1 <= Len(ebuf[t]) /\ Len(ebuf[t]) \in Nat
    BY <1>4, <2>1, SMT
  <2>3. Held(t) = num[t] + 1 .. Len(ebuf[t]) /\ Held(t)' = num[t] + 2 .. Len(ebuf[t])
    <3>1. "insert" # "store"
      BY SMT
    <3> QED BY <1>1, <1>3, <3>1 DEF Held
  <2> QED BY <2>1, <2>2, <2>3, SMT
<1>12. Parts' = Parts \ {h} /\ h \in Parts
  <2>1. \A u \in Threads \ {t} : Held(u)' = Held(u)
    BY <1>1, <1>3 DEF Held
  <2>2. \A y \in Threads \X Nat : y[2] \in Held(y[1])' <=> y[2] \in Held(y[1]) /\ y # h
    <3> SUFFICES ASSUME NEW y \in Threads \X Nat
                 PROVE  y[2] \in Held(y[1])' <=> y[2] \in Held(y[1]) /\ y # h
      OBVIOUS
    <3>1. CASE y[1] = t
      BY <1>9, <1>11, <3>1
    <3>2. CASE y[1] # t
      <4>1. y[1] \in Threads \ {t} /\ y # h
        BY <1>9, <1>p, <3>2
      <4> QED BY <2>1, <4>1
    <3> QED BY <3>1, <3>2
  <2>3. Parts' = Parts \ {h}
    BY <2>2 DEF Parts
  <2> QED BY <1>9, <1>11, <2>3 DEF Parts
<1>13. Part[h] = Area(r) /\ \A k \in Parts \ {h} : Part'[k] = Part[k]
  <2>1. Part[h] = Area(r)
    BY <1>9, <1>12 DEF Part, r, Cur
  <2> QED BY <1>1, <1>12, <2>1 DEF Part
<1>14. Cells' = Cells \union C
  <2>1. s # Null
    BY <1>6, NullAssumption
  <2>2. \A x \in Files \X Blocks : index'[x[1]][x[2]] # Null <=> index[x[1]][x[2]] # Null \/ x \in C
    <3> SUFFICES ASSUME NEW x \in Files \X Blocks
                 PROVE  index'[x[1]][x[2]] # Null <=> index[x[1]][x[2]] # Null \/ x \in C
      OBVIOUS
    <3>1. CASE x \in C
      <4>1. x[1] = f /\ x[2] \in Covers(r) /\ x[2] \in Blocks
        BY <1>10, <1>x, <3>1
      <4> QED BY <1>8, <2>1, <3>1, <4>1
    <3>2. CASE x \notin C
      BY <1>w, <3>2
    <3> QED BY <3>1, <3>2
  <2> QED BY <1>10, <2>2 DEF Cells
<1>15. \A x \in C : Place'[x] = BlockOf(r, x[2])
  <2> SUFFICES ASSUME NEW x \in C PROVE Place'[x] = BlockOf(r, x[2])
    OBVIOUS
  <2>1. x[1] = f /\ x[2] \in Blocks /\ index'[f][x[2]] = s /\ x \in Cells'
    BY <1>8, <1>x, <1>10, <1>14
  <2>2. Place'[x] = BlockOf(ent'[s], x[2])
    BY <2>1 DEF Place
  <2>3. ent'[s].l = r.l /\ ent'[s].p = r.p
    BY <1>6, <1>7
  <2> QED BY <2>2, <2>3 DEF BlockOf
<1>16. \A x \in Cells \ C : Place'[x] = Place[x]
  <2> SUFFICES ASSUME NEW x \in Cells \ C PROVE Place'[x] = Place[x]
    OBVIOUS
  <2>1. x \in Files \X Blocks /\ index[x[1]][x[2]] # Null /\ x \in Cells'
    BY <1>14 DEF Cells
  <2>2. index'[x[1]][x[2]] = index[x[1]][x[2]]
    BY <1>w, <2>1
  <2>3. index[x[1]][x[2]] \in Slots
    <3>1. index[x[1]] \in [Blocks -> Slots \union {Null}]
      BY <1>2, <1>x, <2>1
    <3>2. x[2] \in Blocks
      BY <1>x, <2>1
    <3> QED BY <2>1, <3>1, <3>2
  <2>4. Place'[x] = BlockOf(ent'[index'[x[1]][x[2]]], x[2]) /\ Place[x] = BlockOf(ent[index[x[1]][x[2]]], x[2])
    BY <2>1 DEF Place
  <2> QED BY <1>7, <2>2, <2>3, <2>4 DEF BlockOf
<1>17. \A d : d \in F <=> \E x \in Cells : x \in C /\ Place[x] = d
  <2>1. ASSUME NEW d \in F PROVE \E x \in Cells : x \in C /\ Place[x] = d
    <3>1. PICK b \in Covers(r) : index[f][b] # Null /\ d = BlockOf(ent[index[f][b]], b)
      BY <2>1 DEF F, FreedData
    <3>2. <<f, b>> \in Files \X Blocks /\ <<f, b>>[1] = f /\ <<f, b>>[2] = b
      BY <1>4, <1>5, <1>z
    <3>3. <<f, b>> \in Cells /\ <<f, b>> \in C
      BY <1>10, <3>1, <3>2 DEF Cells
    <3>4. Place[<<f, b>>] = d
      BY <3>1, <3>2, <3>3 DEF Place
    <3> QED BY <3>3, <3>4
  <2>2. ASSUME NEW x \in Cells, x \in C PROVE Place[x] \in F
    <3>1. x[1] = f /\ x[2] \in Covers(r) /\ index[x[1]][x[2]] # Null
      BY <1>10, <2>2 DEF Cells
    <3>2. Place[x] = BlockOf(ent[index[f][x[2]]], x[2])
      BY <2>2, <3>1 DEF Place
    <3> QED BY <3>1, <3>2 DEF F, FreedData
  <2> QED BY <2>1, <2>2
<1>18. /\ \A x \in C : Place'[x] \in Part[h]
       /\ \A x, y \in C : Place'[x] = Place'[y] => x = y
       /\ \A d \in Part[h] : \E x \in C : Place'[x] = d
  <2>1. /\ \A b \in Covers(r) : BlockOf(r, b) \in Area(r)
        /\ \A b, c \in Covers(r) : BlockOf(r, b) = BlockOf(r, c) => b = c
        /\ \A d \in Area(r) : \E b \in Covers(r) : BlockOf(r, b) = d
    BY <1>4, RunPlace
  <2>2. \A x \in C : x[2] \in Covers(r) /\ x \in Files \X Blocks /\ x[1] = f
    BY <1>10
  <2>3. \A x, y \in C : Place'[x] = Place'[y] => x = y
    <3> SUFFICES ASSUME NEW x \in C, NEW y \in C, Place'[x] = Place'[y] PROVE x = y
      OBVIOUS
    <3>1. BlockOf(r, x[2]) = BlockOf(r, y[2])
      BY <1>15
    <3>2. x[2] \in Covers(r) /\ y[2] \in Covers(r)
      BY <2>2
    <3>3. x[2] = y[2]
      BY <2>1, <3>1, <3>2
    <3>4. x[1] = y[1]
      <4>1. x[1] = f /\ y[1] = f
        BY <2>2
      <4> QED BY <4>1
    <3> QED BY <1>y, <2>2, <3>3, <3>4
  <2>4. ASSUME NEW d \in Part[h] PROVE \E x \in C : Place'[x] = d
    <3>1. PICK b \in Covers(r) : BlockOf(r, b) = d
      BY <1>13, <2>1
    <3>2. <<f, b>> \in C /\ <<f, b>>[2] = b
      BY <1>4, <1>5, <1>z, <1>10
    <3> QED BY <1>15, <3>1, <3>2
  <2>5. \A x \in C : Place'[x] \in Part[h]
    <3> SUFFICES ASSUME NEW x \in C PROVE Place'[x] \in Part[h]
      OBVIOUS
    <3>1. BlockOf(r, x[2]) \in Area(r)
      BY <2>1, <2>2
    <3> QED BY <1>13, <1>15, <3>1
  <2> QED BY <2>3, <2>4, <2>5
<1>19. ASSUME Calm PROVE DataOK(Cells \union C, Place', Parts \ {h}, Part', dused \ F)
  <2>1. DataOK(Cells, Place, Parts, Part, dused)
    BY <1>19 DEF DataInv
  <2>2. Moves(Cells, Place, Parts, Part, h, C, Place', Part', F)
    BY <1>12, <1>13, <1>16, <1>17, <1>18 DEF Moves
  <2> QED BY <2>1, <2>2, DataMove
<1> QED BY <1>1, <1>12, <1>14, <1>19, CalmBack DEF DataInv

(* Once the only file is unlinked, the marked blocks are those of the       *)
(* entries the release thread has not come to.                              *)
OneFile == \A f, g \in Files : f = g
GoneInv ==
  OneFile => \A f \in Files : life[f] # "live" =>
    /\ \A d \in dused : \E s \in Range(list[f]) : d \in Area(ent[s])
    /\ life[f] = "free" => list[f] = <<>>

(* A thread without the lock has no run to store. *)
LEMMA NoneHeld ==
  ASSUME IInv, NEW t \in Threads, pc[t] \notin Busy
  PROVE  Held(t) = {}
<1>1. /\ pc[t] \in Busy \union {"idle", "read_size", "write_size"}
      /\ num[t] \in Nat /\ ebuf[t] \in Seq(Run)
  BY DEF IInv, Typed, WriteTyped
<1>2. pc[t] \in {"unlock", "read_size", "write_size", "idle"} /\ pc[t] # "store"
  BY <1>1, SMT DEF Busy
<1>3. num[t] = Len(ebuf[t])
  BY <1>2 DEF IInv, Runs, RunsOK
<1>4. Len(ebuf[t]) \in Nat
  BY <1>1, SMT
<1> QED BY <1>2, <1>3, <1>4, SMT DEF Held

(* When the only file is unlinked every marked block is in one of its       *)
(* entries, ...                                                             *)
LEMMA UnlinkGone ==
  ASSUME IInv, DataInv, OneFile, NEW f \in Files, Unlink(f)
  PROVE  GoneInv'
<1>1. /\ life' = [life EXCEPT ![f] = "releasing"] /\ life[f] = "live" /\ dused' = dused
      /\ list' = list /\ ent' = ent
      /\ \A t \in Threads : pc[t] = "idle" \/ file[t] # f
  BY DEF Unlink, maps
<1>2. Calm /\ \A g \in Files : g = f
  BY <1>1 DEF Calm, OneFile
<1>3. life'[f] = "releasing"
  BY <1>1 DEF IInv, Typed, FileTyped
<1>4. \A t \in Threads : Held(t) = {}
  <2> SUFFICES ASSUME NEW t \in Threads PROVE Held(t) = {}
    OBVIOUS
  <2>1. pc[t] \notin Busy
    <3>1. "idle" \notin Busy
      BY SMT DEF Busy
    <3> QED BY <1>1, <1>2, <3>1 DEF IInv, Locks
  <2> QED BY <2>1, NoneHeld
<1>5. DataOK(Cells, Place, Parts, Part, dused)
  BY <1>2 DEF DataInv
<1>6. ASSUME NEW d \in dused PROVE \E s \in Range(list[f]) : d \in Area(ent[s])
  <2>1. Parts = {}
    <3>1. \A y \in Threads \X Nat : y[1] \in Threads
      BY SMT
    <3> QED BY <1>4, <3>1 DEF Parts
  <2>2. PICK x \in Cells : Place[x] = d
    BY <1>5, <2>1 DEF DataOK
  <2>3. x[1] = f /\ x[2] \in Blocks /\ index[x[1]][x[2]] # Null
    <3>1. x[1] \in Files /\ x[2] \in Blocks /\ index[x[1]][x[2]] # Null
      BY SMT DEF Cells
    <3> QED BY <1>2, <3>1
  <2> DEFINE s == index[f][x[2]]
  <2>4. s \in Range(list[f]) /\ x[2] \in Covers(ent[s])
    BY <1>1, <2>3 DEF IInv, RefOf, RefOK
  <2>5. d = BlockOf(ent[s], x[2])
    BY <2>2, <2>3 DEF Place
  <2> HIDE DEF s
  <2>6. s \in Slots
    <3>1. list[f] \in Seq(Slots)
      BY DEF IInv, Typed, FileTyped
    <3> QED BY <2>4, <3>1, SMT DEF Range
  <2>7. ent[s] \in [l : Nat, p : Nat, n : Nat, ts : Nat, ref : Int]
    BY <2>6 DEF IInv, Typed, FileTyped
  <2>8. d \in Area(ent[s])
    BY <2>4, <2>5, <2>7, SMT DEF Covers, BlockOf, Area
  <2> QED BY <2>4, <2>8
<1>7. "releasing" # "free"
  BY SMT
<1> QED BY <1>1, <1>2, <1>3, <1>6, <1>7 DEF GoneInv

(* ... and do_inode_release frees the blocks of every entry it takes off.   *)
LEMMA GoneStep ==
  ASSUME IInv, DataInv, GoneInv, OneFile, Next
  PROVE  GoneInv'
<1>1. ASSUME NEW t \in Threads, inode_write_atomic(t) PROVE GoneInv'
  <2>1. CASE \E f \in Files : life[f] # "live"
    <3>1. \A f \in Files : life[f] # "live"
      BY <2>1 DEF OneFile
    <3>2. pc[t] \notin Busy
      BY <3>1 DEF IInv, Locks
    <3>3. /\ "alloc" \in Busy /\ "write_ts" \in Busy /\ "dispatch" \in Busy /\ "insert" \in Busy
          /\ "store" \in Busy /\ "unlock" \in Busy
      BY DEF Busy
    <3>4. ReadSize(t) \/ WriteSize(t)
      <4>1. ~ WriteBegin(t)
        BY <3>1 DEF WriteBegin
      <4>2. ~ Alloc(t) /\ ~ ReadTs(t)
        BY <3>2, <3>3 DEF Alloc, ReadTs
      <4>3. ~ WriteTs(t) /\ ~ Dispatch(t) /\ ~ Insert(t) /\ ~ Store(t) /\ ~ Unlock(t)
        BY <3>2, <3>3 DEF WriteTs, Dispatch, Insert, Store, Unlock
      <4> QED BY <1>1, <4>1, <4>2, <4>3 DEF inode_write_atomic
    <3>5. life' = life /\ list' = list /\ ent' = ent /\ dused' = dused
      BY <3>4 DEF ReadSize, WriteSize, inode, maps
    <3> QED BY <3>5 DEF GoneInv
  <2>2. CASE \A f \in Files : life[f] = "live"
    <3>1. life' = life
      BY <1>1 DEF inode_write_atomic, WriteBegin, Alloc, ReadTs, WriteTs, Dispatch, Insert, Store,
         Unlock, ReadSize, WriteSize, inode
    <3> QED BY <2>2, <3>1 DEF GoneInv
  <2> QED BY <2>1, <2>2
<1>2. ASSUME NEW f \in Files, ReleaseEntry(f) PROVE GoneInv'
  <2> DEFINE s == Head(list[f])
  <2>1. /\ life[f] = "releasing" /\ list[f] # <<>> /\ life' = life /\ ent' = ent
        /\ dused' = dused \ (ent[s].p .. ent[s].p + ent[s].n - 1)
        /\ list' = [list EXCEPT ![f] = Tail(@)]
    BY <1>2 DEF ReleaseEntry
  <2>2. "releasing" # "live" /\ "releasing" # "free"
    BY SMT
  <2>3. \A d \in dused : \E e \in Range(list[f]) : d \in Area(ent[e])
    BY <2>1, <2>2 DEF GoneInv
  <2>4. list[f] \in Seq(Slots) /\ IsInjective(list[f])
    BY DEF IInv, Typed, FileTyped, OwnSlots
  <2>5. Range(Tail(list[f])) = Range(list[f]) \ {s}
    BY <2>1, <2>4, RangeTail
  <2> HIDE DEF s
  <2>6. \A d \in dused' : \E e \in Range(Tail(list[f])) : d \in Area(ent[e])
    BY <2>1, <2>3, <2>5 DEF Area
  <2>7. list'[f] = Tail(list[f])
    BY <2>1 DEF IInv, Typed, FileTyped
  <2>8. \A g \in Files : g = f
    BY DEF OneFile
  <2> QED BY <2>1, <2>2, <2>6, <2>7, <2>8 DEF GoneInv
<1>3. ASSUME NEW f \in Files, ReleaseEnd(f) PROVE GoneInv'
  <2>1. life[f] = "releasing" /\ list[f] = <<>> /\ list' = list /\ ent' = ent /\ dused' = dused
    BY <1>3 DEF ReleaseEnd, maps
  <2>2. "releasing" # "live"
    BY SMT
  <2>3. \A g \in Files : g = f
    BY DEF OneFile
  <2> QED BY <2>1, <2>2, <2>3 DEF GoneInv
<1>4. ASSUME NEW f \in Files, Unlink(f) PROVE GoneInv'
  BY <1>4, UnlinkGone
<1> QED BY <1>1, <1>2, <1>3, <1>4 DEF Next

(* A file system without data has no data block in use. *)
LEMMA InitData ==
  ASSUME Init
  PROVE  DataInv /\ GoneInv /\ Calm
<1>1. Cells = {}
  <2>1. \A x \in Files \X Blocks : index[x[1]][x[2]] = Null
    <3>1. \A x \in Files \X Blocks : x[1] \in Files /\ x[2] \in Blocks
      BY SMT
    <3> QED BY <3>1 DEF Init
  <2> QED BY <2>1 DEF Cells
<1>2. Parts = {}
  <2>1. \A t \in Threads : Held(t) = {}
    <3> SUFFICES ASSUME NEW t \in Threads PROVE Held(t) = {}
      OBVIOUS
    <3>1. pc[t] = "idle" /\ num[t] = 0 /\ ebuf[t] = <<>>
      BY DEF Init
    <3> QED BY <3>1, SMT DEF Held
  <2>2. \A y \in Threads \X Nat : y[1] \in Threads
    BY SMT
  <2> QED BY <2>1, <2>2 DEF Parts
<1>3. dused = {} /\ \A f \in Files : life[f] = "live"
  BY DEF Init
<1>4. DataInv
  BY <1>1, <1>2, <1>3 DEF DataInv, DataOK
<1>5. GoneInv
  BY <1>3 DEF GoneInv
<1> QED BY <1>3, <1>4, <1>5 DEF Calm

(* A file is unlinked, or has been. *)
LEMMA Gone ==
  ASSUME IInv, NEW f \in Files, Unlink(f) \/ ReleaseEntry(f) \/ ReleaseEnd(f)
  PROVE  ~ Calm'
<1>1. life \in [Files -> {"live", "releasing", "free"}]
  BY DEF IInv, Typed, FileTyped
<1>2. "releasing" # "live" /\ "free" # "live"
  BY SMT
<1>3. life'[f] \in {"releasing", "free"}
  BY <1>1 DEF Unlink, ReleaseEntry, ReleaseEnd
<1> QED BY <1>2, <1>3 DEF Calm

(* Every step keeps what the data blocks are used for. *)
LEMMA DataStep ==
  ASSUME IInv, IInv', DataInv, Next
  PROVE  DataInv'
<1>1. ASSUME NEW t \in Threads, inode_write_atomic(t) PROVE DataInv'
  <2>1. ASSUME WriteBegin(t) \/ ReadTs(t) \/ WriteTs(t) \/ Store(t) \/ Unlock(t) \/ ReadSize(t)
        PROVE  DataInv'
    BY <2>1, QuietSteps
  <2>2. ASSUME Alloc(t) PROVE DataInv'
    BY <2>2, AllocData
  <2>3. ASSUME Dispatch(t) PROVE DataInv'
    BY <2>3, DispatchData
  <2>4. ASSUME Insert(t) PROVE DataInv'
    BY <2>4, InsertData
  <2>5. ASSUME WriteSize(t) PROVE DataInv'
    BY <2>5, WriteSizeData
  <2> QED BY <1>1, <2>1, <2>2, <2>3, <2>4, <2>5 DEF inode_write_atomic
<1>2. ASSUME NEW f \in Files, Unlink(f) \/ ReleaseEntry(f) \/ ReleaseEnd(f) PROVE DataInv'
  BY <1>2, Gone DEF DataInv
<1> QED BY <1>1, <1>2 DEF Next

(* What the theorem about the data blocks rests on. *)
BInv == IInv /\ DataInv /\ GoneInv /\ (MayRelease \/ Calm)

(* It is kept by every step, ... *)
LEMMA BlocksStep ==
  ASSUME BInv, IInv', Next
  PROVE  BInv'
<1>1. DataInv'
  BY DataStep DEF BInv
<1>2. GoneInv'
  <2>1. CASE OneFile
    BY <2>1, GoneStep DEF BInv
  <2>2. CASE ~ OneFile
    BY <2>2 DEF GoneInv, OneFile
  <2> QED BY <2>1, <2>2
<1>3. (MayRelease \/ Calm)'
  <2> SUFFICES ASSUME ~ MayRelease PROVE Calm'
    OBVIOUS
  <2>1. Calm
    BY DEF BInv
  <2>2. ASSUME NEW t \in Threads, inode_write_atomic(t) PROVE life' = life
    BY <2>2 DEF inode_write_atomic, WriteBegin, Alloc, ReadTs, WriteTs, Dispatch, Insert, Store,
       Unlock, ReadSize, WriteSize, inode
  <2>3. ASSUME NEW f \in Files, Unlink(f) \/ ReleaseEntry(f) \/ ReleaseEnd(f) PROVE FALSE
    <3>1. life[f] = "live" /\ "releasing" # "live"
      BY <2>1, SMT DEF Calm
    <3> QED BY <2>3, <3>1 DEF Unlink, ReleaseEntry, ReleaseEnd
  <2> QED BY <2>1, <2>2, <2>3 DEF Next, Calm
<1> QED BY <1>1, <1>2, <1>3 DEF BInv

(* ... and by a step of something else, ... *)
LEMMA BlocksStutter ==
  ASSUME BInv, IInv', UNCHANGED vars
  PROVE  BInv'
<1>1. /\ index' = index /\ ent' = ent /\ dused' = dused /\ life' = life /\ list' = list
      /\ pc' = pc /\ num' = num /\ ebuf' = ebuf
  BY DEF vars
<1>2. Calm' = Calm /\ Cells' = Cells /\ Place' = Place
  BY <1>1 DEF Calm, Cells, Place
<1>3. Parts' = Parts /\ Part' = Part
  BY <1>1 DEF Parts, Part, Held
<1>4. DataInv'
  BY <1>1, <1>2, <1>3 DEF BInv, DataInv
<1>5. GoneInv'
  BY <1>1 DEF BInv, GoneInv
<1> QED BY <1>2, <1>4, <1>5 DEF BInv

(* ... and says what the theorem says. *)
LEMMA BlocksFollow ==
  ASSUME BInv, Calm \/ OneFile \/ ~ MayRelease
  PROVE  BlocksExact
<1> DEFINE used == {x \in Live \X Blocks : index[x[1]][x[2]] # Null}
           at(x) == BlockOf(ent[index[x[1]][x[2]]], x[2])
           held(t) == UNION {ebuf[t][i].p .. ebuf[t][i].p + ebuf[t][i].n - 1 :
                          i \in (IF pc[t] = "store" THEN num[t] + 2 ELSE num[t] + 1) .. Len(ebuf[t])}
<1> SUFFICES ASSUME \A f \in Files : life[f] # "releasing"
             PROVE  /\ \A x, y \in used : at(x) = at(y) => x = y
                    /\ dused = {at(x) : x \in used} \union UNION {held(t) : t \in Threads}
  BY DEF BlocksExact
<1>1. CASE Calm
  <2>1. DataOK(Cells, Place, Parts, Part, dused)
    BY <1>1 DEF BInv, DataInv
  <2>2. Live = Files
    BY <1>1 DEF Calm, Live
  <2>3. used = Cells
    BY <2>2 DEF Cells
  <2>4. \A x \in used : at(x) = Place[x]
    BY <2>3 DEF Place
  <2>5. \A t \in Threads : \A d : d \in held(t) <=> \E i \in Held(t) : d \in Area(ebuf[t][i])
    BY DEF Held, Area
  <2> HIDE DEF used, at, held
  <2>6. \A d : (\E t \in Threads : d \in held(t)) <=> \E y \in Parts : d \in Part[y]
    <3>1. \A t \in Threads : Held(t) \subseteq Nat
      <4> SUFFICES ASSUME NEW t \in Threads PROVE Held(t) \subseteq Nat
        OBVIOUS
      <4>1. num[t] \in Nat /\ ebuf[t] \in Seq(Run)
        BY DEF BInv, IInv, Typed, WriteTyped
      <4>2. Len(ebuf[t]) \in Nat
        BY <4>1, SMT
      <4> QED BY <4>1, <4>2, SMT DEF Held
    <3>2. ASSUME NEW d, NEW t \in Threads, d \in held(t) PROVE \E y \in Parts : d \in Part[y]
      <4>1. PICK i \in Held(t) : d \in Area(ebuf[t][i])
        BY <2>5, <3>2
      <4> DEFINE y == <<t, i>>
      <4>2. y \in Threads \X Nat /\ y[1] = t /\ y[2] = i
        BY <3>1
      <4> HIDE DEF y
      <4>3. y \in Parts
        BY <4>2 DEF Parts
      <4>4. d \in Part[y]
        BY <4>1, <4>2, <4>3 DEF Part
      <4> QED BY <4>3, <4>4
    <3>3. ASSUME NEW d, NEW y \in Parts, d \in Part[y] PROVE \E t \in Threads : d \in held(t)
      <4>1. y[1] \in Threads /\ y[2] \in Held(y[1])
        BY SMT DEF Parts
      <4>2. d \in Area(ebuf[y[1]][y[2]])
        BY <3>3 DEF Part
      <4> QED BY <2>5, <4>1, <4>2
    <3> QED BY <3>2, <3>3
  <2>7. \A x, y \in used : at(x) = at(y) => x = y
    <3>1. \A x, y \in Cells : Place[x] = Place[y] => x = y
      BY <2>1 DEF DataOK
    <3> SUFFICES ASSUME NEW x \in used, NEW y \in used, at(x) = at(y) PROVE x = y
      OBVIOUS
    <3>2. Place[x] = Place[y]
      BY <2>4
    <3> QED BY <2>3, <3>1, <3>2
  <2>8. \A d : d \in dused <=> (\E x \in used : at(x) = d) \/ \E t \in Threads : d \in held(t)
    <3>1. \A d \in dused : (\E x \in used : at(x) = d) \/ \E t \in Threads : d \in held(t)
      BY <2>1, <2>3, <2>4, <2>6 DEF DataOK
    <3>2. \A x \in used : at(x) \in dused
      BY <2>1, <2>3, <2>4 DEF DataOK
    <3>3. \A d : (\E t \in Threads : d \in held(t)) => d \in dused
      <4>1. \A y \in Parts : Part[y] \subseteq dused
        BY <2>1 DEF DataOK
      <4> QED BY <2>6, <4>1
    <3> QED BY <3>1, <3>2, <3>3
  <2>9. dused = {at(x) : x \in used} \union UNION {held(t) : t \in Threads}
    BY <2>8
  <2> QED BY <2>7, <2>9
<1>2. CASE ~ Calm
  <2>1. OneFile
    BY <1>2 DEF BInv
  <2>2. PICK f \in Files : life[f] # "live"
    BY <1>2 DEF Calm
  <2>3. life[f] = "free" /\ \A g \in Files : g = f
    <3>1. life[f] \in {"live", "releasing", "free"}
      BY DEF BInv, IInv, Typed, FileTyped
    <3> QED BY <2>1, <2>2, <3>1 DEF OneFile
  <2>4. list[f] = <<>> /\ \A d \in dused : \E s \in Range(list[f]) : d \in Area(ent[s])
    BY <2>1, <2>2, <2>3 DEF BInv, GoneInv
  <2>5. dused = {}
    <3>1. Range(<<>>) = {}
      BY SMT DEF Range
    <3> QED BY <2>4, <3>1
  <2>6. used = {}
    <3>1. Live = {}
      BY <2>2, <2>3 DEF Live
    <3>2. \A x \in Live \X Blocks : x[1] \in Live
      BY SMT
    <3> QED BY <3>1, <3>2
  <2>7. \A t \in Threads : held(t) = {}
    <3> SUFFICES ASSUME NEW t \in Threads PROVE held(t) = {}
      OBVIOUS
    <3>1. pc[t] \notin Busy
      BY <2>2, <2>3 DEF BInv, IInv, Locks
    <3>2. Held(t) = {}
      BY <3>1, NoneHeld DEF BInv
    <3> QED BY <3>2 DEF Held
  <2> HIDE DEF used, at, held
  <2>8. \A x, y \in used : at(x) = at(y) => x = y
    BY <2>6
  <2>9. dused = {at(x) : x \in used} \union UNION {held(t) : t \in Threads}
    BY <2>5, <2>6, <2>7
  <2> QED BY <2>8, <2>9
<1> QED BY <1>1, <1>2
=============================================================================
