---------------------------- MODULE FileLogSafe ----------------------------
(***************************************************************************)
(* What a crash finds of the log of regular files: the chain of entries in *)
(* PM, their contents and time stamps (CInv), what recovery makes of them, *)
(* and the theorems about the log.                                         *)
(***************************************************************************)
EXTENDS FileLogProofs

(* Leaves are for Zenon, but for those that say otherwise. *)
USE Zenon

(* The log of file f in PM: an entry that is being appended is in the slot  *)
(* that is still the ghost slot there.                                      *)
Adds(f) == \E t \in In(f, {"insert", "store"}) : ~ reuse[t]
Log(f)  == IF Adds(f) THEN list[f] ELSE Append(list[f], ghost[f])

(* The slots L are those one comes to from h on, along the next fields of P. *)
LinkOK(L, h, P) ==
  /\ L \in Seq(Slots) /\ L # <<>> /\ L[1] = h
  /\ \A i \in 1 .. Len(L) - 1 : P[L[i]].next = L[i + 1]
  /\ P[L[Len(L)]].next = Null
PmTyped == pent \in [Slots -> [l : Nat, p : Nat, n : Nat, ts : Nat, next : Slots \union {Null}]]
LinkInv ==
  Calm => /\ \A f \in Files : LinkOK(Log(f), phead[f], pent)
          /\ \A f \in Files : pent[ghost[f]].next = Null
          /\ \A s \in Slots \ sused : pent[s].next = Null

(* Only the next fields of the log's slots matter. *)
LEMMA LinkFrame ==
  ASSUME NEW L, NEW h, NEW P, NEW Q, LinkOK(L, h, P),
         \A s \in Range(L) : Q[s].next = P[s].next
  PROVE  LinkOK(L, h, Q)
<1>1. L \in Seq(Slots) /\ L # <<>> /\ L[1] = h
  BY DEF LinkOK
<1>2. /\ Len(L) \in DOMAIN L
      /\ \A i \in 1 .. Len(L) - 1 : i \in DOMAIN L
  BY <1>1, SMT
<1>3. \A i \in DOMAIN L : L[i] \in Range(L)
  BY DEF Range
<1>4. \A i \in 1 .. Len(L) - 1 : Q[L[i]].next = L[i + 1]
  BY <1>2, <1>3 DEF LinkOK
<1>5. Q[L[Len(L)]].next = Null
  BY <1>2, <1>3 DEF LinkOK
<1> QED BY <1>1, <1>4, <1>5 DEF LinkOK

(* The last slot of the log gets an entry, whose next is the new ghost slot. *)
LEMMA LinkAppend ==
  ASSUME NEW L, NEW h, NEW P, NEW Q, NEW g \in Slots, LinkOK(L, h, P), IsInjective(L),
         Q[L[Len(L)]].next = g, Q[g].next = Null,
         \A s \in Slots : s # L[Len(L)] => Q[s].next = P[s].next
  PROVE  LinkOK(Append(L, g), h, Q)
<1> DEFINE M == Append(L, g)
           n == Len(L)
<1>1. L \in Seq(Slots) /\ L # <<>> /\ L[1] = h
  BY DEF LinkOK
<1>2. n \in Nat \ {0} /\ DOMAIN L = 1 .. n
  BY <1>1, SMT
<1>3. M \in Seq(Slots) /\ Len(M) = n + 1 /\ M[n + 1] = g /\ \A i \in 1 .. n : M[i] = L[i]
  BY <1>1, SMT
<1>4. M # <<>> /\ M[1] = h
  BY <1>1, <1>2, <1>3, SMT
<1> HIDE DEF M, n
<1>5. ASSUME NEW i \in 1 .. Len(M) - 1 PROVE Q[M[i]].next = M[i + 1]
  <2>1. i \in 1 .. n /\ M[i] = L[i]
    BY <1>2, <1>3, SMT
  <2>2. CASE i = n
    BY <1>3, <2>1, <2>2 DEF n
  <2>3. CASE i # n
    <3>1. i \in 1 .. n - 1 /\ i + 1 \in 1 .. n /\ n \in 1 .. n
      BY <1>2, <2>1, <2>3, SMT
    <3>2. L[i] \in Slots
      BY <1>1, <1>2, <2>1, SMT
    <3>3. L[i] # L[n]
      BY <1>2, <2>1, <2>3, <3>1 DEF IsInjective
    <3>4. Q[L[i]].next = P[L[i]].next
      BY <3>2, <3>3 DEF n
    <3>5. P[L[i]].next = L[i + 1]
      BY <3>1 DEF LinkOK, n
    <3> QED BY <1>3, <2>1, <3>1, <3>4, <3>5
  <2> QED BY <2>2, <2>3
<1>6. Q[M[Len(M)]].next = Null
  BY <1>3
<1> QED BY <1>1, <1>3, <1>4, <1>5, <1>6 DEF LinkOK, M

(* The slots of a log, each once. *)
LEMMA LogSlots ==
  ASSUME IInv, NEW f \in Files
  PROVE  /\ Log(f) \in Seq(Slots) /\ IsInjective(Log(f))
         /\ Range(Log(f)) \subseteq Range(list[f]) \union {ghost[f]}
<1>1. /\ list[f] \in Seq(Slots) /\ IsInjective(list[f])
      /\ ghost[f] \in Slots /\ ghost[f] \notin Range(list[f])
  BY DEF IInv, Typed, FileTyped, OwnSlots
<1>2. /\ Append(list[f], ghost[f]) \in Seq(Slots) /\ IsInjective(Append(list[f], ghost[f]))
      /\ Range(Append(list[f], ghost[f])) = Range(list[f]) \union {ghost[f]}
  BY <1>1, AppendSlot
<1>3. CASE Adds(f)
  BY <1>1, <1>3 DEF Log
<1>4. CASE ~ Adds(f)
  BY <1>2, <1>4 DEF Log
<1> QED BY <1>3, <1>4

(* The log of a file no entry is appended to. *)
LEMMA LogSame ==
  ASSUME NEW f, list'[f] = list[f], ghost'[f] = ghost[f],
         \A u \in Threads : (pc'[u] \in {"insert", "store"} /\ file'[u] = f /\ ~ reuse'[u])
                              <=> (pc[u] \in {"insert", "store"} /\ file[u] = f /\ ~ reuse[u])
  PROVE  Log(f)' = Log(f)
<1>1. Adds(f)' <=> Adds(f)
  BY DEF Adds, In
<1> QED BY <1>1 DEF Log

(* The steps that neither begin nor end the adding of an entry. *)
LEMMA LinkQuiet ==
  ASSUME IInv, LinkInv, PmTyped, Next, pent' = pent, phead' = phead, list' = list, ghost' = ghost,
         sused' = sused,
         \A u \in Threads : pc'[u] \in {"insert", "store"} <=> pc[u] \in {"insert", "store"},
         \A u \in Threads : pc[u] \in {"insert", "store"} => file'[u] = file[u] /\ reuse'[u] = reuse[u]
  PROVE  LinkInv' /\ PmTyped'
<1>1. \A f \in Files : Log(f)' = Log(f)
  <2> SUFFICES ASSUME NEW f \in Files PROVE Log(f)' = Log(f)
    OBVIOUS
  <2>1. \A u \in Threads : (pc'[u] \in {"insert", "store"} /\ file'[u] = f /\ ~ reuse'[u])
                              <=> (pc[u] \in {"insert", "store"} /\ file[u] = f /\ ~ reuse[u])
    OBVIOUS
  <2> QED BY <2>1, LogSame
<1>2. Calm' => Calm
  BY CalmBack
<1>3. LinkInv'
  BY <1>1, <1>2 DEF LinkInv
<1> QED BY <1>3 DEF PmTyped

(* (Those of a write.) *)
LEMMA LinkQuietSteps ==
  ASSUME IInv, LinkInv, PmTyped, Next, NEW t \in Threads,
         \/ WriteBegin(t) \/ Alloc(t) \/ ReadTs(t) \/ WriteTs(t) \/ Insert(t) \/ Unlock(t)
         \/ ReadSize(t) \/ WriteSize(t)
  PROVE  LinkInv' /\ PmTyped'
<1> DEFINE IS == {"insert", "store"}
<1>1. pc \in [Threads -> Busy \union {"idle", "read_size", "write_size"}]
  BY DEF IInv, Typed, WriteTyped
<1>2. /\ "idle" \notin IS /\ "alloc" \notin IS /\ "write_ts" \notin IS /\ "dispatch" \notin IS
      /\ "unlock" \notin IS /\ "read_size" \notin IS /\ "write_size" \notin IS
      /\ "insert" \in IS /\ "store" \in IS
  BY SMT
<1>3. CASE WriteBegin(t) \/ ReadTs(t) \/ WriteTs(t) \/ Unlock(t) \/ ReadSize(t) \/ WriteSize(t)
  <2>1. /\ pent' = pent /\ phead' = phead /\ list' = list /\ ghost' = ghost /\ sused' = sused
        /\ pc[t] \notin IS
        /\ \E q : q \notin IS /\ pc' = [pc EXCEPT ![t] = q]
    <3>1. ASSUME WriteBegin(t) PROVE <2>1!:
      BY <3>1, <1>2 DEF WriteBegin, Goto, inode, maps, pm
    <3>2. ASSUME ReadTs(t) \/ WriteTs(t) PROVE <2>1!:
      BY <3>2, <1>2 DEF ReadTs, WriteTs, Goto, inode, maps, pm
    <3>3. ASSUME Unlock(t) \/ ReadSize(t) PROVE <2>1!:
      BY <3>3, <1>2 DEF Unlock, ReadSize, Goto, inode, maps, pm
    <3>4. ASSUME WriteSize(t) PROVE <2>1!:
      BY <3>4, <1>2 DEF WriteSize, Return, Goto, inode, maps, pm
    <3> QED BY <1>3, <3>1, <3>2, <3>3, <3>4
  <2>2. \A u \in Threads \ {t} : file'[u] = file[u] /\ reuse'[u] = reuse[u]
    <3>1. file \in [Threads -> Files \union {Null}] /\ reuse \in [Threads -> BOOLEAN]
      BY DEF IInv, Typed, WriteTyped
    <3>2. /\ \/ file' = file
             \/ \E v : file' = [file EXCEPT ![t] = v]
          /\ reuse' = reuse \/ \E v : reuse' = [reuse EXCEPT ![t] = v]
      <4>1. ASSUME WriteBegin(t) PROVE <3>2!:
        BY <4>1 DEF WriteBegin, regs
      <4>2. ASSUME ReadTs(t) \/ WriteTs(t) \/ Unlock(t) \/ ReadSize(t) PROVE <3>2!:
        BY <4>2 DEF ReadTs, WriteTs, Unlock, ReadSize, args, regs
      <4>3. ASSUME WriteSize(t) PROVE <3>2!:
        BY <4>3 DEF WriteSize, Return
      <4> QED BY <1>3, <4>1, <4>2, <4>3
    <3> QED BY <3>1, <3>2
  <2>3. \A u \in Threads : pc'[u] \in IS <=> pc[u] \in IS
    BY <1>1, <2>1
  <2>4. \A u \in Threads : pc[u] \in IS => file'[u] = file[u] /\ reuse'[u] = reuse[u]
    BY <2>1, <2>2
  <2> QED BY <2>1, <2>3, <2>4, LinkQuiet
<1>4. CASE Alloc(t) \/ Insert(t)
  <2>1. /\ pent' = pent /\ phead' = phead /\ list' = list /\ ghost' = ghost /\ sused' = sused
        /\ file' = file /\ reuse' = reuse
        /\ \/ pc' = pc
           \/ pc[t] = "insert" /\ pc' = [pc EXCEPT ![t] = "store"]
    <3>1. ASSUME Alloc(t) PROVE <2>1!:
      BY <3>1 DEF Alloc, inode, pm, args
    <3>2. ASSUME Insert(t) PROVE <2>1!:
      BY <3>2 DEF Insert, Goto, pm, args, regs
    <3> QED BY <1>4, <3>1, <3>2
  <2>2. \A u \in Threads : pc'[u] \in IS <=> pc[u] \in IS
    BY <1>1, <1>2, <2>1
  <2> QED BY <2>1, <2>2, LinkQuiet
<1> QED BY <1>3, <1>4

(* file_append_entry: what was the ghost slot in DRAM still is it in PM. *)
LEMMA DispatchLog ==
  ASSUME IInv, NEW t \in Threads, Dispatch(t)
  PROVE  /\ \A g \in Files : Log(g)' = Log(g)
         /\ \A g \in Files : ghost'[g] = ghost[g] \/ ghost'[g] \in Slots \ sused
         /\ \A g \in Files : g # file[t] => list'[g] = list[g]
         /\ sused \subseteq sused'
<1> DEFINE f == file[t]
           IS == {"insert", "store"}
<1>1. /\ pc[t] = "dispatch" /\ pc' = [pc EXCEPT ![t] = "insert"] /\ file' = file
      /\ pent' = pent /\ phead' = phead /\ life' = life
      /\ \E o : reuse' = [reuse EXCEPT ![t] = o]
  BY DEF Dispatch, Goto, args, pm
<1>2. /\ "dispatch" \in Busy /\ "insert" \in Busy /\ "store" \in Busy
      /\ "dispatch" \notin IS /\ "insert" \in IS
  BY SMT DEF Busy
<1>3. /\ f \in Files /\ life[f] = "live"
      /\ pc \in [Threads -> Busy \union {"idle", "read_size", "write_size"}]
      /\ reuse \in [Threads -> BOOLEAN]
      /\ list \in [Files -> Seq(Slots)] /\ ghost \in [Files -> Slots]
  BY <1>1, <1>2 DEF IInv, Locks, Typed, WriteTyped, FileTyped
<1>4. \A u \in Threads \ {t} : pc'[u] = pc[u] /\ reuse'[u] = reuse[u] /\ file'[u] = file[u]
  BY <1>1, <1>3
<1>9. pc'[t] = "insert"
  BY <1>1, <1>3
<1>10. CASE reuse'[t]
  <2>1. list' = list /\ ghost' = ghost /\ sused' = sused
    <3>1. reuse'[t] = (Overwrites(f, ebuf[t][num[t] + 1].n) /\ invalid[f] # <<>>)
      BY <1>3 DEF Dispatch
    <3> QED BY <1>10, <3>1 DEF Dispatch
  <2>2. ASSUME NEW g \in Files PROVE Log(g)' = Log(g)
    <3>1. \A u \in Threads : (pc'[u] \in IS /\ file'[u] = g /\ ~ reuse'[u])
                              <=> (pc[u] \in IS /\ file[u] = g /\ ~ reuse[u])
      BY <1>1, <1>2, <1>4, <1>10
    <3> QED BY <2>1, <3>1, LogSame
  <2> QED BY <2>1, <2>2
<1>11. CASE ~ reuse'[t]
  <2>1. /\ list' = [list EXCEPT ![f] = Append(@, ghost[f])]
        /\ \E g \in Slots \ sused : ghost' = [ghost EXCEPT ![f] = g] /\ sused' = sused \union {g}
    <3>1. reuse'[t] = (Overwrites(f, ebuf[t][num[t] + 1].n) /\ invalid[f] # <<>>)
      BY <1>3 DEF Dispatch
    <3> QED BY <1>11, <3>1 DEF Dispatch
  <2>2. PICK k \in Slots \ sused : ghost' = [ghost EXCEPT ![f] = k] /\ sused' = sused \union {k}
    BY <2>1
  <2>3. ASSUME NEW g \in Files, g # f PROVE Log(g)' = Log(g)
    <3>1. \A u \in Threads : (pc'[u] \in IS /\ file'[u] = g /\ ~ reuse'[u])
                              <=> (pc[u] \in IS /\ file[u] = g /\ ~ reuse[u])
      BY <1>1, <1>4, <2>3
    <3>2. list'[g] = list[g] /\ ghost'[g] = ghost[g]
      BY <1>3, <2>1, <2>2, <2>3
    <3> QED BY <3>1, <3>2, LogSame
  <2>4. Log(f)' = Log(f)
    <3>1. ~ Adds(f)
      <4>1. \A u \in Threads : pc[u] \in IS /\ file[u] = f => FALSE
        BY <1>1, <1>2, OneWriter
      <4> QED BY <4>1 DEF Adds, In
    <3>2. f' = f
      BY <1>1
    <3>3. \E u \in Threads : pc'[u] \in IS /\ file'[u] = f /\ ~ reuse'[u]
      BY <1>1, <1>2, <1>9, <1>11
    <3>4. \A x : x = f => Adds(x)'
      BY <3>3 DEF Adds, In
    <3>5. list'[f] = Append(list[f], ghost[f])
      BY <1>3, <2>1
    <3> QED BY <3>1, <3>2, <3>4, <3>5 DEF Log
  <2>5. \A g \in Files : Log(g)' = Log(g)
    BY <1>1, <2>3, <2>4
  <2>6. \A g \in Files : ghost'[g] = ghost[g] \/ ghost'[g] \in Slots \ sused
    BY <1>3, <2>2
  <2>7. \A g \in Files : g # f => list'[g] = list[g]
    BY <1>3, <2>1
  <2> QED BY <2>2, <2>5, <2>6, <2>7
<1> QED BY <1>10, <1>11

(* (So the log in PM stays.) *)
LEMMA DispatchLink ==
  ASSUME IInv, LinkInv, PmTyped, Next, NEW t \in Threads, Dispatch(t)
  PROVE  LinkInv' /\ PmTyped'
<1>1. pent' = pent /\ phead' = phead /\ life' = life
  BY DEF Dispatch, pm
<1>2. PmTyped'
  BY <1>1 DEF PmTyped
<1>3. SUFFICES ASSUME Calm PROVE LinkInv'
  BY <1>1, <1>2 DEF LinkInv, Calm
<1>4. /\ \A g \in Files : LinkOK(Log(g), phead[g], pent)
      /\ \A g \in Files : pent[ghost[g]].next = Null
      /\ \A s \in Slots \ sused : pent[s].next = Null
  BY <1>3 DEF LinkInv
<1>5. /\ \A g \in Files : Log(g)' = Log(g)
      /\ \A g \in Files : ghost'[g] = ghost[g] \/ ghost'[g] \in Slots \ sused
      /\ sused \subseteq sused'
  BY DispatchLog
<1> QED BY <1>1, <1>4, <1>5 DEF LinkInv

(* After, and what it is in the log. *)
LEMMA AfterNext ==
  ASSUME IInv, NEW f \in Files, NEW s \in Range(list[f]), NEW L,
         L = Append(list[f], ghost[f])
  PROVE  \E i \in 1 .. Len(L) - 1 : L[i] = s /\ L[i + 1] = After(f, s)
<1> DEFINE n == Len(list[f])
           i == CHOOSE i \in DOMAIN list[f] : list[f][i] = s
<1>1. list[f] \in Seq(Slots) /\ ghost[f] \in Slots
  BY DEF IInv, Typed, FileTyped
<1>2. i \in DOMAIN list[f] /\ list[f][i] = s
  BY DEF Range
<1>3. After(f, s) = IF i = n THEN ghost[f] ELSE list[f][i + 1]
  BY DEF After
<1> HIDE DEF i
<1>4. n \in Nat /\ DOMAIN list[f] = 1 .. n /\ Len(L) = n + 1 /\ L[n + 1] = ghost[f]
      /\ \A j \in 1 .. n : L[j] = list[f][j]
  BY <1>1, SMT
<1> HIDE DEF n
<1>5. i \in 1 .. Len(L) - 1 /\ i \in 1 .. n /\ (i # n => i + 1 \in 1 .. n)
  BY <1>2, <1>4, SMT
<1>6. L[i] = s /\ L[i + 1] = After(f, s)
  BY <1>2, <1>3, <1>4, <1>5
<1> QED BY <1>5, <1>6

(* The slot of the entry that is stored, and the logs after the store. *)
LEMMA StoreFacts ==
  ASSUME IInv, PmTyped, NEW t \in Threads, Store(t)
  PROVE  /\ file[t] \in Files /\ slot[t] \in Range(list[file[t]]) /\ slot[t] \in Slots
         /\ slot[t] \in sused /\ (\A g \in Files : slot[t] # ghost[g])
         /\ (\A g \in Files : g # file[t] => Log(g)' = Log(g) /\ slot[t] \notin Range(Log(g)))
         /\ (\A g \in Files : g = file[t] => Log(g)' = Append(list[g], ghost[g]))
         /\ Cur(t) \in Run /\ NextSlot(t) \in Slots
         /\ (\A x \in Slots : x # slot[t] => pent'[x] = pent[x])
         /\ pent'[slot[t]] = [l |-> Cur(t).l, p |-> Cur(t).p, n |-> Cur(t).n, ts |-> stamp[t],
                              next |-> NextSlot(t)]
<1> DEFINE f == file[t]
           r == Cur(t)
           s == slot[t]
           IS == {"insert", "store"}
<1>1. /\ pc[t] = "store" /\ file' = file /\ reuse' = reuse /\ list' = list /\ ghost' = ghost
      /\ pent' = [pent EXCEPT ![s] =
                    [l |-> r.l, p |-> r.p, n |-> r.n, ts |-> stamp[t], next |-> NextSlot(t)]]
      /\ \E q : q \notin IS /\ pc' = [pc EXCEPT ![t] = q]
  <2>1. "dispatch" \notin IS /\ "unlock" \notin IS
    BY SMT
  <2> QED BY <2>1 DEF Store, Goto, args, maps, Cur
<1>2. "store" \in Busy /\ "insert" \in Busy /\ "store" \in IS
  BY SMT DEF Busy
<1>3. /\ f \in Files
      /\ pc \in [Threads -> Busy \union {"idle", "read_size", "write_size"}]
      /\ list \in [Files -> Seq(Slots)] /\ ghost \in [Files -> Slots]
  BY <1>1, <1>2 DEF IInv, Locks, Typed, WriteTyped, FileTyped
<1>4. s \in Range(list[f])
  BY <1>1, <1>2 DEF IInv, Slotted, SlotOK
<1>5. s \in Slots /\ s \in sused
  <2>1. sused \subseteq Slots
    BY DEF IInv, Typed, FileTyped
  <2>2. s \in sused
    BY <1>3, <1>4 DEF IInv, OwnSlots
  <2> QED BY <2>1, <2>2
<1>6. \A g \in Files : s # ghost[g]
  BY <1>3, <1>4 DEF IInv, OwnSlots
<1>7. r \in Run
  <2>1. ebuf[t] \in Seq(Run) /\ num[t] \in Nat /\ num[t] < Len(ebuf[t])
    <3>1. pc[t] \in {"dispatch", "insert", "store"}
      BY <1>1, SMT
    <3> QED BY <3>1 DEF IInv, Typed, WriteTyped, Runs, RunsOK
  <2> QED BY <2>1, SMT DEF Cur
<1>8. NextSlot(t) \in Slots
  <2>1. \A M : M = Append(list[f], ghost[f]) =>
          \E i \in 1 .. Len(M) - 1 : M[i] = s /\ M[i + 1] = After(f, s)
    BY <1>3, <1>4, AfterNext
  <2>2. PICK M : M = Append(list[f], ghost[f])
    OBVIOUS
  <2>3. M \in Seq(Slots)
    BY <1>3, <2>2, AppendSlot
  <2>4. PICK i \in 1 .. Len(M) - 1 : M[i + 1] = After(f, s)
    BY <2>1, <2>2
  <2>5. After(f, s) \in Slots
    BY <2>3, <2>4, SMT
  <2> QED BY <1>3, <2>5 DEF NextSlot
<1>9. (\A x \in Slots : x # s => pent'[x] = pent[x])
      /\ pent'[s] = [l |-> r.l, p |-> r.p, n |-> r.n, ts |-> stamp[t], next |-> NextSlot(t)]
  BY <1>1, <1>5 DEF PmTyped
<1>10. ASSUME NEW g \in Files, g # f PROVE Log(g)' = Log(g) /\ s \notin Range(Log(g))
  <2>1. \A u \in Threads : (pc'[u] \in IS /\ file'[u] = g /\ ~ reuse'[u])
                            <=> (pc[u] \in IS /\ file[u] = g /\ ~ reuse[u])
    BY <1>1, <1>3, <1>10
  <2>2. Log(g)' = Log(g)
    BY <1>1, <2>1, LogSame
  <2>3. s \notin Range(list[g])
    BY <1>3, <1>4, <1>10 DEF IInv, OwnSlots
  <2>4. s \notin Range(Log(g))
    BY <1>6, <2>3, LogSlots
  <2> QED BY <2>2, <2>4
<1>11. ASSUME NEW g \in Files, g = f PROVE Log(g)' = Append(list[g], ghost[g])
  <2>1. \A u \in Threads : pc'[u] \in IS /\ file'[u] = f => FALSE
    BY <1>1, <1>2, <1>3, OneWriter
  <2>2. ~ Adds(g)'
    BY <1>11, <2>1 DEF Adds, In
  <2> QED BY <1>1, <2>2 DEF Log
<1> HIDE DEF r
<1> QED BY <1>3, <1>4, <1>5, <1>6, <1>7, <1>8, <1>9, <1>10, <1>11 DEF r

(* The store of an entry: one that is overwritten keeps its next, an        *)
(* appended one makes the ghost slot part of the log.                       *)
LEMMA StoreLog ==
  ASSUME IInv, NEW t \in Threads, pc[t] = "store"
  PROVE  /\ \A g : g = file[t] => Log(g) = IF reuse[t] THEN Append(list[g], ghost[g]) ELSE list[g]
         /\ ~ reuse[t] => slot[t] = list[file[t]][Len(list[file[t]])]
<1>1. "store" \in Busy /\ "insert" \in Busy /\ "store" \in {"insert", "store"}
  BY SMT DEF Busy
<1>2. ASSUME NEW g, g = file[t]
      PROVE  Log(g) = IF reuse[t] THEN Append(list[g], ghost[g]) ELSE list[g]
  <2>1. \A u \in Threads : pc[u] \in {"insert", "store"} /\ file[u] = g => u = t
    BY <1>1, <1>2, OneWriter
  <2>2. Adds(g) <=> ~ reuse[t]
    BY <1>1, <1>2, <2>1 DEF Adds, In
  <2> QED BY <2>2 DEF Log
<1>3. ~ reuse[t] => slot[t] = list[file[t]][Len(list[file[t]])]
  BY <1>1 DEF IInv, Slotted, SlotOK
<1> QED BY <1>2, <1>3

(* (Its links.) *)
LEMMA StoreLink ==
  ASSUME IInv, LinkInv, PmTyped, Next, NEW t \in Threads, Store(t)
  PROVE  LinkInv' /\ PmTyped'
<1> DEFINE f == file[t]
           r == Cur(t)
           s == slot[t]
           L == Append(list[f], ghost[f])
<1>1. /\ pc[t] = "store" /\ list' = list /\ ghost' = ghost /\ file' = file
      /\ sused' = sused /\ phead' = phead /\ life' = life
      /\ pent' = [pent EXCEPT ![s] =
                    [l |-> r.l, p |-> r.p, n |-> r.n, ts |-> stamp[t], next |-> NextSlot(t)]]
  BY DEF Store, maps, args, Cur
<1>2. f \in Files /\ s \in Range(list[f]) /\ s \in Slots /\ s \in sused /\ \A g \in Files : s # ghost[g]
  BY StoreFacts
<1>3. r \in Run /\ NextSlot(t) \in Slots
  BY StoreFacts
<1>4. \A x \in Slots : x # s => pent'[x] = pent[x]
  BY StoreFacts
<1> HIDE DEF r
<1>5. [l |-> r.l, p |-> r.p, n |-> r.n, ts |-> stamp[t], next |-> NextSlot(t)]
          \in [l : Nat, p : Nat, n : Nat, ts : Nat, next : Slots \union {Null}]
  <2>1. r.l \in Nat /\ r.p \in Nat /\ r.n \in Nat
    BY <1>3, SMT DEF Run
  <2>2. stamp[t] \in Nat
    BY DEF IInv, Typed, WriteTyped
  <2> QED BY <1>3, <2>1, <2>2, SMT
<1>6. PmTyped'
  BY <1>1, <1>5 DEF PmTyped
<1>7. pent'[s].next = NextSlot(t)
  <2>1. pent'[s] = [l |-> r.l, p |-> r.p, n |-> r.n, ts |-> stamp[t], next |-> NextSlot(t)]
    BY StoreFacts DEF r
  <2> QED BY <2>1, SMT
<1>8. SUFFICES ASSUME Calm PROVE LinkInv'
  BY <1>1, <1>6 DEF LinkInv, Calm
<1>9. /\ \A g \in Files : LinkOK(Log(g), phead[g], pent)
      /\ \A g \in Files : pent[ghost[g]].next = Null
      /\ \A x \in Slots \ sused : pent[x].next = Null
  BY <1>8 DEF LinkInv
<1>10. list \in [Files -> Seq(Slots)] /\ ghost \in [Files -> Slots]
  BY DEF IInv, Typed, FileTyped
<1>11. \A g \in Files : pent'[ghost[g]].next = Null
  BY <1>2, <1>4, <1>9, <1>10
<1>12. \A x \in Slots \ sused : pent'[x].next = Null
  BY <1>2, <1>4, <1>9
<1>13. ASSUME NEW g \in Files, g # f PROVE LinkOK(Log(g)', phead[g], pent')
  <2>1. Log(g)' = Log(g) /\ s \notin Range(Log(g))
    BY <1>13, StoreFacts
  <2>2. Log(g) \in Seq(Slots)
    BY LogSlots
  <2>3. \A x \in Range(Log(g)) : x \in Slots /\ x # s
    BY <2>1, <2>2, SMT DEF Range
  <2>4. \A x \in Range(Log(g)) : pent'[x].next = pent[x].next
    BY <1>4, <2>3
  <2> QED BY <1>9, <2>1, <2>4, LinkFrame
<1>14. LinkOK(L, phead[f], pent')
  <2>1. CASE reuse[t]
    <3>1. LinkOK(L, phead[f], pent)
      BY <1>1, <1>2, <1>9, <2>1, StoreLog
    <3>2. pent[s].next = NextSlot(t)
      <4>1. \A M : M = L => \E i \in 1 .. Len(M) - 1 : M[i] = s /\ M[i + 1] = After(f, s)
        BY <1>2, AfterNext
      <4>2. PICK i \in 1 .. Len(L) - 1 : L[i] = s /\ L[i + 1] = After(f, s)
        BY <4>1
      <4> QED BY <2>1, <3>1, <4>2 DEF LinkOK, NextSlot
    <3>3. \A x \in Slots : pent'[x].next = pent[x].next
      BY <1>4, <1>7, <3>2
    <3>4. \A x \in Range(L) : x \in Slots
      BY <3>1, SMT DEF LinkOK, Range
    <3> QED BY <3>1, <3>3, <3>4, LinkFrame
  <2>2. CASE ~ reuse[t]
    <3>1. LinkOK(list[f], phead[f], pent)
      BY <1>1, <1>2, <1>9, <2>2, StoreLog
    <3>2. s = list[f][Len(list[f])] /\ NextSlot(t) = ghost[f]
      BY <1>1, <2>2, StoreLog DEF NextSlot
    <3>3. IsInjective(list[f]) /\ ghost[f] \in Slots
      BY <1>2, <1>10 DEF IInv, OwnSlots
    <3>4. /\ pent'[list[f][Len(list[f])]].next = ghost[f]
          /\ pent'[ghost[f]].next = Null
          /\ \A x \in Slots : x # list[f][Len(list[f])] => pent'[x].next = pent[x].next
      BY <1>2, <1>4, <1>7, <1>11, <3>2
    <3> QED BY <3>1, <3>3, <3>4, LinkAppend
  <2> QED BY <2>1, <2>2
<1>15. \A g \in Files : LinkOK(Log(g)', phead[g], pent')
  <2>1. \A g \in Files : g = f => Log(g)' = Append(list[g], ghost[g])
    BY StoreFacts
  <2> QED BY <1>13, <1>14, <2>1
<1> QED BY <1>1, <1>11, <1>12, <1>15 DEF LinkInv

(* Every step keeps the log in PM. *)
LEMMA LinkStep ==
  ASSUME IInv, LinkInv, PmTyped, Next
  PROVE  LinkInv' /\ PmTyped'
<1>1. ASSUME NEW t \in Threads, inode_write_atomic(t) PROVE LinkInv' /\ PmTyped'
  <2>1. ASSUME Dispatch(t) PROVE LinkInv' /\ PmTyped'
    BY <2>1, DispatchLink
  <2>2. ASSUME Store(t) PROVE LinkInv' /\ PmTyped'
    BY <2>2, StoreLink
  <2> QED BY <1>1, <2>1, <2>2, LinkQuietSteps DEF inode_write_atomic
<1>2. ASSUME NEW f \in Files, Unlink(f) \/ ReleaseEntry(f) \/ ReleaseEnd(f) PROVE LinkInv' /\ PmTyped'
  <2>1. ~ Calm' /\ pent' = pent
    BY <1>2, Gone DEF Unlink, ReleaseEntry, ReleaseEnd, pm
  <2> QED BY <2>1 DEF LinkInv, PmTyped
<1> QED BY <1>1, <1>2 DEF Next

(* In a fresh file system a log is its ghost slot. *)
LEMMA InitLink ==
  ASSUME Init
  PROVE  LinkInv /\ PmTyped
<1>1. /\ list = [f \in Files |-> <<>>] /\ ghost \in [Files -> Slots] /\ phead = ghost
      /\ pent = [s \in Slots |-> PmFilent] /\ pc = [t \in Threads |-> "idle"]
  BY DEF Init
<1>2. PmFilent \in [l : Nat, p : Nat, n : Nat, ts : Nat, next : Slots \union {Null}]
      /\ PmFilent.next = Null
  BY SMT DEF PmFilent
<1>3. PmTyped
  BY <1>1, <1>2 DEF PmTyped
<1>4. \A s \in Slots : pent[s].next = Null
  BY <1>1, <1>2
<1>5. ASSUME NEW f \in Files PROVE LinkOK(Log(f), phead[f], pent)
  <2>1. "idle" \notin {"insert", "store"}
    BY SMT
  <2>2. ~ Adds(f)
    BY <1>1, <2>1 DEF Adds, In
  <2>3. Log(f) = Append(<<>>, ghost[f]) /\ ghost[f] \in Slots /\ phead[f] = ghost[f]
    BY <1>1, <2>2 DEF Log
  <2> DEFINE M == Append(<<>>, ghost[f])
  <2>4. M \in Seq(Slots) /\ M # <<>> /\ Len(M) = 1 /\ M[1] = ghost[f]
    BY <2>3, SMT
  <2> HIDE DEF M
  <2>5. pent[M[Len(M)]].next = Null
    BY <1>4, <2>3, <2>4
  <2>6. \A i \in 1 .. Len(M) - 1 : FALSE
    BY <2>4, SMT
  <2> QED BY <2>3, <2>4, <2>5, <2>6 DEF LinkOK, M
<1> QED BY <1>1, <1>3, <1>4, <1>5 DEF LinkInv
-----------------------------------------------------------------------------
(* What a crash leaves.  The entries of file f in PM are the slots of its   *)
(* log that have a next.                                                    *)
Entries(f) == {s \in Range(Log(f)) : pent[s].next # Null}

(* Among the entries N with contents P, those of block b are either none,   *)
(* and nothing has been stored for it, or one of them is the latest and     *)
(* leads to what was stored last.  That is the entry in the index ix,       *)
(* unless b is one of the blocks X of an entry about to be stored.          *)
WinOK(N, P, con, v, ix, X, b) ==
  \/ v[b] = 0 /\ \A s \in N : b \notin Covers(P[s])
  \/ \E s \in N :
       /\ b \in Covers(P[s])
       /\ \A x \in N \ {s} : b \in Covers(P[x]) => P[x].ts < P[s].ts
       /\ con[BlockOf(P[s], b)] = v[b]
       /\ b \in X \/ ix[b] = s

(* The entries in PM are those in DRAM, but for those being added, A. *)
FileOK(N, A, P, E, con, v, ix, X, now) ==
  /\ \A s \in N : P[s].ts <= now
  /\ \A s \in N \ A : P[s].l = E[s].l /\ P[s].p = E[s].p /\ P[s].n = E[s].n
  /\ \A b \in Blocks : WinOK(N, P, con, v, ix, X, b)
Added(f)   == {slot[t] : t \in In(f, {"insert", "store"})}
Storing(f) == {b \in Blocks : \E t \in In(f, {"store"}) : b \in Covers(Cur(t))}
PmFile(f)  ==
  FileOK(Entries(f), Added(f), pent, ent, content, saved[f], index[f], Storing(f), ts)

(* A write with number i at p, which has put k of its runs e in the log:    *)
(* the data of the others is there, and no entry of the file that has one   *)
(* of their blocks is as new as the write.                                  *)
WriteOK(p, e, k, st, i, N, P, con, now) ==
  /\ p = "write_ts" => st = now + 1
  /\ p \in {"dispatch", "insert", "store"} =>
       /\ st <= now
       /\ \A s \in N : \/ P[s].ts < st
                       \/ \A j \in k + 1 .. Len(e) : Covers(P[s]) \intersect Covers(e[j]) = {}
  /\ p \in Busy => \A j \in k + 1 .. Len(e) : \A d \in Area(e[j]) : con[d] = i
PmWrite(t) ==
  \A f : f = file[t] =>
    WriteOK(pc[t], ebuf[t], num[t], stamp[t], id[t], Entries(f), pent, content, ts)

(* One thread writes, or to one file only. *)
OneWriting == (\A t, u \in Threads : t = u) \/ OneFile
PmInv ==
  Calm /\ OneWriting => (\A f \in Files : PmFile(f)) /\ (\A t \in Threads : PmWrite(t))
IdTyped == saved \in [Files -> [Blocks -> Nat]] /\ id \in [Threads -> Nat] /\ writes \in Nat

(* The numbers of writes. *)
LEMMA IdStep ==
  ASSUME IInv, IdTyped, Next
  PROVE  IdTyped'
<1> USE DEF IdTyped
<1>1. ASSUME NEW t \in Threads, inode_write_atomic(t) PROVE IdTyped'
  <2>1. ASSUME WriteBegin(t) PROVE IdTyped'
    <3>1. writes + 1 \in Nat
      BY SMT
    <3>2. saved' = saved /\ writes' = writes + 1 /\ id' = [id EXCEPT ![t] = writes + 1]
      BY <2>1 DEF WriteBegin, pm
    <3> QED BY <3>1, <3>2
  <2>2. ASSUME Store(t) PROVE IdTyped'
    <3>1. /\ id' = id /\ writes' = writes
          /\ saved' = [saved EXCEPT ![file[t]] =
                         [b \in Blocks |-> IF b \in Covers(Cur(t)) THEN id[t] ELSE @[b]]]
      BY <2>2 DEF Store, args, Cur
    <3> QED BY <3>1
  <2>3. ASSUME WriteSize(t) PROVE IdTyped'
    <3>1. saved' = saved /\ writes' = writes /\ id' = [id EXCEPT ![t] = 0] /\ 0 \in Nat
      BY <2>3, SMT DEF WriteSize, Return, pm
    <3> QED BY <3>1
  <2>4. ASSUME Alloc(t) \/ ReadTs(t) \/ WriteTs(t) \/ Dispatch(t) PROVE IdTyped'
    BY <2>4 DEF Alloc, ReadTs, WriteTs, Dispatch, args, pm
  <2>5. ASSUME Insert(t) \/ Unlock(t) \/ ReadSize(t) PROVE IdTyped'
    BY <2>5 DEF Insert, Unlock, ReadSize, args, pm
  <2> QED BY <1>1, <2>1, <2>2, <2>3, <2>4, <2>5 DEF inode_write_atomic
<1>2. ASSUME NEW f \in Files, Unlink(f) \/ ReleaseEntry(f) \/ ReleaseEnd(f) PROVE IdTyped'
  BY <1>2 DEF Unlink, ReleaseEntry, ReleaseEnd, args, pm
<1> QED BY <1>1, <1>2 DEF Next

(* The entries are in the log in DRAM. *)
LEMMA EntriesIn ==
  ASSUME IInv, LinkInv, Calm, NEW f \in Files
  PROVE  Entries(f) \subseteq Range(list[f]) /\ Entries(f) \subseteq Slots
<1>1. Range(Log(f)) \subseteq Range(list[f]) \union {ghost[f]}
  BY LogSlots
<1>2. pent[ghost[f]].next = Null
  BY DEF LinkInv
<1>3. Entries(f) \subseteq Range(list[f])
  BY <1>1, <1>2 DEF Entries
<1>4. Range(list[f]) \subseteq sused /\ sused \subseteq Slots
  BY DEF IInv, OwnSlots, Typed, FileTyped
<1> QED BY <1>3, <1>4

(* With one thread or one file, one write at a time has a lock. *)
LEMMA OneBusy ==
  ASSUME IInv, OneWriting, NEW t \in Threads, pc[t] \in Busy
  PROVE  \A u \in Threads : pc[u] \in Busy => u = t
<1>1. CASE OneFile
  BY <1>1, OneWriter DEF OneFile, IInv, Locks
<1>2. CASE ~ OneFile
  BY <1>2 DEF OneWriting
<1> QED BY <1>1, <1>2

(* Then no other is adding an entry, ... *)
LEMMA AddedOne ==
  ASSUME IInv, OneWriting, NEW t \in Threads, pc[t] \in Busy, NEW f
  PROVE  /\ Added(f) = IF file[t] = f /\ pc[t] \in {"insert", "store"} THEN {slot[t]} ELSE {}
         /\ Storing(f) = IF file[t] = f /\ pc[t] = "store" THEN Blocks \intersect Covers(Cur(t)) ELSE {}
<1>1. \A u \in Threads : pc[u] \in {"insert", "store"} => u = t
  <2>1. {"insert", "store"} \subseteq Busy
    BY SMT DEF Busy
  <2> QED BY <2>1, OneBusy
<1>2. Added(f) = IF file[t] = f /\ pc[t] \in {"insert", "store"} THEN {slot[t]} ELSE {}
  BY <1>1 DEF Added, In
<1>3. \A u \in Threads : pc[u] = "store" => u = t
  BY <1>1
<1>4. Storing(f) = IF file[t] = f /\ pc[t] = "store" THEN Blocks \intersect Covers(Cur(t)) ELSE {}
  BY <1>3 DEF Storing, In
<1> QED BY <1>2, <1>4

(* ... and a write that has no lock has nothing to keep. *)
LEMMA IdleWrite ==
  \A p, e, k, st, i, N, P, con, now : p \notin Busy => WriteOK(p, e, k, st, i, N, P, con, now)
<1> SUFFICES ASSUME NEW p, NEW e, NEW k, NEW st, NEW i, NEW N, NEW P, NEW con, NEW now, p \notin Busy
             PROVE  WriteOK(p, e, k, st, i, N, P, con, now)
  OBVIOUS
<1>1. p # "write_ts" /\ p \notin {"dispatch", "insert", "store"}
  BY SMT DEF Busy
<1> QED BY <1>1 DEF WriteOK

(* What the thread u is doing is unchanged. *)
SameW(u) == Same(u) /\ stamp'[u] = stamp[u] /\ id'[u] = id[u]

(* A write touches no other thread's registers. *)
LEMMA OthersSame ==
  ASSUME IInv, IdTyped, NEW t \in Threads, inode_write_atomic(t)
  PROVE  \A u \in Threads \ {t} : SameW(u)
<1> DEFINE Mine(v, w) == w = v \/ \E x : w = [v EXCEPT ![t] = x]
<1>1. Mine(pc, pc') /\ Mine(num, num') /\ Mine(ebuf, ebuf')
  <2>1. ASSUME WriteBegin(t) \/ ReadTs(t) \/ WriteTs(t) \/ Unlock(t) \/ ReadSize(t) PROVE <1>1!:
    BY <2>1 DEF WriteBegin, ReadTs, WriteTs, Unlock, ReadSize, Goto, regs
  <2>2. ASSUME Alloc(t) \/ Dispatch(t) PROVE <1>1!:
    BY <2>2 DEF Alloc, Dispatch, Goto
  <2>3. ASSUME Insert(t) \/ Store(t) \/ WriteSize(t) PROVE <1>1!:
    BY <2>3 DEF Insert, Store, WriteSize, Return, Goto, regs
  <2> QED BY <2>1, <2>2, <2>3 DEF inode_write_atomic
<1>2. Mine(file, file') /\ Mine(off, off') /\ Mine(len, len') /\ Mine(id, id')
  <2>1. ASSUME WriteBegin(t) PROVE <1>2!:
    BY <2>1 DEF WriteBegin
  <2>2. ASSUME WriteSize(t) PROVE <1>2!:
    BY <2>2 DEF WriteSize, Return
  <2>3. ASSUME Alloc(t) \/ Dispatch(t) \/ ReadTs(t) \/ WriteTs(t) PROVE <1>2!:
    BY <2>3 DEF Alloc, Dispatch, ReadTs, WriteTs, args
  <2>4. ASSUME Insert(t) \/ Store(t) \/ Unlock(t) \/ ReadSize(t) PROVE <1>2!:
    BY <2>4 DEF Insert, Store, Unlock, ReadSize, args
  <2> QED BY <2>1, <2>2, <2>3, <2>4 DEF inode_write_atomic
<1>3. Mine(slot, slot') /\ Mine(reuse, reuse') /\ Mine(stamp, stamp')
  <2>1. ASSUME WriteBegin(t) \/ WriteTs(t) \/ Insert(t) \/ Unlock(t) PROVE <1>3!:
    BY <2>1 DEF WriteBegin, WriteTs, Insert, Unlock, regs
  <2>2. ASSUME WriteSize(t) PROVE <1>3!:
    BY <2>2 DEF WriteSize, Return
  <2>3. ASSUME Dispatch(t) PROVE <1>3!:
    BY <2>3 DEF Dispatch
  <2>4. ASSUME Alloc(t) \/ ReadTs(t) \/ Store(t) \/ ReadSize(t) PROVE <1>3!:
    BY <2>4 DEF Alloc, ReadTs, Store, ReadSize
  <2> QED BY <2>1, <2>2, <2>3, <2>4 DEF inode_write_atomic
<1>5. WriteTyped /\ id \in [Threads -> Nat]
  BY DEF IInv, Typed, IdTyped
<1> SUFFICES ASSUME NEW u \in Threads \ {t} PROVE SameW(u)
  OBVIOUS
<1>6. pc'[u] = pc[u] /\ num'[u] = num[u] /\ ebuf'[u] = ebuf[u]
  BY <1>1, <1>5 DEF WriteTyped
<1>7. file'[u] = file[u] /\ off'[u] = off[u] /\ len'[u] = len[u] /\ id'[u] = id[u]
  BY <1>2, <1>5 DEF WriteTyped
<1>8. slot'[u] = slot[u] /\ reuse'[u] = reuse[u] /\ stamp'[u] = stamp[u]
  BY <1>3, <1>5 DEF WriteTyped
<1> QED BY <1>6, <1>7, <1>8 DEF SameW, Same

(* The steps that neither begin nor end the adding of an entry ... *)
LEMMA PmFrame ==
  ASSUME IInv, IdTyped, NEW t \in Threads, inode_write_atomic(t), list' = list, ghost' = ghost, pent' = pent,
         pc[t] \notin {"insert", "store"}, pc'[t] \notin {"insert", "store"}, NEW f
  PROVE  /\ Log(f)' = Log(f) /\ Entries(f)' = Entries(f)
         /\ Added(f)' = Added(f) /\ Storing(f)' = Storing(f)
<1>1. \A u \in Threads \ {t} : Same(u)
  BY OthersSame DEF SameW
<1>2. pc[t] # "store" /\ pc'[t] # "store"
  BY SMT
<1>3. Log(f)' = Log(f)
  <2>1. \A u \in Threads : (pc'[u] \in {"insert", "store"} /\ file'[u] = f /\ ~ reuse'[u])
                              <=> (pc[u] \in {"insert", "store"} /\ file[u] = f /\ ~ reuse[u])
    BY <1>1 DEF Same
  <2> QED BY <2>1, LogSame
<1>4. Entries(f)' = Entries(f)
  BY <1>3 DEF Entries
<1>5. Added(f)' = Added(f)
  <2>1. \A u \in Threads : (pc'[u] \in {"insert", "store"} /\ file'[u] = f)
                              <=> (pc[u] \in {"insert", "store"} /\ file[u] = f)
    BY <1>1 DEF Same
  <2>2. \A u \in Threads : pc[u] \in {"insert", "store"} => slot'[u] = slot[u]
    BY <1>1 DEF Same
  <2> QED BY <2>1, <2>2 DEF Added, In
<1>6. Storing(f)' = Storing(f)
  <2>1. ASSUME NEW u \in Threads
        PROVE  (pc'[u] = "store" /\ file'[u] = f) <=> (pc[u] = "store" /\ file[u] = f)
    BY <1>1, <1>2 DEF Same
  <2>2. In(f, {"store"})' = In(f, {"store"})
    BY <2>1 DEF In
  <2>3. ASSUME NEW u \in Threads, pc[u] = "store" PROVE Cur(u)' = Cur(u)
    BY <1>1, <1>2, <2>3 DEF Same, Cur
  <2>4. \A u \in In(f, {"store"}) : Cur(u)' = Cur(u)
    BY <2>3 DEF In
  <2> QED BY <2>2, <2>4 DEF Storing
<1> QED BY <1>3, <1>4, <1>5, <1>6

(* ... and change no content, entry or time. *)
LEMMA PmQuiet ==
  ASSUME IInv, IdTyped, PmInv, Next, NEW t \in Threads, inode_write_atomic(t), list' = list,
         ghost' = ghost, pent' = pent, content' = content, saved' = saved, index' = index, ent' = ent,
         ts' = ts, pc[t] \notin {"insert", "store"}, pc'[t] \notin {"insert", "store"},
         PmInv /\ Calm /\ OneWriting => PmWrite(t)'
  PROVE  PmInv'
<1> SUFFICES ASSUME Calm', OneWriting PROVE (\A f \in Files : PmFile(f)') /\ (\A u \in Threads : PmWrite(u)')
  BY DEF PmInv, OneWriting, OneFile
<1>1. (\A f \in Files : PmFile(f)) /\ (\A u \in Threads : PmWrite(u)) /\ Calm
  BY CalmBack DEF PmInv
<1>2. \A f \in Files : PmFile(f)'
  BY <1>1, PmFrame DEF PmFile
<1>3. ASSUME NEW u \in Threads \ {t} PROVE PmWrite(u)'
  <2>1. SameW(u)
    BY OthersSame
  <2>2. \A f : Entries(f)' = Entries(f)
    BY PmFrame
  <2> QED BY <1>1, <2>1, <2>2 DEF PmWrite, SameW, Same
<1> QED BY <1>1, <1>2, <1>3

(* The latest entry of a block stays the latest. *)
LEMMA WinKeep ==
  ASSUME NEW N, NEW P, NEW Q, NEW con, NEW cm, NEW v, NEW ix, NEW iy, NEW X, NEW Y, NEW b,
         WinOK(N, P, con, v, ix, X, b), \A s \in N : Q[s] = P[s],
         \A s \in N : b \in Covers(P[s]) /\ (b \in X \/ ix[b] = s) =>
           cm[BlockOf(P[s], b)] = con[BlockOf(P[s], b)] /\ (b \in Y \/ iy[b] = s)
  PROVE  WinOK(N, Q, cm, v, iy, Y, b)
<1>1. CASE v[b] = 0 /\ \A s \in N : b \notin Covers(P[s])
  BY <1>1 DEF WinOK
<1>2. ASSUME NEW s \in N, b \in Covers(P[s]),
             \A x \in N \ {s} : b \in Covers(P[x]) => P[x].ts < P[s].ts,
             con[BlockOf(P[s], b)] = v[b], b \in X \/ ix[b] = s
      PROVE  WinOK(N, Q, cm, v, iy, Y, b)
  <2>1. b \in Covers(Q[s]) /\ \A x \in N \ {s} : b \in Covers(Q[x]) => Q[x].ts < Q[s].ts
    BY <1>2
  <2>2. cm[BlockOf(Q[s], b)] = v[b] /\ (b \in Y \/ iy[b] = s)
    BY <1>2
  <2> QED BY <2>1, <2>2 DEF WinOK
<1> QED BY <1>1, <1>2 DEF WinOK

(* The steps of a write, one by one. *)
LEMMA PmQuietSteps ==
  ASSUME IInv, IdTyped, PmInv, Next, NEW t \in Threads,
         WriteBegin(t) \/ ReadTs(t) \/ Unlock(t) \/ ReadSize(t) \/ WriteSize(t)
  PROVE  PmInv'
<1> DEFINE IS == {"insert", "store"}
<1>1. inode_write_atomic(t)
  BY DEF inode_write_atomic
<1>2. /\ list' = list /\ ghost' = ghost /\ pent' = pent /\ content' = content /\ saved' = saved
      /\ index' = index /\ ent' = ent /\ ts' = ts
  <2>1. ASSUME WriteBegin(t) PROVE <1>2!:
    BY <2>1 DEF WriteBegin, inode, pm
  <2>2. ASSUME ReadTs(t) \/ Unlock(t) PROVE <1>2!:
    BY <2>2 DEF ReadTs, Unlock, inode, pm
  <2>3. ASSUME ReadSize(t) \/ WriteSize(t) PROVE <1>2!:
    BY <2>3 DEF ReadSize, WriteSize, inode, pm
  <2> QED BY <2>1, <2>2, <2>3
<1>3. /\ "idle" \notin IS /\ "alloc" \notin IS /\ "write_ts" \notin IS /\ "unlock" \notin IS
      /\ "read_size" \notin IS /\ "write_size" \notin IS
  BY SMT
<1>4. pc \in [Threads -> Busy \union {"idle", "read_size", "write_size"}]
  BY DEF IInv, Typed, WriteTyped
<1>5. pc[t] \notin IS /\ pc'[t] \notin IS
  <2>1. ASSUME WriteBegin(t) \/ ReadTs(t) PROVE <1>5!:
    BY <1>3, <1>4, <2>1 DEF WriteBegin, ReadTs, Goto
  <2>2. ASSUME Unlock(t) \/ ReadSize(t) \/ WriteSize(t) PROVE <1>5!:
    BY <1>3, <1>4, <2>2 DEF Unlock, ReadSize, WriteSize, Return, Goto
  <2> QED BY <2>1, <2>2
<1>6. ASSUME Calm, OneWriting PROVE PmWrite(t)'
  <2>1. CASE WriteBegin(t)
    <3>1. pc[t] = "idle" /\ pc'[t] = "alloc" /\ ebuf' = ebuf /\ num' = num
      BY <1>4, <2>1 DEF WriteBegin, Goto, regs
    <3>2. ebuf[t] = <<>> /\ num[t] = Len(ebuf[t])
      <4>1. "idle" \in {"unlock", "read_size", "write_size", "idle"}
        BY SMT
      <4> QED BY <3>1, <4>1 DEF IInv, Runs, RunsOK
    <3>3. \A j \in num[t] + 1 .. Len(ebuf[t]) : FALSE
      BY <3>2, SMT
    <3>4. pc'[t] # "write_ts" /\ pc'[t] \notin {"dispatch", "insert", "store"}
      BY <3>1, SMT
    <3> QED BY <3>1, <3>3, <3>4 DEF PmWrite, WriteOK
  <2>2. CASE ReadTs(t)
    <3>1. /\ pc[t] = "alloc" /\ pc'[t] = "write_ts" /\ ebuf' = ebuf /\ num' = num /\ id' = id
          /\ file' = file /\ stamp'[t] = ts + 1
      BY <1>4, <2>2 DEF ReadTs, Goto, args, IInv, Typed, WriteTyped
    <3>2. "alloc" \in Busy /\ pc'[t] \notin {"dispatch", "insert", "store"}
      BY <3>1, SMT DEF Busy
    <3>3. PmWrite(t)
      BY <1>6 DEF PmInv
    <3>4. \A j \in num[t] + 1 .. Len(ebuf[t]) : \A d \in Area(ebuf[t][j]) : content[d] = id[t]
      BY <3>1, <3>2, <3>3 DEF PmWrite, WriteOK
    <3> QED BY <1>2, <3>1, <3>2, <3>4 DEF PmWrite, WriteOK
  <2>3. CASE Unlock(t) \/ ReadSize(t) \/ WriteSize(t)
    <3>1. "read_size" \notin Busy /\ "write_size" \notin Busy /\ "idle" \notin Busy
      BY SMT DEF Busy
    <3>2. pc'[t] \notin Busy
      BY <1>4, <2>3, <3>1 DEF Unlock, ReadSize, WriteSize, Return, Goto
    <3> QED BY <3>2, IdleWrite DEF PmWrite
  <2> QED BY <2>1, <2>2, <2>3
<1> QED BY <1>1, <1>2, <1>5, <1>6, PmQuiet

(* ++sbi->ts: with no other write under way, ts is what it was read as. *)
LEMMA WriteTsPm ==
  ASSUME IInv, IdTyped, LinkInv, PmTyped, PmInv, Next, NEW t \in Threads, WriteTs(t)
  PROVE  PmInv'
<1>1. /\ list' = list /\ ghost' = ghost /\ pent' = pent /\ content' = content /\ saved' = saved
      /\ index' = index /\ ent' = ent /\ ts' = stamp[t] /\ pc[t] = "write_ts" /\ file' = file
      /\ pc' = [pc EXCEPT ![t] = "dispatch"] /\ ebuf' = ebuf /\ num' = num /\ id' = id /\ stamp' = stamp
      /\ life' = life
  BY DEF WriteTs, Goto, inode, pm, args, regs
<1>2. pc \in [Threads -> Busy \union {"idle", "read_size", "write_size"}]
      /\ ts \in Nat /\ stamp[t] \in Nat
  BY DEF IInv, Typed, WriteTyped
<1>3. pc'[t] = "dispatch"
  BY <1>1, <1>2
<1>4. "write_ts" \in Busy /\ pc[t] \notin {"insert", "store"} /\ pc'[t] \notin {"insert", "store"}
      /\ "dispatch" # "write_ts"
  BY <1>1, <1>3, SMT DEF Busy
<1> SUFFICES ASSUME Calm', OneWriting PROVE (\A f \in Files : PmFile(f)') /\ (\A u \in Threads : PmWrite(u)')
  BY DEF PmInv, OneWriting, OneFile
<1>5. Calm /\ (\A f \in Files : PmFile(f)) /\ (\A u \in Threads : PmWrite(u))
  BY <1>1 DEF PmInv, Calm
<1>6. stamp[t] = ts + 1
  BY <1>1, <1>5 DEF PmWrite, WriteOK
<1>7. inode_write_atomic(t)
  BY DEF inode_write_atomic
<1>8. ASSUME NEW f
      PROVE  /\ Entries(f)' = Entries(f) /\ Added(f)' = Added(f) /\ Storing(f)' = Storing(f)
  BY <1>1, <1>4, <1>7, PmFrame
<1>9. \A f \in Files : \A s \in Entries(f) : pent[s].ts \in Nat
  <2> SUFFICES ASSUME NEW f \in Files, NEW s \in Entries(f) PROVE pent[s].ts \in Nat
    OBVIOUS
  <2>1. s \in Slots
    BY <1>5, EntriesIn
  <2> QED BY <2>1, SMT DEF PmTyped
<1>10. \A f \in Files : \A s \in Entries(f) : pent[s].ts <= ts
  BY <1>5 DEF PmFile, FileOK
<1>11. \A f \in Files : \A s \in Entries(f) : pent[s].ts <= stamp[t] /\ pent[s].ts < stamp[t]
  BY <1>2, <1>6, <1>9, <1>10, SMT
<1>12. \A f \in Files : PmFile(f)'
  BY <1>1, <1>5, <1>8, <1>11 DEF PmFile, FileOK
<1>13. PmWrite(t)'
  <2>1. file[t] \in Files
    BY <1>1, <1>4 DEF IInv, Locks
  <2>2. stamp[t] <= stamp[t]
    BY <1>2, SMT
  <2>3. \A j \in num[t] + 1 .. Len(ebuf[t]) : \A d \in Area(ebuf[t][j]) : content[d] = id[t]
    BY <1>1, <1>4, <1>5 DEF PmWrite, WriteOK
  <2>4. \A f : f = file'[t] => \A s \in Entries(f)' : pent'[s].ts < stamp'[t]
    BY <1>1, <1>8, <1>11, <2>1
  <2> QED BY <1>1, <1>3, <1>4, <2>2, <2>3, <2>4 DEF PmWrite, WriteOK
<1>14. ASSUME NEW u \in Threads, u # t PROVE PmWrite(u)'
  <2>1. pc'[u] \notin Busy
    BY <1>1, <1>2, <1>4, <1>14, OneBusy
  <2> QED BY <2>1, IdleWrite DEF PmWrite
<1> QED BY <1>12, <1>13, <1>14

(* A run of free blocks is filled: none of them is one an entry leads to. *)
LEMMA AllocPm ==
  ASSUME IInv, IdTyped, LinkInv, DataInv, PmInv, Next, NEW t \in Threads, Alloc(t)
  PROVE  PmInv'
<1>1. PICK n \in 1 .. Cardinality(Missing(t)), p \in Data :
        /\ p .. p + n - 1 \subseteq Data \ dused
        /\ content' = [d \in Data |-> IF d \in p .. p + n - 1 THEN id[t] ELSE content[d]]
        /\ ebuf' = [ebuf EXCEPT ![t] =
             Append(@, [l |-> off[t] + len[t] - Cardinality(Missing(t)), p |-> p, n |-> n])]
  BY DEF Alloc
<1> DEFINE R == p .. p + n - 1
           r == [l |-> off[t] + len[t] - Cardinality(Missing(t)), p |-> p, n |-> n]
<1>2. /\ list' = list /\ ghost' = ghost /\ pent' = pent /\ saved' = saved /\ index' = index /\ ent' = ent
      /\ ts' = ts /\ pc[t] = "alloc" /\ pc' = pc /\ file' = file /\ num' = num /\ id' = id /\ life' = life
  BY DEF Alloc, inode, pm, args
<1>3. "alloc" \in Busy /\ pc[t] \notin {"insert", "store"} /\ pc[t] # "store" /\ pc[t] # "write_ts"
      /\ pc[t] \notin {"dispatch", "insert", "store"}
  BY <1>2, SMT DEF Busy
<1>4. ebuf \in [Threads -> Seq(Run)] /\ dused \subseteq Data /\ num[t] \in Nat
      /\ index \in [Files -> [Blocks -> Slots \union {Null}]]
  BY DEF IInv, Typed, WriteTyped, FileTyped
<1> SUFFICES ASSUME Calm', OneWriting PROVE (\A f \in Files : PmFile(f)') /\ (\A u \in Threads : PmWrite(u)')
  BY DEF PmInv, OneWriting, OneFile
<1>5. Calm /\ (\A f \in Files : PmFile(f)) /\ (\A u \in Threads : PmWrite(u))
  BY <1>2 DEF PmInv, Calm
<1>6. DataOK(Cells, Place, Parts, Part, dused)
  BY <1>5 DEF DataInv
<1>7. \A d \in dused : content'[d] = content[d]
  BY <1>1, <1>4
<1>8. inode_write_atomic(t)
  BY DEF inode_write_atomic
<1>9. ASSUME NEW f
      PROVE  /\ Entries(f)' = Entries(f) /\ Added(f)' = Added(f) /\ Storing(f)' = Storing(f)
             /\ Added(f) = {} /\ Storing(f) = {}
  <2>1. Entries(f)' = Entries(f) /\ Added(f)' = Added(f) /\ Storing(f)' = Storing(f)
    BY <1>2, <1>3, <1>8, PmFrame
  <2>2. Added(f) = {} /\ Storing(f) = {}
    BY <1>2, <1>3, AddedOne
  <2> QED BY <2>1, <2>2
<1>10. ASSUME NEW f \in Files PROVE PmFile(f)'
  <2> DEFINE N == Entries(f)
  <2>1. FileOK(N, {}, pent, ent, content, saved[f], index[f], {}, ts)
    BY <1>5, <1>9 DEF PmFile
  <2>2. N \subseteq Slots
    BY <1>5, EntriesIn
  <2> HIDE DEF N
  <2>3. ASSUME NEW b \in Blocks PROVE WinOK(N, pent, content', saved[f], index[f], {}, b)
    <3>1. ASSUME NEW s \in N, index[f][b] = s
          PROVE  content'[BlockOf(pent[s], b)] = content[BlockOf(pent[s], b)]
      <4> DEFINE x == <<f, b>>
      <4>1. s # Null
        BY <2>2, NullAssumption
      <4>2. x \in Files \X Blocks /\ x[1] = f /\ x[2] = b
        OBVIOUS
      <4> HIDE DEF x
      <4>3. x \in Cells
        BY <3>1, <4>1, <4>2 DEF Cells
      <4>4. Place[x] = BlockOf(ent[s], b)
        BY <3>1, <4>2, <4>3 DEF Place
      <4>5. pent[s].l = ent[s].l /\ pent[s].p = ent[s].p
        BY <2>1 DEF FileOK
      <4>6. Place[x] = BlockOf(pent[s], b)
        BY <4>4, <4>5 DEF BlockOf
      <4>7. Place[x] \in dused
        BY <1>6, <4>3 DEF DataOK
      <4> QED BY <1>7, <4>6, <4>7
    <3>2. WinOK(N, pent, content, saved[f], index[f], {}, b)
      BY <2>1 DEF FileOK
    <3> QED BY <3>1, <3>2, WinKeep, SMT
  <2>4. FileOK(N, {}, pent, ent, content', saved[f], index[f], {}, ts)
    BY <2>1, <2>3 DEF FileOK
  <2> QED BY <1>2, <1>9, <2>4 DEF PmFile, N
<1>11. PmWrite(t)'
  <2>1. ASSUME NEW j \in num[t] + 1 .. Len(ebuf'[t]), NEW d \in Area(ebuf'[t][j])
        PROVE  content'[d] = id[t]
    <3>1. ebuf'[t] = Append(ebuf[t], r) /\ ebuf[t] \in Seq(Run)
      BY <1>1, <1>4
    <3>2. /\ Len(ebuf'[t]) = Len(ebuf[t]) + 1 /\ Len(ebuf[t]) \in Nat
          /\ ebuf'[t][Len(ebuf[t]) + 1] = r
          /\ \A i \in 1 .. Len(ebuf[t]) : ebuf'[t][i] = ebuf[t][i]
      <4> HIDE DEF r
      <4> QED BY <3>1, SMT
    <3>3. CASE j = Len(ebuf[t]) + 1
      <4>1. d \in R
        <5>1. d \in Area(r)
          BY <2>1, <3>2, <3>3
        <5> QED BY <5>1, SMT DEF Area
      <4> HIDE DEF R
      <4> QED BY <1>1, <4>1 DEF R
    <3>4. CASE j # Len(ebuf[t]) + 1
      <4>1. j \in num[t] + 1 .. Len(ebuf[t]) /\ j \in 1 .. Len(ebuf[t]) /\ j \in Nat
        BY <1>4, <2>1, <3>2, <3>4, SMT
      <4>2. d \in Area(ebuf[t][j])
        BY <2>1, <3>2, <4>1
      <4>3. content[d] = id[t]
        BY <1>2, <1>3, <1>5, <4>1, <4>2 DEF PmWrite, WriteOK
      <4>4. d \in dused
        <5> DEFINE y == <<t, j>>
        <5>1. y \in Threads \X Nat /\ y[1] = t /\ y[2] = j
          BY <4>1
        <5> HIDE DEF y
        <5>2. y \in Parts
          BY <1>3, <4>1, <5>1 DEF Parts, Held
        <5>3. d \in Part[y]
          BY <4>2, <5>1, <5>2 DEF Part
        <5> QED BY <1>6, <5>2, <5>3 DEF DataOK
      <4> QED BY <1>7, <4>3, <4>4
    <3> QED BY <3>3, <3>4
  <2> QED BY <1>2, <1>3, <2>1 DEF PmWrite, WriteOK
<1>12. ASSUME NEW u \in Threads, u # t PROVE PmWrite(u)'
  <2>1. pc'[u] \notin Busy
    BY <1>2, <1>3, <1>12, OneBusy
  <2> QED BY <2>1, IdleWrite DEF PmWrite
<1> QED BY <1>10, <1>11, <1>12

(* An entry gets a slot: it is none of the entries of the index. *)
LEMMA DispatchPm ==
  ASSUME IInv, IInv', LinkInv, PmInv, Next, NEW t \in Threads, Dispatch(t)
  PROVE  PmInv'
<1> DEFINE f == file[t]
           h == slot'[t]
<1>1. /\ pent' = pent /\ saved' = saved /\ index' = index /\ ts' = ts /\ content' = content
      /\ pc[t] = "dispatch" /\ pc' = [pc EXCEPT ![t] = "insert"] /\ file' = file /\ num' = num
      /\ id' = id /\ life' = life /\ stamp' = stamp /\ ebuf' = ebuf
      /\ \E e : ent' = [ent EXCEPT ![h] = e]
  BY DEF Dispatch, Goto, pm, args
<1>2. pc \in [Threads -> Busy \union {"idle", "read_size", "write_size"}]
      /\ ent \in [Slots -> [l : Nat, p : Nat, n : Nat, ts : Nat, ref : Int]]
  BY DEF IInv, Typed, WriteTyped, FileTyped
<1>3. pc'[t] = "insert"
  BY <1>1, <1>2
<1>4. /\ "dispatch" \in Busy /\ "insert" \in Busy /\ "insert" \in {"insert", "store"}
      /\ pc[t] \notin {"insert", "store"} /\ pc[t] # "store" /\ "insert" # "write_ts"
      /\ "dispatch" \in {"dispatch", "insert", "store"}
  BY <1>1, SMT DEF Busy
<1> SUFFICES ASSUME Calm', OneWriting PROVE (\A g \in Files : PmFile(g)') /\ (\A u \in Threads : PmWrite(u)')
  BY DEF PmInv, OneWriting, OneFile
<1>5. Calm /\ (\A g \in Files : PmFile(g)) /\ (\A u \in Threads : PmWrite(u))
  BY <1>1 DEF PmInv, Calm
<1>6. \A g \in Files : Entries(g)' = Entries(g)
  BY <1>1, DispatchLog DEF Entries
<1>7. f \in Files
  BY <1>1, <1>4 DEF IInv, Locks
<1>8. ASSUME NEW g \in Files PROVE PmFile(g)'
  <2> DEFINE N == Entries(g)
             A == Added(g)'
             X == Storing(g)'
  <2>1. FileOK(N, {}, pent, ent, content, saved[g], index[g], {}, ts)
    <3>1. Added(g) = {} /\ Storing(g) = {}
      BY <1>1, <1>4, AddedOne
    <3> QED BY <1>5, <3>1 DEF PmFile
  <2>2. N \subseteq Range(list[g]) /\ N \subseteq Slots
    BY <1>5, EntriesIn
  <2>3. \A s \in N \ A : s # h
    <3>1. CASE g = f
      <4>1. h \in A
        BY <1>1, <1>3, <1>4, <3>1 DEF Added, In
      <4> HIDE DEF A
      <4> QED BY <4>1
    <3>2. CASE g # f
      <4>1. h \in Range(list'[f])
        BY <1>1, <1>3, <1>4 DEF IInv, Slotted, SlotOK
      <4>2. list'[g] = list[g]
        BY <3>2, DispatchLog
      <4>3. Range(list'[g]) \intersect Range(list'[f]) = {}
        BY <1>7, <3>2 DEF IInv, OwnSlots
      <4> QED BY <2>2, <4>1, <4>2, <4>3
    <3> QED BY <3>1, <3>2
  <2> HIDE DEF N, A, X
  <2>4. \A s \in N \ A : ent'[s] = ent[s]
    BY <1>1, <1>2, <2>2, <2>3
  <2>5. \A b \in Blocks : WinOK(N, pent, content, saved[g], index[g], X, b)
    <3> SUFFICES ASSUME NEW b \in Blocks PROVE WinOK(N, pent, content, saved[g], index[g], X, b)
      OBVIOUS
    <3>1. WinOK(N, pent, content, saved[g], index[g], {}, b)
      BY <2>1 DEF FileOK
    <3> QED BY <3>1 DEF WinOK
  <2>6. FileOK(N, A, pent, ent', content, saved[g], index[g], X, ts)
    BY <2>1, <2>4, <2>5 DEF FileOK
  <2> QED BY <1>1, <1>6, <2>6 DEF PmFile, N, A, X
<1>9. PmWrite(t)'
  <2>1. WriteOK("dispatch", ebuf[t], num[t], stamp[t], id[t], Entries(f), pent, content, ts)
    BY <1>1, <1>5 DEF PmWrite
  <2>2. WriteOK("insert", ebuf[t], num[t], stamp[t], id[t], Entries(f), pent, content, ts)
    BY <1>4, <2>1 DEF WriteOK
  <2> QED BY <1>1, <1>3, <1>6, <1>7, <2>2 DEF PmWrite
<1>10. ASSUME NEW u \in Threads, u # t PROVE PmWrite(u)'
  <2>1. pc'[u] \notin Busy
    BY <1>1, <1>2, <1>4, <1>10, OneBusy
  <2> QED BY <2>1, IdleWrite DEF PmWrite
<1> QED BY <1>8, <1>9, <1>10

(* The index gets the entry: its blocks are about to be stored. *)
LEMMA InsertPm ==
  ASSUME IInv, LinkInv, PmInv, Next, NEW t \in Threads, Insert(t)
  PROVE  PmInv'
<1> DEFINE f == file[t]
           r == Cur(t)
           IS == {"insert", "store"}
<1>1. /\ pent' = pent /\ saved' = saved /\ ts' = ts /\ content' = content /\ list' = list /\ ghost' = ghost
      /\ pc[t] = "insert" /\ pc' = [pc EXCEPT ![t] = "store"] /\ file' = file /\ num' = num
      /\ id' = id /\ life' = life /\ stamp' = stamp /\ ebuf' = ebuf /\ slot' = slot /\ reuse' = reuse
  BY DEF Insert, Goto, pm, args, regs
<1>2. /\ index' = [index EXCEPT ![f] = [b \in Blocks |-> IF b \in Covers(r) THEN slot[t] ELSE @[b]]]
      /\ ent' = [s \in Slots |-> [ent[s] EXCEPT !.ref = @ - Lost(f, r, s)]]
  BY DEF Insert, Cur
<1>3. pc \in [Threads -> Busy \union {"idle", "read_size", "write_size"}]
      /\ index \in [Files -> [Blocks -> Slots \union {Null}]]
      /\ ent \in [Slots -> [l : Nat, p : Nat, n : Nat, ts : Nat, ref : Int]]
  BY DEF IInv, Typed, WriteTyped, FileTyped
<1>4. pc'[t] = "store" /\ \A u \in Threads \ {t} : pc'[u] = pc[u]
  BY <1>1, <1>3
<1>5. /\ "insert" \in Busy /\ "store" \in Busy /\ "insert" \in IS /\ "store" \in IS
      /\ "insert" # "store" /\ "store" # "write_ts"
      /\ "insert" \in {"dispatch", "insert", "store"}
  BY SMT DEF Busy
<1> SUFFICES ASSUME Calm', OneWriting PROVE (\A g \in Files : PmFile(g)') /\ (\A u \in Threads : PmWrite(u)')
  BY DEF PmInv, OneWriting, OneFile
<1>6. Calm /\ (\A g \in Files : PmFile(g)) /\ (\A u \in Threads : PmWrite(u))
  BY <1>1 DEF PmInv, Calm
<1>7. ASSUME NEW g PROVE Entries(g)' = Entries(g)
  <2>1. \A u \in Threads : (pc'[u] \in IS /\ file'[u] = g /\ ~ reuse'[u])
                            <=> (pc[u] \in IS /\ file[u] = g /\ ~ reuse[u])
    BY <1>1, <1>4, <1>5
  <2>2. Log(g)' = Log(g)
    BY <1>1, <2>1, LogSame
  <2> QED BY <1>1, <2>2 DEF Entries
<1>8. \A s \in Slots : ent'[s].l = ent[s].l /\ ent'[s].p = ent[s].p /\ ent'[s].n = ent[s].n
  BY <1>2, <1>3, SMT
<1>9. ASSUME NEW g \in Files PROVE PmFile(g)'
  <2> DEFINE N == Entries(g)
             A == Added(g)
             X == Storing(g)'
  <2>1. FileOK(N, A, pent, ent, content, saved[g], index[g], {}, ts)
    <3>1. Storing(g) = {}
      BY <1>1, <1>5, AddedOne
    <3> QED BY <1>6, <3>1 DEF PmFile
  <2>2. N \subseteq Slots
    BY <1>6, EntriesIn
  <2>3. Added(g)' = A
    <3>1. \A u \in Threads : (pc'[u] \in IS /\ file'[u] = g) <=> (pc[u] \in IS /\ file[u] = g)
      BY <1>1, <1>4, <1>5
    <3> QED BY <1>1, <3>1 DEF Added, In
  <2>4. \A b \in Blocks : b \in X \/ index'[g][b] = index[g][b]
    <3>1. CASE g = f
      <4>1. \A b \in Blocks : b \in Covers(r) => b \in X
        BY <1>1, <1>4, <3>1 DEF Storing, In, Cur
      <4>2. \A b \in Blocks : b \notin Covers(r) => index'[g][b] = index[g][b]
        BY <1>2, <1>3, <3>1
      <4> QED BY <4>1, <4>2
    <3>2. CASE g # f
      BY <1>2, <1>3, <3>2
    <3> QED BY <3>1, <3>2
  <2> HIDE DEF N, A, X
  <2>5. \A b \in Blocks : WinOK(N, pent, content, saved[g], index'[g], X, b)
    <3> SUFFICES ASSUME NEW b \in Blocks PROVE WinOK(N, pent, content, saved[g], index'[g], X, b)
      OBVIOUS
    <3>1. WinOK(N, pent, content, saved[g], index[g], {}, b)
      BY <2>1 DEF FileOK
    <3> QED BY <2>4, <3>1 DEF WinOK
  <2>6. \A s \in N \ A : pent[s].l = ent'[s].l /\ pent[s].p = ent'[s].p /\ pent[s].n = ent'[s].n
    BY <1>8, <2>1, <2>2 DEF FileOK
  <2>7. FileOK(N, A, pent, ent', content, saved[g], index'[g], X, ts)
    BY <2>1, <2>5, <2>6 DEF FileOK
  <2> QED BY <1>1, <1>7, <2>3, <2>7 DEF PmFile, N, A, X
<1>10. PmWrite(t)'
  <2>1. WriteOK("insert", ebuf[t], num[t], stamp[t], id[t], Entries(f), pent, content, ts)
    BY <1>1, <1>6 DEF PmWrite
  <2>2. WriteOK("store", ebuf[t], num[t], stamp[t], id[t], Entries(f), pent, content, ts)
    BY <1>5, <2>1 DEF WriteOK
  <2> QED BY <1>1, <1>4, <1>7, <2>2 DEF PmWrite
<1>11. ASSUME NEW u \in Threads, u # t PROVE PmWrite(u)'
  <2>1. pc'[u] \notin Busy
    BY <1>1, <1>4, <1>5, <1>11, OneBusy
  <2> QED BY <2>1, IdleWrite DEF PmWrite
<1> QED BY <1>9, <1>10, <1>11

(* The entries after the store of one. *)
LEMMA StoreEntries ==
  ASSUME IInv, LinkInv, PmTyped, Calm, NEW t \in Threads, Store(t)
  PROVE  /\ \A g \in Files : g # file[t] => Entries(g)' = Entries(g) /\ slot[t] \notin Entries(g)
         /\ \A g \in Files : g = file[t] => Entries(g)' = Entries(g) \union {slot[t]}
<1> DEFINE s == slot[t]
<1>1. pc[t] = "store"
  BY DEF Store
<1>2. /\ file[t] \in Files /\ s \in Range(list[file[t]]) /\ NextSlot(t) \in Slots /\ s \in Slots
      /\ \A x \in Slots : x # s => pent'[x] = pent[x]
  BY StoreFacts
<1>3. pent'[s].next # Null
  <2>1. pent'[s] = [l |-> Cur(t).l, p |-> Cur(t).p, n |-> Cur(t).n, ts |-> stamp[t],
                    next |-> NextSlot(t)]
    BY StoreFacts
  <2>2. pent'[s].next = NextSlot(t)
    BY <2>1, SMT
  <2> QED BY <1>2, <2>2, NullAssumption
<1>4. ASSUME NEW g \in Files PROVE \A x \in Range(Log(g)) : x \in Slots
  <2>1. Log(g) \in Seq(Slots)
    BY LogSlots
  <2> QED BY <2>1, SMT DEF Range
<1>5. ASSUME NEW g \in Files, g # file[t] PROVE Entries(g)' = Entries(g) /\ s \notin Entries(g)
  <2>1. Log(g)' = Log(g) /\ s \notin Range(Log(g))
    BY <1>5, StoreFacts
  <2> QED BY <1>2, <1>4, <2>1 DEF Entries
<1>6. ASSUME NEW g \in Files, g = file[t] PROVE Entries(g)' = Entries(g) \union {s}
  <2> DEFINE L == Append(list[g], ghost[g])
  <2>1. Log(g)' = L /\ s # ghost[g]
    BY <1>6, StoreFacts
  <2>2. list[g] \in Seq(Slots) /\ ghost[g] \in Slots /\ pent[ghost[g]].next = Null
    BY DEF IInv, Typed, FileTyped, LinkInv
  <2>3. Range(L) = Range(list[g]) \union {ghost[g]}
    BY <2>2, AppendSlot
  <2>4. Log(g) = L \/ Log(g) = list[g]
    BY <1>1, <1>6, StoreLog
  <2> HIDE DEF L
  <2>5. \A x : x \in Range(list[g]) => x \in Slots
    BY <2>2, SMT DEF Range
  <2>6. \A x : x \in Entries(g)' <=> x \in Range(L) /\ pent'[x].next # Null
    BY <2>1 DEF Entries
  <2>7. \A x : x \in Entries(g) <=> x \in Range(L) /\ pent[x].next # Null
    BY <2>2, <2>3, <2>4 DEF Entries
  <2>8. \A x \in Range(L) : x # s => pent'[x] = pent[x]
    BY <1>2, <2>2, <2>3, <2>5
  <2>9. s \in Range(L)
    BY <1>2, <1>6, <2>3
  <2> QED BY <1>3, <2>6, <2>7, <2>8, <2>9
<1> QED BY <1>5, <1>6

(* The entry is stored: for its blocks it is later than every other. *)
LEMMA StorePm ==
  ASSUME IInv, IdTyped, LinkInv, PmTyped, PmInv, Next, NEW t \in Threads, Store(t)
  PROVE  PmInv'
<1> DEFINE f == file[t]
           r == Cur(t)
           s == slot[t]
           k == num[t] + 1
<1>1. /\ pc[t] = "store" /\ ent' = ent /\ index' = index /\ ts' = ts /\ content' = content /\ file' = file
      /\ id' = id /\ life' = life /\ stamp' = stamp /\ ebuf' = ebuf /\ slot' = slot
      /\ num' = [num EXCEPT ![t] = @ + 1]
      /\ pc' = [pc EXCEPT ![t] = IF num[t] + 1 < Len(ebuf[t]) THEN "dispatch" ELSE "unlock"]
      /\ saved' = [saved EXCEPT ![f] = [b \in Blocks |-> IF b \in Covers(r) THEN id[t] ELSE @[b]]]
  BY DEF Store, Goto, args, Cur
<1>2. /\ pc \in [Threads -> Busy \union {"idle", "read_size", "write_size"}] /\ num \in [Threads -> Nat]
      /\ ebuf[t] \in Seq(Run) /\ stamp[t] \in Nat
  BY DEF IInv, Typed, WriteTyped
<1>3. num'[t] = k /\ pc'[t] \in {"dispatch", "unlock"} /\ \A u \in Threads \ {t} : pc'[u] = pc[u]
  BY <1>1, <1>2
<1>4. /\ "store" \in Busy /\ "store" \in {"dispatch", "insert", "store"}
      /\ "store" \in {"insert", "store"}
  BY SMT DEF Busy
<1>5. /\ f \in Files /\ s \in Slots /\ (\A x \in Slots : x # s => pent'[x] = pent[x]) /\ r \in Run
      /\ pent'[s] = [l |-> r.l, p |-> r.p, n |-> r.n, ts |-> stamp[t], next |-> NextSlot(t)]
  BY StoreFacts
<1>6. k \in num[t] + 1 .. Len(ebuf[t]) /\ k \in 1 .. Len(ebuf[t]) /\ r = ebuf[t][k]
  <2>1. num[t] < Len(ebuf[t])
    BY <1>1, <1>4 DEF IInv, Runs, RunsOK
  <2> QED BY <1>2, <2>1, SMT DEF Cur
<1>7. /\ ent[s].l = r.l /\ ent[s].p = r.p /\ ent[s].n = r.n
      /\ Uses(index[f], s) = Covers(r)
  BY <1>1, <1>4 DEF IInv, Slotted, SlotOK
<1> HIDE DEF r
<1>8. pent'[s].l = r.l /\ pent'[s].p = r.p /\ pent'[s].n = r.n /\ pent'[s].ts = stamp[t]
  BY <1>5, SMT
<1>9. Covers(pent'[s]) = Covers(r) /\ \A b : BlockOf(pent'[s], b) = BlockOf(r, b)
  BY <1>8 DEF Covers, BlockOf
<1> SUFFICES ASSUME Calm', OneWriting PROVE (\A g \in Files : PmFile(g)') /\ (\A u \in Threads : PmWrite(u)')
  BY DEF PmInv, OneWriting, OneFile
<1>10. Calm /\ (\A g \in Files : PmFile(g)) /\ (\A u \in Threads : PmWrite(u))
  BY <1>1 DEF PmInv, Calm
<1>11. WriteOK("store", ebuf[t], num[t], stamp[t], id[t], Entries(f), pent, content, ts)
  BY <1>1, <1>10 DEF PmWrite
<1>12. stamp[t] <= ts
  BY <1>4, <1>11 DEF WriteOK
<1>13. \A x \in Entries(f) : \/ pent[x].ts < stamp[t]
                             \/ \A j \in num[t] + 1 .. Len(ebuf[t]) : Covers(pent[x]) \intersect Covers(ebuf[t][j]) = {}
  BY <1>4, <1>11 DEF WriteOK
<1>14. \A j \in num[t] + 1 .. Len(ebuf[t]) : \A d \in Area(ebuf[t][j]) : content[d] = id[t]
  BY <1>4, <1>11 DEF WriteOK
<1>15. ASSUME NEW g \in Files, g # f PROVE PmFile(g)'
  <2> DEFINE N == Entries(g)
             A == Added(g)'
             X == Storing(g)'
  <2>1. FileOK(N, {}, pent, ent, content, saved[g], index[g], {}, ts)
    <3>1. Added(g) = {} /\ Storing(g) = {}
      BY <1>1, <1>4, <1>15, AddedOne
    <3> QED BY <1>10, <3>1 DEF PmFile
  <2>2. N \subseteq Slots
    BY <1>10, EntriesIn
  <2>3. Entries(g)' = N /\ s \notin N
    BY <1>10, <1>15, StoreEntries
  <2> HIDE DEF N, A, X
  <2>4. \A x \in N : pent'[x] = pent[x]
    BY <1>5, <2>2, <2>3
  <2>5. \A b \in Blocks : WinOK(N, pent', content, saved[g], index[g], X, b)
    <3> SUFFICES ASSUME NEW b \in Blocks PROVE WinOK(N, pent', content, saved[g], index[g], X, b)
      OBVIOUS
    <3>1. WinOK(N, pent, content, saved[g], index[g], {}, b)
      BY <2>1 DEF FileOK
    <3> QED BY <2>4, <3>1, WinKeep, SMT
  <2>6. \A x \in N : pent'[x].ts <= ts
    BY <2>1, <2>4 DEF FileOK
  <2>7. \A x \in N \ A : pent'[x].l = ent[x].l /\ pent'[x].p = ent[x].p /\ pent'[x].n = ent[x].n
    BY <2>1, <2>4 DEF FileOK
  <2>8. saved'[g] = saved[g]
    BY <1>1, <1>15 DEF IdTyped
  <2>9. FileOK(N, A, pent', ent, content, saved'[g], index[g], X, ts)
    BY <2>5, <2>6, <2>7, <2>8 DEF FileOK
  <2> QED BY <1>1, <2>3, <2>9 DEF PmFile, A, X
<1>16. ASSUME NEW g \in Files, g = f PROVE PmFile(g)'
  <2> DEFINE N == Entries(g)
             M == N \union {s}
             A == Added(g)'
             X == Storing(g)'
             Y == Blocks \intersect Covers(r)
  <2>1. FileOK(N, {s}, pent, ent, content, saved[g], index[g], Y, ts)
    <3>1. Added(g) = {s} /\ Storing(g) = Y
      BY <1>1, <1>4, <1>16, AddedOne DEF r
    <3> QED BY <1>10, <3>1 DEF PmFile
  <2>2. N \subseteq Slots
    BY <1>10, EntriesIn
  <2>3. Entries(g)' = M
    BY <1>10, <1>16, StoreEntries
  <2>a. N = Entries(f)
    BY <1>16
  <2> HIDE DEF N, A, X
  <2>4. \A x \in M : x # s => x \in N /\ pent'[x] = pent[x]
    BY <1>5, <2>2
  <2>5. \A x \in M : pent'[x].ts <= ts
    BY <1>8, <1>12, <2>1, <2>4 DEF FileOK
  <2>6. \A x \in M \ A : pent'[x].l = ent[x].l /\ pent'[x].p = ent[x].p /\ pent'[x].n = ent[x].n
    BY <1>7, <1>8, <2>1, <2>4 DEF FileOK
  <2>7. \A b \in Blocks : saved'[g][b] = IF b \in Covers(r) THEN id[t] ELSE saved[g][b]
    BY <1>1, <1>16 DEF IdTyped
  <2>8. ASSUME NEW b \in Blocks, b \in Covers(r)
        PROVE  WinOK(M, pent', content, saved'[g], index[g], X, b)
    <3>1. s \in M /\ b \in Covers(pent'[s])
      BY <1>9, <2>8
    <3>2. \A x \in M \ {s} : b \in Covers(pent'[x]) => pent'[x].ts < pent'[s].ts
      <4> SUFFICES ASSUME NEW x \in M \ {s}, b \in Covers(pent'[x]) PROVE pent'[x].ts < pent'[s].ts
        OBVIOUS
      <4>1. x \in Entries(f) /\ pent'[x] = pent[x]
        BY <2>4, <2>a
      <4>2. b \in Covers(pent[x]) \intersect Covers(ebuf[t][k])
        BY <1>6, <2>8, <4>1
      <4>3. pent[x].ts < stamp[t]
        BY <1>6, <1>13, <4>1, <4>2
      <4> QED BY <1>8, <4>1, <4>3
    <3>3. content[BlockOf(pent'[s], b)] = saved'[g][b]
      <4>1. BlockOf(r, b) \in Area(r)
        BY <1>5, <2>8, SMT DEF BlockOf, Area, Covers, Run
      <4>2. content[BlockOf(r, b)] = id[t]
        BY <1>6, <1>14, <4>1
      <4> QED BY <1>9, <2>7, <2>8, <4>2
    <3>4. index[g][b] = s
      BY <1>7, <1>16, <2>8 DEF Uses
    <3> QED BY <3>1, <3>2, <3>3, <3>4 DEF WinOK
  <2>9. ASSUME NEW b \in Blocks, b \notin Covers(r)
        PROVE  WinOK(M, pent', content, saved'[g], index[g], X, b)
    <3>1. WinOK(N, pent, content, saved[g], index[g], Y, b) /\ saved'[g][b] = saved[g][b]
      BY <2>1, <2>7, <2>9 DEF FileOK
    <3>2. b \notin Covers(pent'[s]) /\ b \notin Y
      BY <1>9, <2>9
    <3>3. CASE saved[g][b] = 0 /\ \A x \in N : b \notin Covers(pent[x])
      <4>1. \A x \in M : b \notin Covers(pent'[x])
        BY <2>4, <3>2, <3>3
      <4> QED BY <3>1, <3>3, <4>1 DEF WinOK
    <3>4. ASSUME NEW w \in N, b \in Covers(pent[w]),
                 \A x \in N \ {w} : b \in Covers(pent[x]) => pent[x].ts < pent[w].ts,
                 content[BlockOf(pent[w], b)] = saved[g][b], b \in Y \/ index[g][b] = w
          PROVE  WinOK(M, pent', content, saved'[g], index[g], X, b)
      <4>1. index[g][b] = w
        BY <3>2, <3>4
      <4>2. w # s
        BY <1>7, <1>16, <2>9, <4>1 DEF Uses
      <4>3. w \in M /\ pent'[w] = pent[w]
        BY <2>4, <4>2
      <4>4. \A x \in M \ {w} : b \in Covers(pent'[x]) => pent'[x].ts < pent'[w].ts
        <5> SUFFICES ASSUME NEW x \in M \ {w}, b \in Covers(pent'[x]) PROVE pent'[x].ts < pent'[w].ts
          OBVIOUS
        <5>1. x # s
          BY <3>2
        <5>2. x \in N \ {w} /\ pent'[x] = pent[x]
          BY <2>4, <5>1
        <5>3. b \in Covers(pent[x])
          BY <5>2
        <5>4. pent[x].ts < pent[w].ts
          BY <3>4, <5>2, <5>3
        <5> QED BY <4>3, <5>2, <5>4
      <4>5. b \in Covers(pent'[w]) /\ content[BlockOf(pent'[w], b)] = saved'[g][b]
        BY <3>1, <3>4, <4>3
      <4> QED BY <4>1, <4>3, <4>4, <4>5 DEF WinOK
    <3> QED BY <3>1, <3>3, <3>4 DEF WinOK
  <2>10. \A b \in Blocks : WinOK(M, pent', content, saved'[g], index[g], X, b)
    BY <2>8, <2>9
  <2>11. FileOK(M, A, pent', ent, content, saved'[g], index[g], X, ts)
    BY <2>5, <2>6, <2>10 DEF FileOK
  <2> QED BY <1>1, <2>3, <2>11 DEF PmFile, A, X
<1>17. PmWrite(t)'
  <2> DEFINE K == num[t] + 1 .. Len(ebuf[t])
             J == k + 1 .. Len(ebuf[t])
  <2>1. \A j \in J : j \in K /\ j \in 1 .. Len(ebuf[t]) /\ k < j
    BY <1>2, <1>6, SMT
  <2>2. \A j \in J : \A d \in Area(ebuf[t][j]) : content[d] = id[t]
    BY <1>14, <2>1
  <2>3. \A j \in J : Covers(r) \intersect Covers(ebuf[t][j]) = {}
    <3> SUFFICES ASSUME NEW j \in J PROVE Covers(r) \intersect Covers(ebuf[t][j]) = {}
      OBVIOUS
    <3>1. DOMAIN ebuf[t] = 1 .. Len(ebuf[t]) /\ ebuf[t][j] \in Run
      BY <1>2, <2>1, SMT
    <3>2. ebuf[t][k].l + ebuf[t][k].n <= ebuf[t][j].l
      BY <1>6, <2>1, <3>1 DEF IInv, Runs, RunsOK
    <3>3. r.l + r.n <= ebuf[t][j].l
      BY <1>6, <3>2
    <3> QED BY <1>5, <3>1, <3>3, SMT DEF Covers, Run
  <2> HIDE DEF K, J
  <2>4. ASSUME NEW x \in Entries(f) \union {s}
        PROVE  pent'[x].ts < stamp[t] \/ \A j \in J : Covers(pent'[x]) \intersect Covers(ebuf[t][j]) = {}
    <3>1. CASE x = s
      BY <1>9, <2>3, <3>1
    <3>2. CASE x # s
      <4>1. x \in Entries(f) /\ x \in Slots
        BY <1>5, <1>10, <3>2, EntriesIn
      <4>2. pent'[x] = pent[x]
        BY <1>5, <3>2, <4>1
      <4>3. \/ pent[x].ts < stamp[t]
            \/ \A j \in K : Covers(pent[x]) \intersect Covers(ebuf[t][j]) = {}
        BY <1>13, <4>1 DEF K
      <4> QED BY <2>1, <4>2, <4>3
    <3> QED BY <3>1, <3>2
  <2>5. \A g : g = f => Entries(g)' = Entries(f) \union {s}
    BY <1>5, <1>10, StoreEntries
  <2>6. pc'[t] # "write_ts"
    BY <1>3, SMT
  <2>7. WriteOK(pc'[t], ebuf[t], k, stamp[t], id[t], Entries(f) \union {s}, pent', content, ts)
    BY <1>12, <2>2, <2>4, <2>6 DEF WriteOK, J
  <2> QED BY <1>1, <1>3, <2>5, <2>7 DEF PmWrite
<1>18. ASSUME NEW u \in Threads, u # t PROVE PmWrite(u)'
  <2>1. pc'[u] \notin Busy
    BY <1>1, <1>3, <1>4, <1>18, OneBusy
  <2> QED BY <2>1, IdleWrite DEF PmWrite
<1> QED BY <1>15, <1>16, <1>17, <1>18

(* Every step keeps what a crash leaves. *)
LEMMA PmStep ==
  ASSUME IInv, IInv', IdTyped, LinkInv, PmTyped, DataInv, PmInv, Next
  PROVE  PmInv'
<1>1. ASSUME NEW t \in Threads, inode_write_atomic(t) PROVE PmInv'
  <2>1. ASSUME WriteBegin(t) \/ ReadTs(t) \/ Unlock(t) \/ ReadSize(t) \/ WriteSize(t) PROVE PmInv'
    BY <2>1, PmQuietSteps
  <2>2. ASSUME WriteTs(t) PROVE PmInv'
    BY <2>2, WriteTsPm
  <2>3. ASSUME Alloc(t) PROVE PmInv'
    BY <2>3, AllocPm
  <2>4. ASSUME Dispatch(t) PROVE PmInv'
    BY <2>4, DispatchPm
  <2>5. ASSUME Insert(t) PROVE PmInv'
    BY <2>5, InsertPm
  <2>6. ASSUME Store(t) PROVE PmInv'
    BY <2>6, StorePm
  <2> QED BY <1>1, <2>1, <2>2, <2>3, <2>4, <2>5, <2>6 DEF inode_write_atomic
<1>2. ASSUME NEW f \in Files, Unlink(f) \/ ReleaseEntry(f) \/ ReleaseEnd(f) PROVE PmInv'
  <2>1. ~ Calm'
    BY <1>2, Gone
  <2> QED BY <2>1 DEF PmInv
<1> QED BY <1>1, <1>2 DEF Next

(* A fresh file system has no entries, and nothing has been stored. *)
LEMMA InitPm ==
  ASSUME Init, LinkInv
  PROVE  PmInv /\ IdTyped
<1>1. /\ life = [f \in Files |-> "live"] /\ list = [f \in Files |-> <<>>]
      /\ pc = [t \in Threads |-> "idle"] /\ id = [t \in Threads |-> 0] /\ writes = 0
      /\ saved = [f \in Files |-> [b \in Blocks |-> 0]] /\ pent = [s \in Slots |-> PmFilent]
  BY DEF Init
<1>2. 0 \in Nat /\ "idle" \notin Busy /\ PmFilent.next = Null /\ "idle" \notin {"insert", "store"}
  BY SMT DEF Busy, PmFilent
<1>3. IdTyped
  BY <1>1, <1>2 DEF IdTyped
<1>4. ASSUME NEW f \in Files PROVE PmFile(f)
  <2>1. ghost[f] \in Slots
    BY DEF Init
  <2>2. Log(f) = Append(<<>>, ghost[f])
    BY <1>1, <1>2 DEF Log, Adds, In
  <2>3. Range(Append(<<>>, ghost[f])) \subseteq Slots
    BY <2>1, SMT DEF Range
  <2>4. Entries(f) = {}
    BY <1>1, <1>2, <2>2, <2>3 DEF Entries
  <2>5. \A b \in Blocks : saved[f][b] = 0
    BY <1>1
  <2>6. FileOK({}, Added(f), pent, ent, content, saved[f], index[f], Storing(f), ts)
    BY <2>5 DEF FileOK, WinOK
  <2> QED BY <2>4, <2>6 DEF PmFile
<1>5. ASSUME NEW t \in Threads PROVE PmWrite(t)
  <2>1. pc[t] \notin Busy
    BY <1>1, <1>2
  <2> QED BY <2>1, IdleWrite DEF PmWrite
<1> QED BY <1>3, <1>4, <1>5 DEF PmInv

(* The inductive invariant of what is in PM. *)
CInv == BInv /\ LinkInv /\ PmTyped /\ IdTyped /\ PmInv

(* Every step of a write or a release keeps it, ... *)
LEMMA CrashStep ==
  ASSUME CInv, IInv', Next
  PROVE  CInv'
BY BlocksStep, LinkStep, IdStep, PmStep DEF CInv, BInv

(* ... and so does a step of something else. *)
LEMMA CrashStutter ==
  ASSUME CInv, IInv', UNCHANGED vars
  PROVE  CInv'
<1>1. BInv'
  BY BlocksStutter DEF CInv
<1>2. /\ life' = life /\ list' = list /\ ghost' = ghost /\ phead' = phead /\ pent' = pent /\ sused' = sused
      /\ pc' = pc /\ file' = file /\ reuse' = reuse /\ slot' = slot
  BY DEF vars
<1>3. /\ ent' = ent /\ content' = content /\ saved' = saved /\ index' = index /\ ts' = ts /\ ebuf' = ebuf
      /\ num' = num /\ stamp' = stamp /\ id' = id /\ writes' = writes
  BY DEF vars
<1>4. Calm' = Calm /\ PmTyped' /\ IdTyped'
  BY <1>2, <1>3 DEF Calm, PmTyped, IdTyped, CInv
<1>5. ASSUME NEW f PROVE Log(f)' = Log(f) /\ Entries(f)' = Entries(f)
  BY <1>2 DEF Log, Adds, In, Entries
<1>6. LinkInv'
  BY <1>2, <1>4, <1>5 DEF LinkInv, CInv
<1>7. ASSUME NEW f PROVE Added(f)' = Added(f) /\ Storing(f)' = Storing(f)
  BY <1>2, <1>3 DEF Added, Storing, In, Cur
<1>8. ASSUME NEW f \in Files PROVE PmFile(f)' = PmFile(f)
  BY <1>2, <1>3, <1>5, <1>7 DEF PmFile
<1>9. ASSUME NEW t \in Threads PROVE PmWrite(t)' = PmWrite(t)
  BY <1>2, <1>3, <1>5 DEF PmWrite
<1>10. PmInv'
  BY <1>4, <1>8, <1>9 DEF PmInv, CInv, OneWriting, OneFile
<1> QED BY <1>1, <1>4, <1>6, <1>10 DEF CInv

(* Under the conditions of the theorems below, a file that is there is in   *)
(* a file system nothing of which has been released.                        *)
LEMMA LiveCalm ==
  ASSUME CInv, Calm \/ OneFile \/ ~ MayRelease, NEW f \in Live
  PROVE  Calm /\ f \in Files
<1>1. f \in Files /\ life[f] = "live"
  BY DEF Live
<1>2. CASE OneFile
  BY <1>1, <1>2 DEF Calm, OneFile
<1>3. CASE ~ MayRelease
  BY <1>1, <1>3 DEF CInv, BInv
<1> QED BY <1>1, <1>2, <1>3
-----------------------------------------------------------------------------
(* Induction over the natural numbers, and the size of a set of numbers;    *)
(* both are proved at the end.                                              *)
Induction == \A Q : 0 \in Q /\ (\A n \in Nat : n \in Q => n + 1 \in Q) => Nat \subseteq Q
Sizes ==
  /\ Cardinality({}) = 0
  /\ \A n \in Nat : \A S \in SUBSET (1 .. n) : \A e \in S :
       Cardinality(S \ {e}) \in Nat => Cardinality(S) = Cardinality(S \ {e}) + 1

(* An increasing enumeration q of S, which has k elements. *)
Increasing(q, k, S) ==
  q \in [1 .. k -> S] /\ Range(q) = S /\ \A i, j \in 1 .. k : i < j => q[i] < q[j]

(* Every finite set of positive numbers can be enumerated in order, ... *)
LEMMA CanSort ==
  ASSUME Induction, Sizes
  PROVE  \A n \in Nat : \A S \in SUBSET (1 .. n) :
           Cardinality(S) \in Nat /\ \E q : Increasing(q, Cardinality(S), S)
<1> DEFINE P(S) == Cardinality(S) \in Nat /\ \E q : Increasing(q, Cardinality(S), S)
           Q == {n \in Nat : \A S \in SUBSET (1 .. n) : P(S)}
<1>1. 0 \in Q
  <2> SUFFICES ASSUME NEW S \in SUBSET (1 .. 0) PROVE P(S)
    OBVIOUS
  <2>1. S = {}
    BY SMT
  <2>2. Cardinality({}) = 0
    BY DEF Sizes
  <2>3. Increasing(<<>>, 0, {})
    BY SMT DEF Increasing, Range
  <2>4. Cardinality(S) = 0 /\ Increasing(<<>>, Cardinality(S), S)
    BY <2>1, <2>2, <2>3
  <2>5. 0 \in Nat
    BY SMT
  <2> QED BY <2>4, <2>5
<1>2. ASSUME NEW n \in Nat, n \in Q PROVE n + 1 \in Q
  <2>0. n + 1 \in Nat
    BY SMT
  <2> SUFFICES ASSUME NEW S \in SUBSET (1 .. n + 1) PROVE P(S)
    BY <2>0
  <2>1. CASE n + 1 \notin S
    <3>1. S \in SUBSET (1 .. n)
      BY <2>1, SMT
    <3> QED BY <1>2, <3>1
  <2>2. CASE n + 1 \in S
    <3> DEFINE T == S \ {n + 1}
               k == Cardinality(T)
    <3>1. T \in SUBSET (1 .. n)
      BY SMT
    <3>2. P(T)
      BY <1>2, <3>1
    <3>3. PICK q : Increasing(q, k, T)
      BY <3>2
    <3>4. k \in Nat
      BY <3>2
    <3>5. Cardinality(S) = k + 1
      BY <2>0, <2>2, <3>4 DEF Sizes
    <3> DEFINE p == [i \in 1 .. k + 1 |-> IF i = k + 1 THEN n + 1 ELSE q[i]]
    <3> HIDE DEF k
    <3>6. /\ \A i \in 1 .. k : q[i] \in T /\ q[i] \in 1 .. n
          /\ \A y \in T : \E i \in 1 .. k : q[i] = y
          /\ \A i, j \in 1 .. k : i < j => q[i] < q[j]
      <4>1. q \in [1 .. k -> T] /\ Range(q) = T /\ \A i, j \in 1 .. k : i < j => q[i] < q[j]
        BY <3>3 DEF Increasing
      <4> QED BY <3>1, <4>1 DEF Range
    <3>7. \A i \in 1 .. k + 1 : i = k + 1 \/ i \in 1 .. k
      BY <3>4, SMT
    <3>8. k + 1 \in 1 .. k + 1 /\ \A i \in 1 .. k : i \in 1 .. k + 1 /\ i # k + 1
      BY <3>4, SMT
    <3>9. p[k + 1] = n + 1 /\ \A i \in 1 .. k : p[i] = q[i]
      BY <3>8
    <3>10. p \in [1 .. k + 1 -> S]
      <4>1. \A i \in 1 .. k + 1 : (IF i = k + 1 THEN n + 1 ELSE q[i]) \in S
        BY <2>2, <3>6, <3>7
      <4> QED BY <4>1
    <3> HIDE DEF p
    <3>11. Range(p) = S
      <4>1. \A i \in 1 .. k + 1 : p[i] \in S
        BY <3>10
      <4>2. \A y \in S : \E i \in 1 .. k + 1 : p[i] = y
        BY <3>6, <3>8, <3>9
      <4>3. DOMAIN p = 1 .. k + 1
        BY <3>10
      <4> QED BY <4>1, <4>2, <4>3 DEF Range
    <3>12. ASSUME NEW i \in 1 .. k + 1, NEW j \in 1 .. k + 1, i < j PROVE p[i] < p[j]
      <4>1. i \in 1 .. k
        BY <3>4, <3>12, SMT
      <4>2. CASE j = k + 1
        BY <3>6, <3>9, <4>1, <4>2, SMT
      <4>3. CASE j \in 1 .. k
        BY <3>6, <3>9, <3>12, <4>1, <4>3
      <4> QED BY <3>7, <4>2, <4>3
    <3>13. Increasing(p, k + 1, S)
      BY <3>10, <3>11, <3>12 DEF Increasing
    <3>14. k + 1 \in Nat
      BY <3>4, SMT
    <3> QED BY <3>5, <3>13, <3>14
  <2> QED BY <2>1, <2>2
<1> HIDE DEF Q
<1>3. Nat \subseteq Q
  BY <1>1, <1>2 DEF Induction
<1> QED BY <1>3 DEF Q

(* ... so Sorted does that. *)
LEMMA SortingHolds ==
  ASSUME Induction, Sizes
  PROVE  Sorting
<1> SUFFICES ASSUME NEW n \in Nat, NEW S \in SUBSET (1 .. n)
             PROVE  /\ Cardinality(S) \in Nat
                    /\ Sorted(S) \in [1 .. Cardinality(S) -> S] /\ Range(Sorted(S)) = S
                    /\ \A i, j \in 1 .. Cardinality(S) : i < j => Sorted(S)[i] < Sorted(S)[j]
                    /\ S # {} => \E i \in S : \A j \in S : j <= i
  BY DEF Sorting
<1> DEFINE k == Cardinality(S)
           q == Sorted(S)
<1>1. k \in Nat
  BY CanSort
<1>2. PICK p : Increasing(p, k, S)
  BY CanSort
<1>3. p \in [1 .. k -> S] /\ Range(p) = S /\ \A i, j \in DOMAIN p : i < j => p[i] < p[j]
  BY <1>2 DEF Increasing
<1>4. q \in [1 .. k -> S] /\ Range(q) = S /\ \A i, j \in DOMAIN q : i < j => q[i] < q[j]
  BY <1>3 DEF Sorted
<1> HIDE DEF k, q
<1>5. DOMAIN q = 1 .. k
  BY <1>4
<1>6. ASSUME S # {} PROVE \E i \in S : \A j \in S : j <= i
  <2>1. PICK y : y \in S
    BY <1>6
  <2>2. k >= 1
    <3>1. PICK i \in 1 .. k : q[i] = y
      BY <1>4, <1>5, <2>1 DEF Range
    <3> QED BY <1>1, <3>1, SMT
  <2>3. k \in 1 .. k
    BY <1>1, <2>2, SMT
  <2>4. q[k] \in S /\ S \subseteq 1 .. n
    BY <1>4, <2>3
  <2>5. ASSUME NEW j \in S PROVE j <= q[k]
    <3>1. PICK i \in 1 .. k : q[i] = j
      BY <1>4, <1>5, <2>5 DEF Range
    <3>2. CASE i = k
      <4>1. q[k] = j /\ j \in 1 .. n
        BY <2>4, <3>1, <3>2
      <4> QED BY <4>1, SMT
    <3>3. CASE i # k
      <4>1. i < k
        BY <1>1, <3>1, <3>3, SMT
      <4>2. q[i] < q[k]
        BY <1>4, <1>5, <2>3, <4>1
      <4>3. q[k] \in 1 .. n /\ j \in 1 .. n
        BY <2>4
      <4> QED BY <3>1, <4>2, <4>3, SMT
    <3> QED BY <3>2, <3>3
  <2> QED BY <2>4, <2>5
<1> QED BY <1>1, <1>4, <1>5, <1>6 DEF k, q

(* A sequence without repetitions is no longer than there are slots. *)
Fits ==
  /\ Cardinality(Slots) \in Nat
  /\ \A n \in Nat : \A q \in [1 .. n -> Slots] : IsInjective(q) => n <= Cardinality(Slots)

(* What recovery walks is that log. *)
LEMMA ChainIsLog ==
  ASSUME IInv, Induction, Counting, Fits, NEW f \in Files, LinkOK(Log(f), phead[f], pent)
  PROVE  Chain(f) = Log(f)
<1> DEFINE N == Cardinality(Slots)
           S == 1 .. N + 1
           L == Log(f)
           n == Len(L)
           F(g) == [i \in S |-> IF i = 1 THEN phead[f]
                                ELSE IF g[i - 1] = Null THEN Null ELSE pent[g[i - 1]].next]
           c == CHOOSE g : g = F(g)
           k == [i \in S |-> IF i <= n THEN L[i] ELSE Null]
<1>1. L \in Seq(Slots) /\ IsInjective(L) /\ L # <<>> /\ N \in Nat
  BY LogSlots DEF LinkOK, Fits
<1>a. Chain(f) = [i \in 1 .. Cardinality({j \in DOMAIN c : c[j] # Null}) |-> c[i]]
  BY SMT DEF Chain
<1> HIDE DEF L, N
<1>2. n \in Nat \ {0} /\ L \in [1 .. n -> Slots] /\ L = [i \in 1 .. n |-> L[i]]
  BY <1>1, SMT
<1>3. n <= N
  BY <1>1, <1>2 DEF Fits, N
<1>4. /\ L[1] = phead[f] /\ pent[L[n]].next = Null
      /\ \A i \in 1 .. n - 1 : pent[L[i]].next = L[i + 1]
  BY DEF LinkOK, L
<1> HIDE DEF n
<1>5. \A i \in 1 .. n : L[i] # Null
  BY <1>2, NullAssumption
<1>6. k = F(k)
  <2> SUFFICES ASSUME NEW i \in S
               PROVE  k[i] = IF i = 1 THEN phead[f]
                             ELSE IF k[i - 1] = Null THEN Null ELSE pent[k[i - 1]].next
    OBVIOUS
  <2>1. CASE i = 1
    <3>1. 1 <= n
      BY <1>2, SMT
    <3> QED BY <1>4, <2>1, <3>1
  <2>2. CASE i # 1 /\ i <= n
    <3>1. i - 1 \in S /\ i - 1 <= n /\ i - 1 \in 1 .. n /\ i - 1 \in 1 .. n - 1 /\ i - 1 + 1 = i
      BY <1>1, <1>2, <2>2, SMT
    <3>2. k[i - 1] = L[i - 1] /\ k[i] = L[i]
      BY <2>2, <3>1
    <3>3. k[i - 1] # Null
      BY <1>5, <3>1, <3>2
    <3>4. pent[L[i - 1]].next = L[i]
      BY <1>4, <3>1
    <3> QED BY <2>2, <3>2, <3>3, <3>4
  <2>3. CASE ~ (i <= n) /\ i - 1 = n
    <3>1. n \in S /\ n <= n /\ n \in 1 .. n /\ i # 1
      BY <1>1, <1>2, <1>3, <2>3, SMT
    <3>2. k[n] = L[n] /\ k[i] = Null
      BY <2>3, <3>1
    <3>3. k[n] # Null
      BY <1>5, <3>1, <3>2
    <3> QED BY <1>4, <2>3, <3>1, <3>2, <3>3
  <2>4. CASE ~ (i <= n) /\ i - 1 # n
    <3>1. i - 1 \in S /\ ~ (i - 1 <= n) /\ i # 1
      BY <1>1, <1>2, <2>4, SMT
    <3>2. k[i - 1] = Null /\ k[i] = Null
      BY <2>4, <3>1
    <3> QED BY <3>1, <3>2
  <2> QED BY <2>1, <2>2, <2>3, <2>4
<1> HIDE DEF k
<1>7. c = F(c)
  BY <1>6
<1> HIDE DEF c
<1>8. DOMAIN c = S
  BY <1>7
<1>9. \A i \in S : c[i] = k[i]
  <2> DEFINE Q == {m \in Nat : m \in S => c[m] = k[m]}
  <2>1. 0 \in Q
    BY <1>1, SMT
  <2>2. ASSUME NEW m \in Nat, m \in Q PROVE m + 1 \in Q
    <3>1. m + 1 \in Nat /\ (m + 1) - 1 = m /\ (m + 1 # 1 => m # 0)
      BY SMT
    <3> SUFFICES ASSUME m + 1 \in S PROVE c[m + 1] = k[m + 1]
      BY <3>1
    <3>2. CASE m = 0
      <4>1. m + 1 = 1
        BY <3>2, SMT
      <4> QED BY <1>6, <1>7, <4>1
    <3>3. CASE m # 0
      <4>1. m \in S /\ m + 1 # 1
        BY <1>1, <3>3, SMT
      <4>2. c[m] = k[m]
        BY <2>2, <4>1
      <4>3. /\ F(c)[m + 1] = IF c[m] = Null THEN Null ELSE pent[c[m]].next
            /\ F(k)[m + 1] = IF k[m] = Null THEN Null ELSE pent[k[m]].next
        BY <3>1, <4>1
      <4> HIDE DEF F
      <4>4. c[m + 1] = F(c)[m + 1] /\ k[m + 1] = F(k)[m + 1]
        BY <1>6, <1>7
      <4> QED BY <4>2, <4>3, <4>4
    <3> QED BY <3>2, <3>3
  <2> HIDE DEF Q
  <2>3. Nat \subseteq Q
    BY <2>1, <2>2 DEF Induction
  <2>4. S \subseteq Nat
    BY <1>1, SMT
  <2> QED BY <2>3, <2>4 DEF Q
<1>10. \A i \in S : c[i] # Null <=> i \in 1 .. n
  <2>1. \A i \in S : i <= n <=> i \in 1 .. n
    BY <1>1, <1>2, SMT
  <2> QED BY <1>5, <1>9, <2>1 DEF k
<1>11. 1 .. n \subseteq S
  BY <1>1, <1>2, <1>3, SMT
<1>12. {j \in DOMAIN c : c[j] # Null} = 1 .. n
  BY <1>8, <1>10, <1>11
<1>13. Cardinality(1 .. n) = n
  <2>1. Cardinality(1 .. n) = n - 1 + 1
    BY <1>2, SMT DEF Counting
  <2> QED BY <1>2, <2>1, SMT
<1>14. \A i \in 1 .. n : c[i] = L[i]
  <2>1. \A i \in 1 .. n : i <= n
    BY <1>2, SMT
  <2> QED BY <1>9, <1>11, <2>1 DEF k
<1>15. Chain(f) = [i \in 1 .. n |-> c[i]]
  BY <1>a, <1>12, <1>13
<1> QED BY <1>2, <1>14, <1>15 DEF L

(* So recovery finds the entries of the list in DRAM, ... *)
LEMMA ChainFollows ==
  ASSUME CInv, Calm \/ OneFile \/ ~ MayRelease, Induction, Counting, Fits
  PROVE  ChainMatches
<1> SUFFICES ASSUME NEW f \in Live
             PROVE  Chain(f) = IF \E t \in In(f, {"insert", "store"}) : ~reuse[t] THEN list[f]
                               ELSE Append(list[f], ghost[f])
  BY DEF ChainMatches
<1>1. f \in Files /\ IInv /\ LinkOK(Log(f), phead[f], pent)
  BY LiveCalm DEF CInv, BInv, LinkInv
<1>2. Chain(f) = Log(f)
  BY <1>1, ChainIsLog
<1> QED BY <1>2 DEF Log, Adds

(* ... and for each block the latest of its entries. *)
LEMMA CrashFollows ==
  ASSUME CInv, Calm \/ OneFile \/ ~ MayRelease, OneWriting, Induction, Counting, Fits
  PROVE  CrashContent
<1> SUFFICES ASSUME NEW f \in Live, NEW b \in Blocks PROVE Recovered(f, b) = saved[f][b]
  BY DEF CrashContent
<1> DEFINE L == Log(f)
           E == {i \in DOMAIN L : pent[L[i]].next # Null /\ b \in Covers(pent[L[i]])}
           First(i) == \A j \in E : \/ pent[L[j]].ts < pent[L[i]].ts
                                    \/ pent[L[j]].ts = pent[L[i]].ts /\ i <= j
<1>1. Calm /\ f \in Files /\ IInv /\ PmTyped
  BY LiveCalm DEF CInv, BInv
<1>2. LinkOK(L, phead[f], pent)
  BY <1>1 DEF CInv, LinkInv
<1>3. Chain(f) = L
  BY <1>1, <1>2, ChainIsLog
<1>4. Winner(f, b) = IF E = {} THEN Null ELSE L[CHOOSE i \in E : First(i)]
  BY <1>3, SMT DEF Winner
<1>5. L \in Seq(Slots) /\ IsInjective(L)
  BY <1>1, LogSlots
<1>6. WinOK(Entries(f), pent, content, saved[f], index[f], Storing(f), b)
  BY <1>1 DEF CInv, PmInv, PmFile, FileOK
<1>7. \A x : x \in Entries(f) <=> x \in Range(L) /\ pent[x].next # Null
  BY DEF Entries
<1> HIDE DEF L
<1>8. DOMAIN L \subseteq Nat /\ \A i \in DOMAIN L : L[i] \in Slots
  BY <1>5, SMT
<1>9. \A x : x \in Range(L) <=> \E i \in DOMAIN L : L[i] = x
  BY DEF Range
<1>10. \A i \in E : L[i] \in Entries(f) /\ b \in Covers(pent[L[i]])
  BY <1>7, <1>9
<1>11. CASE E = {}
  <2>1. \A x \in Entries(f) : b \notin Covers(pent[x])
    BY <1>7, <1>9, <1>11
  <2>2. saved[f][b] = 0
    BY <1>6, <2>1 DEF WinOK
  <2> QED BY <1>4, <1>11, <2>2 DEF Recovered
<1>12. CASE E # {}
  <2>1. \E x \in Entries(f) : b \in Covers(pent[x])
    BY <1>10, <1>12
  <2>2. PICK w \in Entries(f) :
          /\ b \in Covers(pent[w])
          /\ \A x \in Entries(f) \ {w} : b \in Covers(pent[x]) => pent[x].ts < pent[w].ts
          /\ content[BlockOf(pent[w], b)] = saved[f][b]
    BY <1>6, <2>1 DEF WinOK
  <2>3. PICK i \in DOMAIN L : L[i] = w
    BY <1>7, <1>9, <2>2
  <2>4. i \in E
    BY <1>7, <2>2, <2>3
  <2>5. \A j \in E : j # i => pent[L[j]].ts < pent[L[i]].ts
    <3> SUFFICES ASSUME NEW j \in E, j # i PROVE pent[L[j]].ts < pent[L[i]].ts
      OBVIOUS
    <3>1. L[j] # w
      BY <1>5, <2>3 DEF IsInjective
    <3> QED BY <1>10, <2>2, <2>3, <3>1
  <2>6. \A j \in E : pent[L[j]].ts \in Nat /\ j \in Nat
    <3>1. \A x \in Slots : pent[x].ts \in Nat
      <4> SUFFICES ASSUME NEW x \in Slots PROVE pent[x].ts \in Nat
        OBVIOUS
      <4>1. pent[x] \in [l : Nat, p : Nat, n : Nat, ts : Nat, next : Slots \union {Null}]
        BY <1>1 DEF PmTyped
      <4> QED BY <4>1, SMT
    <3> QED BY <1>8, <3>1
  <2> HIDE DEF E
  <2>7. First(i)
    <3> SUFFICES ASSUME NEW j \in E
                 PROVE  \/ pent[L[j]].ts < pent[L[i]].ts
                        \/ pent[L[j]].ts = pent[L[i]].ts /\ i <= j
      OBVIOUS
    <3>1. CASE j = i
      BY <2>6, <3>1, SMT
    <3>2. CASE j # i
      BY <2>5, <3>2
    <3> QED BY <3>1, <3>2
  <2>8. \A k \in E : First(k) => k = i
    <3> SUFFICES ASSUME NEW k \in E, First(k), k # i PROVE FALSE
      OBVIOUS
    <3>1. pent[L[k]].ts < pent[L[i]].ts
      BY <2>5
    <3>2. \/ pent[L[i]].ts < pent[L[k]].ts
          \/ pent[L[i]].ts = pent[L[k]].ts
      BY <2>4
    <3>3. pent[L[i]].ts \in Nat /\ pent[L[k]].ts \in Nat
      BY <2>4, <2>6
    <3> DEFINE x == pent[L[i]].ts
               y == pent[L[k]].ts
    <3> HIDE DEF x, y, First
    <3>4. x \in Nat /\ y \in Nat /\ y < x /\ (x < y \/ x = y)
      BY <3>1, <3>2, <3>3 DEF x, y
    <3> QED BY <3>4, SMT
  <2> HIDE DEF First
  <2>9. (CHOOSE k \in E : First(k)) = i
    BY <2>4, <2>7, <2>8
  <2>10. Winner(f, b) = w
    BY <1>4, <1>12, <2>3, <2>9
  <2>11. w # Null
    BY <1>8, <2>3, NullAssumption
  <2> QED BY <2>2, <2>10, <2>11 DEF Recovered
<1> QED BY <1>11, <1>12
-----------------------------------------------------------------------------
(* The facts about finite sets that the lemmas above assume. *)
FST == INSTANCE FiniteSetTheorems
WF  == INSTANCE WellFoundedInduction

(* The library has its own copies of these two operators. *)
LEMMA SameFinite == \A S : IsFiniteSet(S) <=> FST!IsFiniteSet(S)
BY DEF IsFiniteSet, FST!IsFiniteSet

(* (The second of them.) *)
LEMMA SameSize == \A S : Cardinality(S) = FST!Cardinality(S)
BY DEF Cardinality, FST!Cardinality

(* The blocks of a file are finitely many. *)
LEMMA CountingHolds == Counting
<1>1. IsFiniteSet(Blocks)
  <2>1. FST!IsFiniteSet(0 .. NB - 1)
    BY SizeAssumption, FST!FS_Interval, SMT
  <2> QED BY <2>1, SameFinite DEF Blocks
<1>2. \A S \in SUBSET Blocks : FST!IsFiniteSet(S)
  BY <1>1, SameFinite, FST!FS_Subset
<1>3. \A S \in SUBSET Blocks : Cardinality(S) \in Nat
  BY <1>2, SameSize, FST!FS_CardinalityType
<1>4. \A S \in SUBSET Blocks : Cardinality(S) = 0 <=> S = {}
  BY <1>2, SameSize, FST!FS_EmptySet
<1>5. \A S, T \in SUBSET Blocks : Cardinality(S \ T) = Cardinality(S) - Cardinality(S \intersect T)
  BY <1>2, SameSize, FST!FS_Difference
<1>6. \A a, b \in Int : a <= b + 1 => Cardinality(a .. b) = b - a + 1
  <2> SUFFICES ASSUME NEW a \in Int, NEW b \in Int, a <= b + 1
               PROVE  Cardinality(a .. b) = b - a + 1
    OBVIOUS
  <2>1. FST!Cardinality(a .. b) = IF a > b THEN 0 ELSE b - a + 1
    BY FST!FS_Interval
  <2>2. FST!Cardinality(a .. b) = b - a + 1
    BY <2>1, SMT
  <2> QED BY <2>2, SameSize
<1> QED BY <1>3, <1>4, <1>5, <1>6 DEF Counting

(* Every set of natural numbers has a least one. *)
LEMMA Least == \A T \in SUBSET Nat : T # {} => \E x \in T : \A y \in T : x <= y
<1> SUFFICES ASSUME NEW T \in SUBSET Nat, T # {} PROVE \E x \in T : \A y \in T : x <= y
  OBVIOUS
<1> DEFINE R == WF!OpToRel(<, Nat)
<1>1. WF!IsWellFoundedOn(R, Nat)
  BY WF!NatLessThanWellFounded
<1>2. \A x, y \in Nat : x < y => <<x, y>> \in R
  BY SMT DEF WF!OpToRel
<1> HIDE DEF R
<1>3. PICK x \in T : \A y \in T : ~ (<<y, x>> \in R)
  BY <1>1, WF!WFMin
<1>4. \A y \in T : ~ (y < x)
  BY <1>2, <1>3
<1> QED BY <1>4, SMT

(* So induction over the natural numbers is sound. *)
LEMMA InductionHolds == Induction
<1> SUFFICES ASSUME NEW Q, 0 \in Q, \A n \in Nat : n \in Q => n + 1 \in Q
             PROVE  Nat \subseteq Q
  BY DEF Induction
<1> DEFINE T == Nat \ Q
<1> SUFFICES ASSUME T # {} PROVE FALSE
  BY SMT
<1>1. PICK x \in T : \A y \in T : x <= y
  BY Least
<1>2. x # 0 /\ x \in Nat
  BY <1>1, SMT
<1>3. x - 1 \in Nat /\ x - 1 \notin T
  BY <1>1, <1>2, SMT
<1> QED BY <1>1, <1>2, <1>3, SMT

(* Taking an element away makes a set of numbers smaller by one. *)
LEMMA SizesHold == Sizes
<1>1. Cardinality({}) = 0
  BY SameSize, FST!FS_EmptySet
<1>2. ASSUME NEW n \in Nat, NEW S \in SUBSET (1 .. n), NEW e \in S
      PROVE  Cardinality(S) = Cardinality(S \ {e}) + 1
  <2>1. FST!IsFiniteSet(1 .. n)
    BY FST!FS_Interval, SMT
  <2>2. FST!IsFiniteSet(S)
    BY <2>1, FST!FS_Subset
  <2>3. FST!Cardinality(S \ {e}) = FST!Cardinality(S) - 1 /\ FST!Cardinality(S) \in Nat
    BY <2>2, FST!FS_RemoveElement, FST!FS_CardinalityType
  <2>4. FST!Cardinality(S \ {e}) = Cardinality(S \ {e}) /\ FST!Cardinality(S) = Cardinality(S)
    BY SameSize
  <2> QED BY <2>3, <2>4, SMT
<1> QED BY <1>1, <1>2 DEF Sizes

(* There are finitely many slots. *)
LEMMA FitsHolds == Fits
<1>1. FST!IsFiniteSet(Slots)
  BY SlotsAssumption, SameFinite
<1>2. Cardinality(Slots) \in Nat
  BY <1>1, SameSize, FST!FS_CardinalityType
<1>3. ASSUME NEW n \in Nat, NEW q \in [1 .. n -> Slots], IsInjective(q)
      PROVE  n <= Cardinality(Slots)
  <2>1. q \in FST!Injection(1 .. n, Slots)
    BY <1>3 DEF IsInjective, FST!Injection, FST!IsInjective
  <2>2. FST!Cardinality(1 .. n) <= FST!Cardinality(Slots)
    BY <1>1, <2>1, FST!FS_Injection
  <2>3. 1 \in Int /\ n \in Int /\ 1 <= n + 1 /\ n - 1 + 1 = n
    BY SMT
  <2>4. Cardinality(1 .. n) = n
    BY <2>3, CountingHolds DEF Counting
  <2> QED BY <2>2, <2>4, SameSize
<1> QED BY <1>2, <1>3 DEF Fits

(* filent_try_reuse never overwrites an entry that is still in use and      *)
(* loses none that is not, whatever the interleaving of the writes.         *)
THEOREM RefsExact == Spec => []RefExact
<1>1. Init => IInv
  BY InitInv, CountingHolds
<1>2. IInv /\ [Next]_vars => IInv'
  BY NextInv, StutterInv, CountingHolds, SortingHolds, InductionHolds, SizesHold
<1>3. IInv => RefExact
  <2> SUFFICES ASSUME IInv, NEW f \in Live PROVE
         /\ \A s \in Range(list[f]) \ Filling(f) : ent[s].ref = Cardinality(Indexed(f, s))
         /\ Range(invalid[f]) = {s \in Range(list[f]) \ Filling(f) : ent[s].ref = 0}
         /\ \A i, j \in DOMAIN invalid[f] : invalid[f][i] = invalid[f][j] => i = j
         /\ \A b \in Blocks : index[f][b] # Null => /\ index[f][b] \in Range(list[f])
                                                    /\ b \in Covers(ent[index[f][b]])
    BY DEF RefExact
  <2>1. RefOK(list[f], invalid[f], index[f], ent, Filling(f))
    BY DEF Live, IInv, RefOf
  <2>2. \A s : Indexed(f, s) = Uses(index[f], s)
    BY DEF Indexed, Uses
  <2> QED BY <2>1, <2>2 DEF RefOK, IsInjective
<1> QED BY <1>1, <1>2, <1>3, PTL DEF Spec

(* inode_write_atomic and filent_insert_callback use no data block twice    *)
(* and lose none, however writes of several files interleave, as long as no *)
(* file is released; and do_inode_release leaves none of the blocks of the  *)
(* only file behind.                                                        *)
THEOREM BlocksKept == Spec => []((Calm \/ OneFile \/ ~ MayRelease) => BlocksExact)
<1>1. Init => BInv
  BY InitInv, InitData, CountingHolds DEF BInv
<1>2. BInv /\ [Next]_vars => BInv'
  <2> SUFFICES ASSUME BInv, [Next]_vars PROVE BInv'
    OBVIOUS
  <2>1. IInv'
    BY NextInv, StutterInv, CountingHolds, SortingHolds, InductionHolds, SizesHold DEF BInv
  <2> QED BY <2>1, BlocksStep, BlocksStutter
<1>3. BInv => ((Calm \/ OneFile \/ ~ MayRelease) => BlocksExact)
  BY BlocksFollow
<1> QED BY <1>1, <1>2, <1>3, PTL DEF Spec

(* The invariant of the log in PM holds throughout. *)
LEMMA CrashInv == Spec => []CInv
<1>1. Init => CInv
  BY InitInv, InitData, InitLink, InitPm, CountingHolds DEF CInv, BInv
<1>2. CInv /\ [Next]_vars => CInv'
  <2> SUFFICES ASSUME CInv, [Next]_vars PROVE CInv'
    OBVIOUS
  <2>1. IInv'
    BY NextInv, StutterInv, CountingHolds, SortingHolds, InductionHolds, SizesHold DEF CInv, BInv
  <2> QED BY <2>1, CrashStep, CrashStutter
<1> QED BY <1>1, <1>2, PTL DEF Spec

(* At every crash point the log recovery walks has the entries of the list  *)
(* in DRAM in their order and ends in the ghost slot, however often invalid *)
(* entries were overwritten in the middle of it, and however writes of      *)
(* several files interleave, as long as no other file is released.          *)
THEOREM ChainsMatch == Spec => []((Calm \/ OneFile \/ ~ MayRelease) => ChainMatches)
<1>1. CInv => ((Calm \/ OneFile \/ ~ MayRelease) => ChainMatches)
  BY ChainFollows, CountingHolds, InductionHolds, FitsHolds
<1> QED BY <1>1, CrashInv, PTL

(* A crash at any point finds in each block what the last write stored for  *)
(* it wrote, with one writing thread or one file (++sbi->ts is not atomic   *)
(* among writers of different files), as long as no other file is released. *)
THEOREM CrashSafe ==
  Spec => [](OneWriting /\ (Calm \/ OneFile \/ ~ MayRelease) => CrashContent)
<1>1. CInv => (OneWriting /\ (Calm \/ OneFile \/ ~ MayRelease) => CrashContent)
  BY CrashFollows, CountingHolds, InductionHolds, FitsHolds
<1> QED BY <1>1, CrashInv, PTL
=============================================================================
