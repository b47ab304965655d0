-------------------------- MODULE SlotBitmapProofs --------------------------
(***************************************************************************)
(* Proofs about the slot allocator, for any number of threads, bitmaps and *)
(* bits.  Two facts carry the first part: the search of the locked section *)
(* returns a clear bit whenever the bitmap has one, and, while callers     *)
(* never outnumber the free slots (Ample), the bitmap has one.             *)
(*                                                                         *)
(* The second part is about a fresh image, right up to exhaustion: as long *)
(* as nothing is freed the bits are taken in order, so the search that     *)
(* starts at the hint can neither miss a clear bit nor return a set one,   *)
(* however many callers have read `remain` before the bitmap filled up.    *)
(***************************************************************************)
EXTENDS SlotBitmap, FiniteSetTheorems, TLAPS

(* A nonempty set of naturals has a least element, and Min is it. *)
LEMMA MinIsLeast ==
  ASSUME NEW S \in SUBSET Nat, S # {}
  PROVE  Min(S) \in S /\ \A y \in S : Min(S) <= y
<1>1. IsWellFoundedOn(OpToRel(<, Nat), Nat)
  BY NatLessThanWellFounded, Zenon
<1>2. PICK x \in S : \A y \in S : ~(<<y, x>> \in OpToRel(<, Nat))
  BY <1>1, WFMin, Zenon
<1>3. \A y \in S : x <= y
  <2> SUFFICES ASSUME NEW y \in S, ~(x <= y) PROVE FALSE
    OBVIOUS
  <2>1. <<y, x>> \in OpToRel(<, Nat)
    BY DEF OpToRel
  <2> QED BY <1>2, <2>1, Zenon
<1> QED BY <1>2, <1>3, Zenon DEF Min

(* next_zero_bit returns a clear bit of [offset, size), or size when there *)
(* is none.                                                                *)
LEMMA NextZeroBit ==
  ASSUME NEW bitmap, NEW size \in Nat, NEW offset \in Nat
  PROVE  LET r == next_zero_bit(bitmap, size, offset)
         IN  \/ r \in offset .. size - 1 /\ r \notin bitmap
             \/ r = size /\ \A i \in offset .. size - 1 : i \in bitmap
<1> DEFINE zeros == ZeroBits(bitmap, size, offset)
<1>1. CASE zeros = {}
  BY <1>1, Zenon DEF next_zero_bit, ZeroBits
<1>2. CASE zeros # {}
  <2>1. zeros \in SUBSET Nat
    BY DEF ZeroBits
  <2>2. Min(zeros) \in zeros
    BY <1>2, <2>1, MinIsLeast, Zenon
  <2> QED BY <1>2, <2>2, Zenon DEF next_zero_bit, ZeroBits
<1> QED BY <1>1, <1>2, Zenon

(* bit_offset + bit and the division in do_slot_free undo each other. *)
LEMMA IndexInverse ==
  ASSUME NEW m \in Maps, NEW bit \in Bits
  PROVE  /\ Index(m, bit) \in Slots
         /\ MapOf(Index(m, bit)) = m
         /\ BitOf(Index(m, bit)) = bit
<1>1. m * BIT_NUM \in Nat /\ m * BIT_NUM + BIT_NUM <= MAP_NUM * BIT_NUM
  BY MapAssumption DEF Maps
<1>2. Index(m, bit) \in Slots
  BY <1>1, MapAssumption DEF Index, Slots, Bits
<1>3. MapOf(Index(m, bit)) = m /\ BitOf(Index(m, bit)) = bit
  BY MapAssumption DEF Index, MapOf, BitOf, Maps, Bits
<1> QED BY <1>2, <1>3, Zenon

(* Every slot index has a bitmap and a bit, and is rebuilt from them. *)
LEMMA SlotInverse ==
  ASSUME NEW i \in Slots
  PROVE  /\ MapOf(i) \in Maps
         /\ BitOf(i) \in Bits
         /\ i = Index(MapOf(i), BitOf(i))
<1>1. /\ MapOf(i) \in Nat
      /\ BitOf(i) \in Bits
      /\ i = Index(MapOf(i), BitOf(i))
  BY MapAssumption DEF Index, MapOf, BitOf, Slots, Bits
<1>2. MapOf(i) < MAP_NUM
  BY MapAssumption DEF MapOf, Slots
<1> QED BY <1>1, <1>2, MapAssumption DEF Maps

(* The bits of a set of slots in one bitmap. *)
LEMMA BitsInChar ==
  ASSUME NEW S \in SUBSET Slots, NEW m \in Maps
  PROVE  /\ BitsIn(S, m) \in SUBSET Bits
         /\ \A bit \in Bits : bit \in BitsIn(S, m) <=> Index(m, bit) \in S
<1>1. BitsIn(S, m) \in SUBSET Bits
  BY SlotInverse, Zenon DEF BitsIn
<1>2. ASSUME NEW bit \in Bits, bit \in BitsIn(S, m) PROVE Index(m, bit) \in S
  BY <1>2, SlotInverse, Zenon DEF BitsIn
<1>3. ASSUME NEW bit \in Bits, Index(m, bit) \in S PROVE bit \in BitsIn(S, m)
  BY <1>3, IndexInverse, Zenon DEF BitsIn
<1> QED BY <1>1, <1>2, <1>3, Zenon

(* Any set of bits is finite and counts at most BIT_NUM. *)
LEMMA BitSets ==
  ASSUME NEW S \in SUBSET Bits
  PROVE  /\ IsFiniteSet(S)
         /\ Cardinality(S) \in Nat
         /\ Cardinality(S) <= BIT_NUM
         /\ Cardinality(S) = BIT_NUM => S = Bits
<1>1. IsFiniteSet(Bits) /\ Cardinality(Bits) = BIT_NUM
  BY FS_Interval, MapAssumption DEF Bits
<1> QED BY <1>1, FS_Subset, FS_CardinalityType, Zenon

(* The callers inside do_slot_alloc are finitely many. *)
LEMMA InFlightFinite ==
  IsFiniteSet(InFlight) /\ Cardinality(InFlight) \in Nat
BY ThreadAssumption, FS_Subset, FS_CardinalityType, Zenon DEF InFlight
-----------------------------------------------------------------------------
(* The search: what FindBit returns, and that it misses no clear bit. *)
LEMMA FindBitResult ==
  ASSUME TypeOK, NEW m \in Maps
  PROVE  /\ FindBit(m) \in Nat
         /\ FindBit(m) < BIT_NUM => FindBit(m) \in Bits
         /\ dram[m] # Bits => FindBit(m) \in Bits \ dram[m]
<1> DEFINE b1 == next_zero_bit(dram[m], BIT_NUM, hint[m])
           b2 == next_zero_bit(dram[m], hint[m], 0)
<1>1. hint[m] \in Nat /\ hint[m] <= BIT_NUM /\ BIT_NUM \in Nat
      /\ dram[m] \subseteq Bits
  BY MapAssumption DEF TypeOK
<1>2. \/ b1 \in hint[m] .. BIT_NUM - 1 /\ b1 \notin dram[m]
      \/ b1 = BIT_NUM /\ \A i \in hint[m] .. BIT_NUM - 1 : i \in dram[m]
  BY <1>1, NextZeroBit, Zenon
<1>3. \/ b2 \in 0 .. hint[m] - 1 /\ b2 \notin dram[m]
      \/ b2 = hint[m] /\ \A i \in 0 .. hint[m] - 1 : i \in dram[m]
  BY <1>1, NextZeroBit, Zenon
<1>4. FindBit(m) = IF b1 >= BIT_NUM THEN b2 ELSE b1
  BY Zenon DEF FindBit
<1> HIDE DEF b1, b2
<1>5. FindBit(m) \in Nat /\ (FindBit(m) < BIT_NUM => FindBit(m) \in Bits)
  BY <1>1, <1>2, <1>3, <1>4 DEF Bits
<1>6. ASSUME dram[m] # Bits PROVE FindBit(m) \in Bits \ dram[m]
  <2>1. PICK z \in Bits : z \notin dram[m]
    BY <1>1, <1>6, Zenon
  <2> QED BY <1>1, <1>2, <1>3, <1>4, <2>1 DEF Bits
<1> QED BY <1>5, <1>6, Zenon

(* Types hold at the start and are kept by every step. *)
LEMMA TypeInit == Init => TypeOK
<1> SUFFICES ASSUME Init PROVE TypeOK
  OBVIOUS
<1>1. ASSUME NEW m \in Maps
      PROVE  /\ BitsIn(Reserved, m) \in SUBSET Bits
             /\ BIT_NUM - Cardinality(BitsIn(Reserved, m)) \in 0 .. SIZE_MAX
             /\ next_zero_bit(BitsIn(Reserved, m), BIT_NUM, 0) \in 0 .. BIT_NUM
  <2>1. BitsIn(Reserved, m) \in SUBSET Bits
    BY BitsInChar, ReservedAssumption, Zenon
  <2>2. Cardinality(BitsIn(Reserved, m)) \in 0 .. BIT_NUM
    BY <2>1, BitSets, MapAssumption
  <2>3. next_zero_bit(BitsIn(Reserved, m), BIT_NUM, 0) \in 0 .. BIT_NUM
    BY NextZeroBit, MapAssumption
  <2> QED BY <2>1, <2>2, <2>3, MapAssumption, SizeAssumption
<1>2. 0 \in Maps
  BY MapAssumption DEF Maps
<1> QED BY <1>1, <1>2, Zenon DEF Init, TypeOK

(* Every step keeps the types. *)
LEMMA TypeStep == TypeOK /\ [Next]_vars => TypeOK'
<1> SUFFICES ASSUME TypeOK, [Next]_vars PROVE TypeOK'
  OBVIOUS
<1> USE DEF TypeOK
<1>1. CASE UNCHANGED vars
  BY <1>1, Zenon DEF vars
<1>2. ASSUME NEW t \in Threads, NextMap(t)
      PROVE  /\ current' \in [Threads -> Maps]
             /\ pc' \in [Threads -> {"idle", "check", "lock"}]
  <2>1. (current[t] + 1) % MAP_NUM \in Maps
    BY MapAssumption, SMTT(60) DEF Maps
  <2> QED BY <1>2, <2>1, Zenon DEF NextMap
<1>3. ASSUME NEW t \in Threads, AllocBegin(t) PROVE TypeOK'
  BY <1>3 DEF AllocBegin
<1>4. ASSUME NEW t \in Threads, AllocCheck(t) PROVE TypeOK'
  BY <1>2, <1>4, Zenon DEF AllocCheck
<1>5. ASSUME NEW t \in Threads, AllocTake(t) PROVE TypeOK'
  <2> DEFINE m == current[t]
             bit == FindBit(m)
  <2>1. m \in Maps /\ bit \in Bits /\ bit + 1 \in 0 .. BIT_NUM
    BY <1>5, FindBitResult, MapAssumption DEF AllocTake, Bits
  <2>2. Index(m, bit) \in Slots
    BY <2>1, IndexInverse, Zenon
  <2>3. Decremented(remain[m]) \in 0 .. SIZE_MAX
    BY <2>1, SizeAssumption DEF Decremented
  <2>4. /\ dram' = [dram EXCEPT ![m] = @ \union {bit}]
        /\ hint' = [hint EXCEPT ![m] = bit + 1]
        /\ remain' = [remain EXCEPT ![m] = Decremented(@)]
        /\ held' = [held EXCEPT ![t] = @ \union {Index(m, bit)}]
        /\ pc' = [pc EXCEPT ![t] = "idle"]
        /\ UNCHANGED <<start, current>>
    BY <1>5, Zenon DEF AllocTake
  <2> HIDE DEF m, bit
  <2> QED BY <2>1, <2>2, <2>3, <2>4, Zenon
<1>6. ASSUME NEW t \in Threads, AllocMiss(t) PROVE TypeOK'
  BY <1>2, <1>6, Zenon DEF AllocMiss
<1>7. ASSUME NEW t \in Threads, Free(t) PROVE TypeOK'
  <2>1. PICK i \in held[t] :
          /\ dram' = [dram EXCEPT ![MapOf(i)] = @ \ {BitOf(i)}]
          /\ remain' = [remain EXCEPT ![MapOf(i)] = Incremented(@)]
          /\ held' = [held EXCEPT ![t] = @ \ {i}]
    BY <1>7, Zenon DEF Free
  <2>2. MapOf(i) \in Maps
    BY SlotInverse, Zenon
  <2>3. Incremented(remain[MapOf(i)]) \in 0 .. SIZE_MAX
    BY <2>2, SizeAssumption DEF Incremented
  <2>4. UNCHANGED <<hint, pc, start, current>>
    BY <1>7, Zenon DEF Free
  <2> QED BY <2>1, <2>2, <2>3, <2>4, Zenon
<1> QED BY <1>1, <1>3, <1>4, <1>5, <1>6, <1>7, Zenon DEF Next

(* Type correctness, in every mode: do_slot_alloc never indexes past a     *)
(* bitmap and never returns an index past the table.                       *)
THEOREM TypeCorrect == Spec => []TypeOK
BY TypeInit, TypeStep, PTL DEF Spec
-----------------------------------------------------------------------------
(* BitmapExact, one bit at a time. *)
BitExact ==
  \A m \in Maps : \A bit \in Bits :
    bit \in dram[m] <=> \/ Index(m, bit) \in Reserved
                        \/ \E t \in Threads : Index(m, bit) \in held[t]

(* Every caller inside do_slot_alloc will find a clear bit. *)
Room ==
  \A m \in Maps : Cardinality(dram[m]) + Cardinality(InFlight) <= BIT_NUM

IInv == TypeOK /\ NoDoubleAlloc /\ BitExact /\ RemainExact /\ Room

(* The two statements of bitmap exactness agree. *)
LEMMA BitExactBitmapExact ==
  ASSUME TypeOK, BitExact PROVE BitmapExact
<1> SUFFICES ASSUME NEW m \in Maps
             PROVE  dram[m] = BitsIn(Reserved, m)
                                \union UNION {BitsIn(held[t], m) : t \in Threads}
  BY Zenon DEF BitmapExact
<1>1. \A t \in Threads : held[t] \in SUBSET Slots
  BY Zenon DEF TypeOK
<1>2. dram[m] \in SUBSET Bits
  BY Zenon DEF TypeOK
<1>3. \A t \in Threads :
        /\ BitsIn(held[t], m) \in SUBSET Bits
        /\ \A bit \in Bits : bit \in BitsIn(held[t], m) <=> Index(m, bit) \in held[t]
  BY <1>1, BitsInChar, Zenon
<1>4. /\ BitsIn(Reserved, m) \in SUBSET Bits
      /\ \A bit \in Bits : bit \in BitsIn(Reserved, m) <=> Index(m, bit) \in Reserved
  BY BitsInChar, ReservedAssumption, Zenon
<1> QED BY <1>2, <1>3, <1>4 DEF BitExact

(* Entering do_slot_alloc adds the caller to those in flight, leaving it   *)
(* removes it, and the ones in between change nothing.                     *)
LEMMA InFlightSteps ==
  ASSUME TypeOK, NEW t \in Threads
  PROVE  /\ AllocBegin(t) => InFlight' = InFlight \union {t} /\ t \notin InFlight
         /\ pc[t] # "idle" /\ pc' = [pc EXCEPT ![t] = "idle"] =>
              InFlight' = InFlight \ {t} /\ t \in InFlight
         /\ (AllocCheck(t) \/ AllocMiss(t)) => InFlight' \subseteq InFlight
  BY DEF TypeOK, InFlight, AllocBegin, AllocCheck, AllocMiss, NextMap

(* A step that leaves dram, held and remain alone and puts no further      *)
(* caller in flight keeps the invariant.                                   *)
LEMMA QuietStep ==
  ASSUME IInv, TypeOK', UNCHANGED <<dram, remain, held>>, InFlight' \subseteq InFlight
  PROVE  IInv'
<1>1. NoDoubleAlloc' /\ BitExact' /\ RemainExact'
  BY Zenon DEF IInv, NoDoubleAlloc, BitExact, RemainExact
<1>2. Cardinality(InFlight') <= Cardinality(InFlight) /\ Cardinality(InFlight') \in Nat
  BY InFlightFinite, FS_Subset, FS_CardinalityType, Zenon
<1>3. ASSUME NEW m \in Maps
      PROVE  Cardinality(dram'[m]) + Cardinality(InFlight') <= BIT_NUM
  <2>1. dram' = dram /\ Cardinality(dram[m]) \in Nat
    BY BitSets, Zenon DEF IInv, TypeOK
  <2>2. Cardinality(dram[m]) + Cardinality(InFlight) <= BIT_NUM
    BY Zenon DEF IInv, Room
  <2> QED BY <1>2, <2>1, <2>2, InFlightFinite, MapAssumption
<1> QED BY <1>1, <1>3, Zenon DEF IInv, Room

(* Entering do_slot_alloc: Ample leaves room for one more caller. *)
LEMMA BeginStep ==
  ASSUME Ample, IInv, TypeOK', NEW t \in Threads, AllocBegin(t)
  PROVE  IInv'
<1>1. UNCHANGED <<dram, remain, held>>
  BY Zenon DEF AllocBegin
<1>2. NoDoubleAlloc' /\ BitExact' /\ RemainExact'
  BY <1>1, Zenon DEF IInv, NoDoubleAlloc, BitExact, RemainExact
<1>3. InFlight' = InFlight \union {t} /\ t \notin InFlight
  BY InFlightSteps, Zenon DEF IInv
<1>4. Cardinality(InFlight') = Cardinality(InFlight) + 1
  BY <1>3, InFlightFinite, FS_AddElement, Zenon
<1>5. ASSUME NEW m \in Maps
      PROVE  Cardinality(dram'[m]) + Cardinality(InFlight') <= BIT_NUM
  <2>1. Cardinality(dram[m]) \in Nat
    BY BitSets, Zenon DEF IInv, TypeOK
  <2>2. Cardinality(dram[m]) + Cardinality(InFlight) < BIT_NUM
    BY Zenon DEF AllocBegin
  <2> QED BY <1>1, <1>4, <2>1, <2>2, InFlightFinite, MapAssumption
<1> QED BY <1>2, <1>5, Zenon DEF IInv, Room

(* What AllocTake(t) hands out is clear in the bitmap and nobody's. *)
LEMMA TakeIsFresh ==
  ASSUME IInv, NEW t \in Threads, pc[t] = "lock"
  PROVE  /\ current[t] \in Maps
         /\ FindBit(current[t]) \in Bits \ dram[current[t]]
         /\ Index(current[t], FindBit(current[t])) \in Slots \ Reserved
         /\ \A u \in Threads : Index(current[t], FindBit(current[t])) \notin held[u]
<1> DEFINE m == current[t]
<1>1. m \in Maps /\ TypeOK
  BY Zenon DEF IInv, TypeOK
<1>2. t \in InFlight
  BY Zenon DEF InFlight
<1>3. Cardinality(InFlight) >= 1
  BY <1>2, InFlightFinite, FS_EmptySet
<1>4. Cardinality(dram[m]) < BIT_NUM
  <2>1. Cardinality(dram[m]) \in Nat
    BY <1>1, BitSets, Zenon DEF TypeOK
  <2>2. Cardinality(dram[m]) + Cardinality(InFlight) <= BIT_NUM
    BY <1>1, Zenon DEF IInv, Room
  <2> QED BY <1>3, <2>1, <2>2, InFlightFinite, MapAssumption
<1>5. dram[m] # Bits
  <2>1. Cardinality(Bits) = BIT_NUM
    BY FS_Interval, MapAssumption DEF Bits
  <2> QED BY <1>4, <2>1, MapAssumption
<1>6. FindBit(m) \in Bits \ dram[m]
  BY <1>1, <1>5, FindBitResult, Zenon
<1>7. Index(m, FindBit(m)) \in Slots
  BY <1>1, <1>6, IndexInverse, Zenon
<1> QED BY <1>1, <1>6, <1>7, Zenon DEF IInv, BitExact

(* The locked section moves one slot from the bitmap to the caller. *)
LEMMA TakeStep ==
  ASSUME IInv, TypeOK', NEW t \in Threads, AllocTake(t)
  PROVE  IInv'
<1> DEFINE m == current[t]
           bit == FindBit(m)
           i == Index(m, bit)
<1>1. /\ m \in Maps /\ bit \in Bits \ dram[m] /\ i \in Slots \ Reserved
      /\ \A u \in Threads : i \notin held[u]
  BY TakeIsFresh, Zenon DEF AllocTake
<1>2. /\ dram' = [dram EXCEPT ![m] = @ \union {bit}]
      /\ remain' = [remain EXCEPT ![m] = Decremented(@)]
      /\ held' = [held EXCEPT ![t] = @ \union {i}]
      /\ pc' = [pc EXCEPT ![t] = "idle"]
      /\ pc[t] = "lock"
  BY Zenon DEF AllocTake
<1>3. TypeOK
  BY Zenon DEF IInv
<1>4. \A n \in Maps, b \in Bits : Index(n, b) = i <=> n = m /\ b = bit
  BY <1>1, IndexInverse
<1> HIDE DEF m, bit, i
<1>5. NoDoubleAlloc'
  BY <1>1, <1>2, <1>3 DEF IInv, NoDoubleAlloc, TypeOK
<1>6. BitExact'
  BY <1>1, <1>2, <1>3, <1>4 DEF IInv, BitExact, TypeOK
<1>7. /\ Cardinality(dram[m]) \in Nat /\ Cardinality(dram[m]) <= BIT_NUM
      /\ Cardinality(dram'[m]) = Cardinality(dram[m]) + 1
      /\ Cardinality(dram'[m]) <= BIT_NUM
  <2>1. dram[m] \in SUBSET Bits /\ dram'[m] = dram[m] \union {bit}
    BY <1>1, <1>2, <1>3, Zenon DEF TypeOK
  <2>2. dram'[m] \in SUBSET Bits
    BY <1>1, <2>1, Zenon
  <2> QED BY <1>1, <2>1, <2>2, BitSets, FS_AddElement, Zenon
<1>8. RemainExact'
  <2> SUFFICES ASSUME NEW n \in Maps
               PROVE  remain'[n] = BIT_NUM - Cardinality(dram'[n])
    BY Zenon DEF RemainExact
  <2>1. CASE n # m
    BY <1>1, <1>2, <1>3, <2>1, Zenon DEF IInv, RemainExact, TypeOK
  <2>2. CASE n = m
    <3>1. remain[m] = BIT_NUM - Cardinality(dram[m])
      BY <1>1, Zenon DEF IInv, RemainExact
    <3>2. remain'[m] = Decremented(remain[m])
      BY <1>1, <1>2, <1>3, Zenon DEF TypeOK
    <3> QED BY <1>7, <2>2, <3>1, <3>2, MapAssumption DEF Decremented
  <2> QED BY <2>1, <2>2, Zenon
<1>9. Room'
  <2>1. InFlight' = InFlight \ {t} /\ t \in InFlight
    BY <1>2, <1>3, InFlightSteps, Zenon
  <2>2. Cardinality(InFlight') = Cardinality(InFlight) - 1
    BY <2>1, InFlightFinite, FS_RemoveElement, Zenon
  <2> SUFFICES ASSUME NEW n \in Maps
               PROVE  Cardinality(dram'[n]) + Cardinality(InFlight') <= BIT_NUM
    BY Zenon DEF Room
  <2>3. Cardinality(dram[n]) \in Nat
        /\ Cardinality(dram[n]) + Cardinality(InFlight) <= BIT_NUM
    BY <1>3, BitSets, Zenon DEF IInv, Room, TypeOK
  <2>4. Cardinality(dram'[n]) <= Cardinality(dram[n]) + 1 /\ Cardinality(dram'[n]) \in Nat
    <3>1. CASE n = m
      BY <1>7, <3>1
    <3>2. CASE n # m
      BY <1>1, <1>2, <1>3, <2>3, <3>2 DEF TypeOK
    <3> QED BY <3>1, <3>2, Zenon
  <2> QED BY <2>2, <2>3, <2>4, InFlightFinite, MapAssumption
<1> QED BY <1>5, <1>6, <1>8, <1>9, Zenon DEF IInv

(* do_slot_free moves it back. *)
LEMMA FreeStep ==
  ASSUME IInv, TypeOK', NEW t \in Threads, Free(t)
  PROVE  IInv'
<1>1. PICK i \in held[t] :
        /\ dram' = [dram EXCEPT ![MapOf(i)] = @ \ {BitOf(i)}]
        /\ remain' = [remain EXCEPT ![MapOf(i)] = Incremented(@)]
        /\ held' = [held EXCEPT ![t] = @ \ {i}]
        /\ pc' = pc
  BY Zenon DEF Free
<1> DEFINE m == MapOf(i)
           bit == BitOf(i)
<1>2. TypeOK
  BY Zenon DEF IInv
<1>3. i \in Slots /\ m \in Maps /\ bit \in Bits /\ i = Index(m, bit)
  BY <1>2, SlotInverse, Zenon DEF TypeOK
<1>4. \A n \in Maps, b \in Bits : Index(n, b) = i <=> n = m /\ b = bit
  BY <1>3, IndexInverse, Zenon
<1>5. /\ dram' = [dram EXCEPT ![m] = @ \ {bit}]
      /\ remain' = [remain EXCEPT ![m] = Incremented(@)]
  BY <1>1, Zenon
<1> HIDE DEF m, bit
<1>6. /\ i \notin Reserved /\ bit \in dram[m]
      /\ \A u \in Threads : u # t => i \notin held[u]
  BY <1>3, Zenon DEF IInv, NoDoubleAlloc, BitExact
<1>7. NoDoubleAlloc'
  BY <1>1, <1>2 DEF IInv, NoDoubleAlloc, TypeOK
<1>8. BitExact'
  BY <1>1, <1>2, <1>3, <1>4, <1>5, <1>6 DEF IInv, BitExact, TypeOK
<1>9. /\ Cardinality(dram[m]) \in Nat /\ Cardinality(dram[m]) <= BIT_NUM
      /\ Cardinality(dram'[m]) \in Nat
      /\ Cardinality(dram'[m]) = Cardinality(dram[m]) - 1
  <2>1. dram[m] \in SUBSET Bits /\ dram'[m] = dram[m] \ {bit}
    BY <1>2, <1>3, <1>5, Zenon DEF TypeOK
  <2>2. dram'[m] \in SUBSET Bits
    BY <2>1, Zenon
  <2> QED BY <1>6, <2>1, <2>2, BitSets, FS_RemoveElement
<1>10. RemainExact'
  <2> SUFFICES ASSUME NEW n \in Maps
               PROVE  remain'[n] = BIT_NUM - Cardinality(dram'[n])
    BY Zenon DEF RemainExact
  <2>1. CASE n # m
    BY <1>2, <1>3, <1>5, <2>1, Zenon DEF IInv, RemainExact, TypeOK
  <2>2. CASE n = m
    <3>1. remain[m] = BIT_NUM - Cardinality(dram[m])
      BY <1>3, Zenon DEF IInv, RemainExact
    <3>2. remain'[m] = Incremented(remain[m])
      BY <1>2, <1>3, <1>5, Zenon DEF TypeOK
    <3> QED BY <1>9, <2>2, <3>1, <3>2, MapAssumption, SizeAssumption DEF Incremented
  <2> QED BY <2>1, <2>2, Zenon
<1>11. Room'
  <2>1. InFlight' = InFlight
    BY <1>1, Zenon DEF InFlight
  <2> SUFFICES ASSUME NEW n \in Maps
               PROVE  Cardinality(dram'[n]) + Cardinality(InFlight) <= BIT_NUM
    BY <2>1, Zenon DEF Room
  <2>2. Cardinality(dram[n]) \in Nat
        /\ Cardinality(dram[n]) + Cardinality(InFlight) <= BIT_NUM
    BY <1>2, BitSets, Zenon DEF IInv, Room, TypeOK
  <2>3. Cardinality(dram'[n]) <= Cardinality(dram[n]) /\ Cardinality(dram'[n]) \in Nat
    <3>1. CASE n = m
      BY <1>9, <3>1
    <3>2. CASE n # m
      BY <1>2, <1>3, <1>5, <2>2, <3>2 DEF TypeOK
    <3> QED BY <3>1, <3>2, Zenon
  <2> QED BY <2>2, <2>3, InFlightFinite, MapAssumption
<1> QED BY <1>7, <1>8, <1>10, <1>11, Zenon DEF IInv

(* The bitmaps shm_init_bitmap computes from PM satisfy the invariant. *)
LEMMA InvInit == Init => IInv
<1> SUFFICES ASSUME Init PROVE IInv
  OBVIOUS
<1>1. TypeOK
  BY TypeInit, Zenon
<1>2. NoDoubleAlloc /\ RemainExact
  BY Zenon DEF Init, NoDoubleAlloc, RemainExact
<1>3. BitExact
  BY BitsInChar, ReservedAssumption, Zenon DEF Init, BitExact
<1>4. Room
  <2>1. Cardinality(InFlight) = 0
    BY FS_EmptySet, Zenon DEF Init, InFlight
  <2> QED BY <1>1, <2>1, BitSets DEF Room, TypeOK
<1> QED BY <1>1, <1>2, <1>3, <1>4, Zenon DEF IInv

(* Every step of every thread keeps the invariant. *)
LEMMA InvStep == ASSUME Ample PROVE IInv /\ [Next]_vars => IInv'
<1> SUFFICES ASSUME IInv, [Next]_vars PROVE IInv'
  OBVIOUS
<1>1. TypeOK'
  BY TypeStep, Zenon DEF IInv
<1>2. CASE UNCHANGED vars
  <2>1. InFlight' \subseteq InFlight
    BY <1>2, Zenon DEF InFlight, vars
  <2> QED BY <1>1, <1>2, <2>1, QuietStep, Zenon DEF vars
<1>3. ASSUME NEW t \in Threads, AllocBegin(t) PROVE IInv'
  BY <1>1, <1>3, BeginStep, Zenon
<1>4. ASSUME NEW t \in Threads, AllocCheck(t) PROVE IInv'
  <2>1. InFlight' \subseteq InFlight
    BY <1>4, InFlightSteps, Zenon DEF IInv
  <2> QED BY <1>1, <1>4, <2>1, QuietStep, Zenon DEF AllocCheck
<1>5. ASSUME NEW t \in Threads, AllocTake(t) PROVE IInv'
  BY <1>1, <1>5, TakeStep, Zenon
<1>6. ASSUME NEW t \in Threads, AllocMiss(t) PROVE IInv'
  <2>1. InFlight' \subseteq InFlight
    BY <1>6, InFlightSteps, Zenon DEF IInv
  <2> QED BY <1>1, <1>6, <2>1, QuietStep, Zenon DEF AllocMiss
<1>7. ASSUME NEW t \in Threads, Free(t) PROVE IInv'
  BY <1>1, <1>7, FreeStep, Zenon
<1> QED BY <1>2, <1>3, <1>4, <1>5, <1>6, <1>7, Zenon DEF Next

(* While callers never outnumber the free slots, no slot is handed out     *)
(* twice, the bitmap marks exactly the owned slots and `remain` counts the *)
(* clear ones: the unlocked read of `remain` in do_slot_alloc is harmless. *)
THEOREM AmpleSafe ==
  ASSUME Ample
  PROVE  Spec => [](NoDoubleAlloc /\ BitmapExact /\ RemainExact)
<1>1. IInv => NoDoubleAlloc /\ BitmapExact /\ RemainExact
  BY BitExactBitmapExact, Zenon DEF IInv
<1> QED BY InvInit, InvStep, <1>1, PTL DEF Spec

(* Under the same condition do_slot_alloc and do_slot_free implement the   *)
(* abstract allocator: taking and giving back are single steps in which a  *)
(* slot changes hands, and everything else is invisible to the callers.    *)
THEOREM AmpleRefines ==
  ASSUME Ample
  PROVE  Spec => PromiseKept
<1>1. Init => Promise!Init
  BY Zenon DEF Init, Promise!Init
<1>2. IInv /\ [Next]_vars => [Promise!Next]_held
  <2> SUFFICES ASSUME IInv, [Next]_vars, held' # held PROVE Promise!Next
    OBVIOUS
  <2>1. ASSUME NEW t \in Threads, AllocTake(t) PROVE Promise!Take(t)
    <3> DEFINE i == Index(current[t], FindBit(current[t]))
    <3>1. i \in Slots \ Reserved /\ \A u \in Threads : i \notin held[u]
      BY <2>1, TakeIsFresh, Zenon DEF AllocTake
    <3>2. held' = [held EXCEPT ![t] = @ \union {i}]
      BY <2>1, Zenon DEF AllocTake
    <3> HIDE DEF i
    <3>3. i \in Slots \ Promise!Owned
      BY <3>1, Zenon DEF Promise!Owned
    <3> QED BY <3>2, <3>3, Zenon DEF Promise!Take
  <2>2. ASSUME NEW t \in Threads, Free(t) PROVE Promise!Give(t)
    BY <2>2, Zenon DEF Free, Promise!Give
  <2>3. \E t \in Threads : AllocTake(t) \/ Free(t)
    BY Zenon DEF Next, AllocBegin, AllocCheck, AllocMiss, vars
  <2> QED BY <2>1, <2>2, <2>3, Zenon DEF Promise!Next
<1> QED BY InvInit, InvStep, <1>1, <1>2, PTL DEF Spec, PromiseKept, Promise!Spec
-----------------------------------------------------------------------------
(* mkfs marks the first slots of each bitmap and no others. *)
FreshImage ==
  \A m \in Maps : \E k \in 0 .. BIT_NUM : BitsIn(Reserved, m) = 0 .. k - 1

(* The bits below the hint are set, the others clear. *)
Packed == \A m \in Maps : dram[m] = 0 .. hint[m] - 1

(* The bitmaps a caller has been through, cyclically from the first. *)
Passed(t) ==
  IF start[t] <= current[t] THEN start[t] .. current[t] - 1
  ELSE start[t] .. MAP_NUM - 1 \union 0 .. current[t] - 1

Walked == \A t \in Threads : pc[t] # "idle" => \A m \in Passed(t) : dram[m] = Bits

FInv == TypeOK /\ NoDoubleAlloc /\ BitExact /\ RemainExact /\ Packed /\ Walked

(* next_zero_bit returns the bit it starts at when that one is clear. *)
LEMMA NextZeroBitHere ==
  ASSUME NEW bitmap, NEW size \in Nat, NEW offset \in Nat, offset < size, offset \notin bitmap
  PROVE  next_zero_bit(bitmap, size, offset) = offset
<1> DEFINE zeros == ZeroBits(bitmap, size, offset)
<1>1. zeros \in SUBSET Nat /\ offset \in zeros /\ \A z \in zeros : offset <= z
  BY DEF ZeroBits
<1>2. Min(zeros) \in zeros /\ \A y \in zeros : Min(zeros) <= y
  BY <1>1, MinIsLeast, Zenon
<1>3. Min(zeros) = offset
  BY <1>1, <1>2
<1>4. zeros # {}
  BY <1>1, Zenon
<1> QED BY <1>3, <1>4, Zenon DEF next_zero_bit

(* The search of a packed bitmap returns the hint, or misses when it is    *)
(* full.                                                                   *)
LEMMA PackedFind ==
  ASSUME TypeOK, Packed, NEW m \in Maps
  PROVE  /\ FindBit(m) < BIT_NUM => FindBit(m) = hint[m] /\ hint[m] \in Bits \ dram[m]
         /\ FindBit(m) >= BIT_NUM => dram[m] = Bits
<1>1. hint[m] \in Nat /\ hint[m] <= BIT_NUM /\ BIT_NUM \in Nat /\ dram[m] = 0 .. hint[m] - 1
  BY MapAssumption DEF TypeOK, Packed
<1>2. CASE hint[m] < BIT_NUM
  <2>1. hint[m] \notin dram[m] /\ hint[m] \in Bits
    BY <1>1, <1>2 DEF Bits
  <2>2. next_zero_bit(dram[m], BIT_NUM, hint[m]) = hint[m]
    BY <1>1, <1>2, <2>1, NextZeroBitHere, Zenon
  <2>3. FindBit(m) = hint[m]
    BY <1>1, <1>2, <2>2 DEF FindBit
  <2> QED BY <1>1, <1>2, <2>1, <2>3
<1>3. CASE hint[m] = BIT_NUM
  <2>1. dram[m] = Bits
    BY <1>1, <1>3, Zenon DEF Bits
  <2>2. next_zero_bit(dram[m], BIT_NUM, hint[m]) = BIT_NUM
    <3>1. ZeroBits(dram[m], BIT_NUM, hint[m]) = {}
      BY <1>1, <1>3 DEF ZeroBits
    <3> QED BY <3>1, Zenon DEF next_zero_bit
  <2>3. next_zero_bit(dram[m], hint[m], 0) = BIT_NUM
    <3>1. ZeroBits(dram[m], hint[m], 0) = {}
      BY <1>1, <1>3, Zenon DEF ZeroBits
    <3> QED BY <1>3, <3>1, Zenon DEF next_zero_bit
  <2>4. FindBit(m) = BIT_NUM
    BY <1>1, <2>2, <2>3, Zenon DEF FindBit
  <2> QED BY <1>1, <2>1, <2>4
<1> QED BY <1>1, <1>2, <1>3

(* The step to the next bitmap, without the division. *)
LEMMA NextOf ==
  ASSUME NEW c \in Maps
  PROVE  (c + 1) % MAP_NUM = IF c + 1 = MAP_NUM THEN 0 ELSE c + 1
<1>1. c \in Nat /\ MAP_NUM \in Nat /\ c + 1 <= MAP_NUM /\ 0 < MAP_NUM
  BY MapAssumption DEF Maps
<1>2. CASE c + 1 = MAP_NUM
  BY <1>1, <1>2
<1>3. CASE c + 1 < MAP_NUM
  BY <1>1, <1>3
<1> QED BY <1>1, <1>2, <1>3
-----------------------------------------------------------------------------
(* NextMap from a full bitmap: the caller has been through it as well, and *)
(* if it gives up it has been through all of them.                         *)
LEMMA WalkStep ==
  ASSUME FInv, NEW t \in Threads, pc[t] # "idle", dram[current[t]] = Bits, NextMap(t)
  PROVE  /\ pc'[t] = "idle" => \A m \in Maps : dram[m] = Bits
         /\ start' = start => (pc'[t] # "idle" => \A m \in Passed(t)' : dram[m] = Bits)
<1> DEFINE c == current[t]
           s == start[t]
           n == IF c + 1 = MAP_NUM THEN 0 ELSE c + 1
<1>1. c \in Maps /\ s \in Maps /\ pc \in [Threads -> {"idle", "check", "lock"}]
      /\ current \in [Threads -> Maps]
  BY Zenon DEF FInv, TypeOK
<1>2. (c + 1) % MAP_NUM = n
  BY <1>1, NextOf, Zenon
<1>3. /\ current' = [current EXCEPT ![t] = (c + 1) % MAP_NUM]
      /\ pc' = [pc EXCEPT ![t] = IF (c + 1) % MAP_NUM = s THEN "idle" ELSE "check"]
  BY Zenon DEF NextMap
<1>4. current'[t] = n /\ pc'[t] = IF n = s THEN "idle" ELSE "check"
  <2> HIDE DEF n
  <2>1. /\ current'[t] = (c + 1) % MAP_NUM
        /\ pc'[t] = IF (c + 1) % MAP_NUM = s THEN "idle" ELSE "check"
    BY <1>1, <1>3, Zenon
  <2> QED BY <1>2, <2>1, Zenon
<1>5. \A m \in Passed(t) : dram[m] = Bits
  BY Zenon DEF FInv, Walked
<1>6. dram[c] = Bits
  OBVIOUS
<1>7. MAP_NUM \in Nat /\ c \in 0 .. MAP_NUM - 1 /\ s \in 0 .. MAP_NUM - 1
  BY <1>1, MapAssumption, Zenon DEF Maps
<1>8. \A m \in (IF s <= c THEN s .. c - 1 ELSE s .. MAP_NUM - 1 \union 0 .. c - 1) : dram[m] = Bits
  BY <1>5, Zenon DEF Passed
<1> HIDE DEF c, s
<1>9. ASSUME n = s, NEW m \in Maps PROVE dram[m] = Bits
  BY <1>6, <1>7, <1>8, <1>9 DEF Maps
<1>10. ASSUME n # s, NEW m \in (IF s <= n THEN s .. n - 1 ELSE s .. MAP_NUM - 1 \union 0 .. n - 1)
       PROVE  dram[m] = Bits
  BY <1>6, <1>7, <1>8, <1>10
<1>11. ASSUME start' = start, pc'[t] # "idle", NEW m \in Passed(t)' PROVE dram[m] = Bits
  <2>1. start'[t] = s
    BY <1>11, Zenon DEF s
  <2>2. m \in (IF s <= n THEN s .. n - 1 ELSE s .. MAP_NUM - 1 \union 0 .. n - 1)
    BY <1>4, <1>11, <2>1, Zenon DEF Passed
  <2>3. n # s
    BY <1>4, <1>11, Zenon
  <2> QED BY <1>10, <2>2, <2>3, Zenon
<1> QED BY <1>4, <1>9, <1>11, Zenon

(* The bitmaps mkfs wrote satisfy the invariant. *)
LEMMA FreshInit == ASSUME FreshImage PROVE Init => FInv
<1> SUFFICES ASSUME Init PROVE FInv
  OBVIOUS
<1>1. IInv
  BY InvInit, Zenon
<1>2. ASSUME NEW m \in Maps PROVE dram[m] = 0 .. hint[m] - 1
  <2>1. PICK k \in 0 .. BIT_NUM : BitsIn(Reserved, m) = 0 .. k - 1
    BY Zenon DEF FreshImage
  <2>2. dram[m] = 0 .. k - 1 /\ hint[m] = next_zero_bit(0 .. k - 1, BIT_NUM, 0)
    BY <2>1, Zenon DEF Init
  <2>3. LET r == next_zero_bit(0 .. k - 1, BIT_NUM, 0)
        IN  \/ r \in 0 .. BIT_NUM - 1 /\ r \notin 0 .. k - 1
            \/ r = BIT_NUM /\ \A i \in 0 .. BIT_NUM - 1 : i \in 0 .. k - 1
    BY NextZeroBit, MapAssumption, Zenon
  <2>4. hint[m] = k
    <3>1. CASE k = BIT_NUM
      BY <2>2, <2>3, <3>1, MapAssumption, Zenon
    <3>2. CASE k < BIT_NUM
      <4> DEFINE zeros == ZeroBits(0 .. k - 1, BIT_NUM, 0)
      <4>1. zeros \in SUBSET Nat /\ k \in zeros /\ \A z \in zeros : k <= z
        BY <3>2, MapAssumption DEF ZeroBits
      <4>2. Min(zeros) \in zeros /\ \A y \in zeros : Min(zeros) <= y
        BY <4>1, MinIsLeast, Zenon
      <4>3. Min(zeros) = k /\ zeros # {}
        BY <4>1, <4>2
      <4> QED BY <2>2, <4>3, Zenon DEF next_zero_bit
    <3> QED BY <3>1, <3>2, MapAssumption
  <2> QED BY <2>2, <2>4, Zenon
<1>3. Walked
  BY Zenon DEF Walked, Init
<1> QED BY <1>1, <1>2, <1>3, Zenon DEF FInv, IInv, Packed

(* The locked section takes the bit at the hint. *)
LEMMA FreshTake ==
  ASSUME FInv, TypeOK', NEW t \in Threads, AllocTake(t)
  PROVE  FInv'
<1> DEFINE m == current[t]
           bit == FindBit(m)
           i == Index(m, bit)
<1>1. TypeOK /\ Packed /\ m \in Maps
  BY Zenon DEF FInv, TypeOK
<1>2. bit = hint[m] /\ bit \in Bits \ dram[m]
  BY <1>1, PackedFind, Zenon DEF AllocTake
<1>3. i \in Slots \ Reserved /\ \A u \in Threads : i \notin held[u]
  BY <1>1, <1>2, IndexInverse, Zenon DEF FInv, BitExact
<1>4. /\ dram' = [dram EXCEPT ![m] = @ \union {bit}]
      /\ hint' = [hint EXCEPT ![m] = bit + 1]
      /\ remain' = [remain EXCEPT ![m] = Decremented(@)]
      /\ held' = [held EXCEPT ![t] = @ \union {i}]
      /\ pc' = [pc EXCEPT ![t] = "idle"]
      /\ UNCHANGED <<start, current>>
  BY Zenon DEF AllocTake
<1>5. \A n \in Maps, b \in Bits : Index(n, b) = i <=> n = m /\ b = bit
  BY <1>1, <1>2, IndexInverse
<1> HIDE DEF m, bit, i
<1>6. NoDoubleAlloc'
  BY <1>1, <1>3, <1>4 DEF FInv, NoDoubleAlloc, TypeOK
<1>7. BitExact'
  BY <1>1, <1>2, <1>3, <1>4, <1>5 DEF FInv, BitExact, TypeOK
<1>8. RemainExact'
  <2> SUFFICES ASSUME NEW n \in Maps
               PROVE  remain'[n] = BIT_NUM - Cardinality(dram'[n])
    BY Zenon DEF RemainExact
  <2>1. CASE n # m
    BY <1>1, <1>4, <2>1, Zenon DEF FInv, RemainExact, TypeOK
  <2>2. CASE n = m
    <3>1. dram[m] \in SUBSET Bits /\ dram'[m] = dram[m] \union {bit}
      BY <1>1, <1>4, Zenon DEF TypeOK
    <3>2. dram'[m] \in SUBSET Bits
      BY <1>2, <3>1, Zenon
    <3>3. /\ Cardinality(dram[m]) \in Nat
          /\ Cardinality(dram'[m]) = Cardinality(dram[m]) + 1
          /\ Cardinality(dram'[m]) <= BIT_NUM
      BY <1>2, <3>1, <3>2, BitSets, FS_AddElement, Zenon
    <3>4. remain[m] = BIT_NUM - Cardinality(dram[m])
      BY <1>1, Zenon DEF FInv, RemainExact
    <3>5. remain'[m] = Decremented(remain[m])
      BY <1>1, <1>4, Zenon DEF TypeOK
    <3> QED BY <2>2, <3>3, <3>4, <3>5, MapAssumption DEF Decremented
  <2> QED BY <2>1, <2>2, Zenon
<1>9. Packed'
  <2> SUFFICES ASSUME NEW n \in Maps PROVE dram'[n] = 0 .. hint'[n] - 1
    BY Zenon DEF Packed
  <2>1. CASE n # m
    BY <1>1, <1>4, <2>1, Zenon DEF Packed, TypeOK
  <2>2. CASE n = m
    <3>1. dram'[m] = dram[m] \union {bit} /\ hint'[m] = bit + 1
      BY <1>1, <1>4, Zenon DEF TypeOK
    <3>2. dram[m] = 0 .. bit - 1 /\ bit \in Nat
      BY <1>1, <1>2, MapAssumption DEF Packed, Bits
    <3> QED BY <2>2, <3>1, <3>2
  <2> QED BY <2>1, <2>2, Zenon
<1>10. Walked'
  <2> SUFFICES ASSUME NEW u \in Threads, pc'[u] # "idle", NEW n \in Passed(u)'
               PROVE  dram'[n] = Bits
    BY Zenon DEF Walked
  <2>1. pc[u] # "idle" /\ Passed(u)' = Passed(u)
    BY <1>1, <1>4, Zenon DEF TypeOK, Passed
  <2>2. dram[n] = Bits
    BY <2>1, Zenon DEF FInv, Walked
  <2>3. n # m
    BY <1>2, <2>2, Zenon
  <2> QED BY <1>1, <1>4, <2>2, <2>3 DEF TypeOK
<1> QED BY <1>6, <1>7, <1>8, <1>9, <1>10, Zenon DEF FInv

(* A step that touches no bitmap and lets no caller forget one. *)
LEMMA FreshQuiet ==
  ASSUME FInv, TypeOK', UNCHANGED <<dram, remain, hint, held>>, Walked'
  PROVE  FInv'
BY Zenon DEF FInv, NoDoubleAlloc, BitExact, RemainExact, Packed

(* A caller that moves on leaves a full bitmap behind. *)
LEMMA LeavesFull ==
  ASSUME FInv, NEW t \in Threads,
         \/ AllocCheck(t) /\ remain[current[t]] = 0
         \/ AllocMiss(t)
  PROVE  dram[current[t]] = Bits
<1>1. current[t] \in Maps /\ TypeOK /\ Packed
  BY Zenon DEF FInv, TypeOK
<1>2. CASE remain[current[t]] = 0
  <2>1. dram[current[t]] \in SUBSET Bits
    BY <1>1, Zenon DEF TypeOK
  <2>2. Cardinality(dram[current[t]]) \in Nat /\ 0 = BIT_NUM - Cardinality(dram[current[t]])
    BY <1>1, <1>2, <2>1, BitSets, Zenon DEF FInv, RemainExact
  <2>3. Cardinality(dram[current[t]]) = BIT_NUM
    BY <2>2, MapAssumption
  <2> QED BY <2>1, <2>3, BitSets, Zenon
<1>3. CASE AllocMiss(t)
  BY <1>1, <1>3, PackedFind, Zenon DEF AllocMiss
<1> QED BY <1>2, <1>3, Zenon

(* The other steps of a walk. *)
LEMMA FreshWalk ==
  ASSUME FInv, TypeOK', NEW t \in Threads, AllocCheck(t) \/ AllocMiss(t)
  PROVE  FInv'
<1>1. UNCHANGED <<dram, remain, hint, start, held>> /\ pc[t] # "idle"
  BY Zenon DEF AllocCheck, AllocMiss
<1>2. TypeOK
  BY Zenon DEF FInv
<1>3. ASSUME NEW u \in Threads, u # t
      PROVE  pc'[u] = pc[u] /\ current'[u] = current[u]
  BY <1>2, <1>3, Zenon DEF AllocCheck, AllocMiss, NextMap, TypeOK
<1>4. ASSUME NEW u \in Threads, pc'[u] # "idle", NEW m \in Passed(u)'
      PROVE  dram[m] = Bits
  <2>1. CASE u # t
    <3>1. pc[u] # "idle" /\ Passed(u)' = Passed(u)
      BY <1>1, <1>3, <1>4, <2>1, Zenon DEF Passed
    <3> QED BY <1>4, <3>1, Zenon DEF FInv, Walked
  <2>2. CASE u = t /\ NextMap(t) /\ (AllocMiss(t) \/ (AllocCheck(t) /\ remain[current[t]] = 0))
    <3>1. dram[current[t]] = Bits
      BY <2>2, LeavesFull, Zenon
    <3> QED BY <1>1, <1>4, <2>2, <3>1, WalkStep, Zenon
  <2>3. CASE u = t /\ current' = current
    <3>1. Passed(u)' = Passed(u)
      BY <1>1, <2>3, Zenon DEF Passed
    <3> QED BY <1>1, <1>4, <2>3, <3>1, Zenon DEF FInv, Walked
  <2>4. \/ current' = current
        \/ NextMap(t) /\ (AllocMiss(t) \/ (AllocCheck(t) /\ remain[current[t]] = 0))
    BY Zenon DEF AllocCheck, AllocMiss
  <2> QED BY <2>1, <2>2, <2>3, <2>4, Zenon
<1>5. Walked'
  BY <1>1, <1>4, Zenon DEF Walked
<1> QED BY <1>1, <1>5, FreshQuiet, Zenon

(* A caller that enters has been through nothing. *)
LEMMA FreshBegin ==
  ASSUME FInv, TypeOK', NEW t \in Threads, AllocBegin(t)
  PROVE  FInv'
<1>1. UNCHANGED <<dram, remain, hint, held>>
  BY Zenon DEF AllocBegin
<1>2. TypeOK
  BY Zenon DEF FInv
<1>3. ASSUME NEW u \in Threads, pc'[u] # "idle", NEW m \in Passed(u)'
      PROVE  dram[m] = Bits
  <2>1. CASE u # t
    <3>1. pc[u] # "idle" /\ Passed(u)' = Passed(u)
      BY <1>2, <1>3, <2>1, Zenon DEF AllocBegin, Passed, TypeOK
    <3> QED BY <1>3, <3>1, Zenon DEF FInv, Walked
  <2>2. CASE u = t
    <3>1. PICK k \in Maps : start'[t] = k /\ current'[t] = k
      BY <1>2, Zenon DEF AllocBegin, TypeOK
    <3>2. k \in Nat
      BY <3>1, MapAssumption DEF Maps
    <3>3. m \in k .. k - 1
      BY <1>3, <2>2, <3>1, <3>2 DEF Passed
    <3> QED BY <3>2, <3>3
  <2> QED BY <2>1, <2>2, Zenon
<1>4. Walked'
  BY <1>1, <1>3, Zenon DEF Walked
<1> QED BY <1>1, <1>4, FreshQuiet, Zenon

(* Every step of every thread keeps the invariant. *)
LEMMA FreshStep == ASSUME ~MayFree PROVE FInv /\ [Next]_vars => FInv'
<1> SUFFICES ASSUME FInv, [Next]_vars PROVE FInv'
  OBVIOUS
<1>1. TypeOK'
  BY TypeStep, Zenon DEF FInv
<1>2. CASE UNCHANGED vars
  <2>1. Walked'
    BY <1>2, Zenon DEF FInv, Walked, Passed, vars
  <2> QED BY <1>1, <1>2, <2>1, FreshQuiet, Zenon DEF vars
<1>3. CASE Next
  <2>1. PICK t \in Threads :
          AllocBegin(t) \/ AllocCheck(t) \/ AllocTake(t) \/ AllocMiss(t) \/ Free(t)
    BY <1>3, Zenon DEF Next
  <2>2. ~Free(t)
    BY Zenon DEF Free
  <2> QED BY <1>1, <2>1, <2>2, FreshBegin, FreshWalk, FreshTake, Zenon
<1> QED BY <1>2, <1>3, Zenon

(* From the image mkfs writes and as long as nothing is freed, no slot is  *)
(* handed out twice by do_slot_alloc, whoever races for the last one.      *)
THEOREM FreshSafe ==
  ASSUME FreshImage, ~MayFree
  PROVE  Spec => []NoDoubleAlloc
<1>1. FInv => NoDoubleAlloc
  BY Zenon DEF FInv
<1> QED BY FreshInit, FreshStep, <1>1, PTL DEF Spec

(* Under the same conditions do_slot_alloc returns -1 only when every      *)
(* bitmap of the table is full.                                            *)
THEOREM FreshGivesUp ==
  ASSUME FreshImage, ~MayFree
  PROVE  Spec => GivesUpOnlyWhenFull
<1> DEFINE Honest ==
      \A t \in Threads :
        (pc[t] # "idle" /\ pc'[t] = "idle" /\ held'[t] = held[t])
          => \A m \in Maps : dram[m] = Bits
<1>1. ASSUME FInv, [Next]_vars PROVE [Honest]_vars
  <2> SUFFICES ASSUME Next, NEW t \in Threads,
                      pc[t] # "idle", pc'[t] = "idle", held'[t] = held[t]
               PROVE  \A m \in Maps : dram[m] = Bits
    BY <1>1, Zenon
  <2>1. PICK u \in Threads :
          AllocBegin(u) \/ AllocCheck(u) \/ AllocTake(u) \/ AllocMiss(u) \/ Free(u)
    BY Zenon DEF Next
  <2>2. TypeOK /\ Packed
    BY <1>1, Zenon DEF FInv
  <2>3. u = t
    BY <2>1, <2>2, Zenon DEF AllocBegin, AllocCheck, AllocTake, AllocMiss, Free, NextMap, TypeOK
  <2>4. ~AllocBegin(u) /\ ~Free(u)
    BY <2>3, Zenon DEF AllocBegin, Free
  <2>5. ~AllocTake(u)
    <3> SUFFICES ASSUME AllocTake(t) PROVE FALSE
      BY <2>3, Zenon
    <3>1. current[t] \in Maps /\ FindBit(current[t]) < BIT_NUM
      BY <2>2, Zenon DEF AllocTake, TypeOK
    <3>2. FindBit(current[t]) \in Bits \ dram[current[t]]
      BY <2>2, <3>1, PackedFind, Zenon
    <3>3. Index(current[t], FindBit(current[t])) \notin held[t]
      BY <1>1, <3>1, <3>2, Zenon DEF FInv, BitExact
    <3>4. held'[t] = held[t] \union {Index(current[t], FindBit(current[t]))}
      BY <2>2, Zenon DEF AllocTake, TypeOK
    <3> QED BY <3>3, <3>4, Zenon
  <2>6. NextMap(t) /\ (AllocMiss(t) \/ (AllocCheck(t) /\ remain[current[t]] = 0))
    <3>1. CASE AllocCheck(t) /\ remain[current[t]] > 0 /\ pc' = [pc EXCEPT ![t] = "lock"]
      BY <2>2, <3>1, Zenon DEF TypeOK
    <3> QED BY <2>1, <2>3, <2>4, <2>5, <3>1, Zenon DEF AllocCheck, AllocMiss
  <2>7. dram[current[t]] = Bits
    BY <1>1, <2>6, LeavesFull, Zenon
  <2> QED BY <1>1, <2>6, <2>7, WalkStep, Zenon
<1> QED BY FreshInit, FreshStep, <1>1, PTL DEF Spec, GivesUpOnlyWhenFull
=============================================================================
