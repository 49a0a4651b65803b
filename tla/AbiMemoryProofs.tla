-------------------------- MODULE AbiMemoryProofs --------------------------
(***************************************************************************)
(* Proofs about the memory manager, and that it implements PrivateBuffers, *)
(* for any goroutines, payloads, memory and limits.                        *)
(***************************************************************************)
EXTENDS AbiMemory, FiniteSetTheorems, TLAPS

-----------------------------------------------------------------------------
(* Facts about maps of buffers. *)

(* A buffer of length len is len bytes long, and starts at its address.    *)
LEMMA ExtentSize ==
  ASSUME NEW p \in Nat, NEW len \in Nat \ {0}
  PROVE  /\ IsFiniteSet(Extent(p, len)) /\ Cardinality(Extent(p, len)) = len
         /\ p \in Extent(p, len)
<1>1. p \in Int /\ p + len - 1 \in Int /\ ~(p > p + len - 1)
  OBVIOUS
<1>2. (p + len - 1) - p + 1 = len
  OBVIOUS
<1> QED BY <1>1, <1>2, FS_Interval DEF Extent

(* Adding a buffer to the map pins its bytes and no other.                 *)
LEMMA PinAdds ==
  ASSUME NEW f, NEW p, p \notin DOMAIN f, NEW n
  PROVE  PinnedBy([q \in DOMAIN f \cup {p} |-> IF q = p THEN n ELSE f[q]])
           = PinnedBy(f) \cup Extent(p, n)
BY DEF PinnedBy

(* Removing a buffer from the map leaves the other buffers' bytes pinned.  *)
LEMMA PinRemoves ==
  ASSUME NEW f, NEW p \in DOMAIN f
  PROVE  PinnedBy(f)
           = PinnedBy([q \in DOMAIN f \ {p} |-> f[q]]) \cup Extent(p, f[p])
BY DEF PinnedBy

(* Unpacking a packed value gives back its pointer and its length, so long *)
(* as the length fits in the low half of the word.                         *)
LEMMA PackUnpack ==
  ASSUME NEW ptr \in Nat, NEW length \in 0..(Word - 1)
  PROVE  /\ PackPtrLen(ptr, length) \in Nat
         /\ UnpackPtr(PackPtrLen(ptr, length)) = ptr
         /\ UnpackLen(PackPtrLen(ptr, length)) = length
<1> USE SizesAssumption
<1>1. Word \in Nat /\ Word > 0 /\ ptr * Word \in Nat
  OBVIOUS
<1>2. (ptr * Word + length) \div Word = ptr
  BY <1>1
<1>3. (ptr * Word + length) % Word = length
  BY <1>1
<1> QED BY <1>1, <1>2, <1>3 DEF PackPtrLen, UnpackPtr, UnpackLen

-----------------------------------------------------------------------------
(* Type correctness. *)

TypeInv == TypeOK /\ LocalsOK

(* What a goroutine's packed value unpacks to.                             *)
LEMMA Unpacked ==
  ASSUME TypeInv, NEW g \in Goroutines, pc[g] \in Holding
  PROVE  /\ arg[g] > 0 => /\ UnpackPtr(packed[g]) \in Address
                          /\ UnpackLen(packed[g]) = arg[g]
                          /\ Extent(UnpackPtr(packed[g]), arg[g]) \subseteq Address
         /\ ~(arg[g] > 0) => UnpackPtr(packed[g]) = 0 /\ UnpackLen(packed[g]) = 0
<1> USE SizesAssumption DEF TypeInv
<1>1. CASE arg[g] > 0
  <2>1. PICK p \in Address : /\ packed[g] = PackPtrLen(p, arg[g])
                             /\ Extent(p, arg[g]) \subseteq Address
    BY <1>1 DEF LocalsOK
  <2>2. p \in Nat /\ arg[g] \in 0..(Word - 1)
    BY <1>1 DEF LocalsOK, Address, TypeOK, LocalTypeOK
  <2> QED BY <1>1, <2>1, <2>2, PackUnpack
<1>2. CASE ~(arg[g] > 0)
  <2>1. packed[g] = 0
    BY <1>2 DEF LocalsOK
  <2>2. 0 \div Word = 0 /\ 0 % Word = 0
    OBVIOUS
  <2> QED BY <1>2, <2>1, <2>2 DEF UnpackPtr, UnpackLen
<1> QED BY <1>1, <1>2

(* Leaving an operation resets the locals.                                 *)
LEMMA LeaveLocals ==
  ASSUME TypeInv, NEW g \in Goroutines, NEW label \in Labels \ Holding,
         label # "allocate", Leave(g, label), recovered' \in BOOLEAN
  PROVE  LocalTypeOK' /\ LocalsOK'
BY DEF TypeInv, TypeOK, LocalTypeOK, LocalsOK, Leave, Goto, Holding, Labels

(* Every step preserves the types.                                         *)
LEMMA TypeStep ==
  ASSUME TypeInv, [Next]_vars
  PROVE  TypeInv'
<1> USE SizesAssumption, NamesAssumption DEF TypeInv, TypeOK, manager
<1>1. ASSUME NEW g \in Goroutines, NEW n \in 0..MaxPayload, PtrFromBytes(g, n)
      PROVE  TypeInv'
  <2>1. ManagerTypeOK'
    BY <1>1 DEF ManagerTypeOK, PtrFromBytes
  <2>2. LocalTypeOK' /\ LocalsOK'
    BY <1>1 DEF LocalTypeOK, LocalsOK, PtrFromBytes, Goto, Labels, Holding
  <2> QED BY <2>1, <2>2
<1>2. ASSUME NEW g \in Goroutines, NEW limit \in Limits, Configure(g, limit)
      PROVE  TypeInv'
  <2>1. ManagerTypeOK'
    BY <1>2 DEF ManagerTypeOK, Configure
  <2>2. LocalTypeOK' /\ LocalsOK'
    BY <1>2 DEF LocalTypeOK, LocalsOK, Configure, Goto, Labels, Holding
  <2> QED BY <2>1, <2>2
<1>3. ASSUME NEW g \in Goroutines, Lock(g)
      PROVE  TypeInv'
  BY <1>3 DEF ManagerTypeOK, LocalTypeOK, LocalsOK, Lock
<1>4. ASSUME NEW g \in Goroutines, Allocate(g)
      PROVE  TypeInv'
  <2>1. PICK p \in Address :
          /\ Extent(p, arg[g]) \subseteq Address \ Pinned
          /\ ptrs' = [q \in DOMAIN ptrs \cup {p} |->
                        IF q = p THEN arg[g] ELSE ptrs[q]]
          /\ mem' = [a \in Address |->
                       IF a \in Extent(p, arg[g]) THEN Foreign ELSE mem[a]]
          /\ packed' = [packed EXCEPT ![g] = PackPtrLen(p, arg[g])]
    BY <1>4 DEF Allocate
  <2>2. arg[g] \in 1..MaxPayload /\ pc[g] = "allocate"
    BY <1>4 DEF Allocate, LocalsOK
  <2>3. PackPtrLen(p, arg[g]) \in Nat
    BY <2>2 DEF PackPtrLen, Address
  <2>4. ManagerTypeOK'
    BY <1>4, <2>1, <2>2 DEF ManagerTypeOK, Allocate, Unlock
  <2>5. LocalTypeOK'
    BY <1>4, <2>1, <2>3 DEF LocalTypeOK, Allocate, Goto, Labels
  <2>6. LocalsOK'
    BY <1>4, <2>1, <2>2 DEF LocalTypeOK, LocalsOK, Allocate, Goto, Holding
  <2> QED BY <2>4, <2>5, <2>6
<1>5. ASSUME NEW g \in Goroutines, AllocatePanics(g)
      PROVE  TypeInv'
  <2>1. ManagerTypeOK'
    BY <1>5 DEF ManagerTypeOK, AllocatePanics, Unlock
  <2>2. LocalTypeOK' /\ LocalsOK'
    BY <1>5, LeaveLocals DEF AllocatePanics, Labels, Holding, LocalTypeOK
  <2> QED BY <2>1, <2>2
<1>6. ASSUME NEW g \in Goroutines, CopyToMemory(g)
      PROVE  TypeInv'
  <2>1. ManagerTypeOK'
    BY <1>6 DEF ManagerTypeOK, CopyToMemory
  <2>2. LocalTypeOK' /\ LocalsOK'
    BY <1>6 DEF LocalTypeOK, LocalsOK, CopyToMemory, Goto, Labels, Holding
  <2> QED BY <2>1, <2>2
<1>7. ASSUME NEW g \in Goroutines, BytesFromPtr(g)
      PROVE  TypeInv'
  <2>1. pc[g] = "held" /\ pc[g] \in Holding
    BY <1>7 DEF BytesFromPtr, Holding
  <2>2. UnpackPtr(packed[g]) # 0 =>
          Extent(UnpackPtr(packed[g]), UnpackLen(packed[g])) \subseteq Address
    BY <2>1, Unpacked
  <2>3. got' \in [Goroutines -> SUBSET (Goroutines \cup {Foreign})]
    BY <1>7, <2>2 DEF BytesFromPtr, ManagerTypeOK, LocalTypeOK
  <2>4. ManagerTypeOK'
    BY <1>7 DEF ManagerTypeOK, BytesFromPtr
  <2>5. LocalTypeOK' /\ LocalsOK'
    BY <1>7, <2>3 DEF LocalTypeOK, LocalsOK, BytesFromPtr, Goto, Labels, Holding
  <2> QED BY <2>4, <2>5
<1>8. ASSUME NEW g \in Goroutines, DeallocatePacked(g)
      PROVE  TypeInv'
  <2>1. ManagerTypeOK'
    BY <1>8 DEF ManagerTypeOK, DeallocatePacked
  <2>2. CASE UnpackPtr(packed[g]) # 0 /\ UnpackLen(packed[g]) > 0
    <3>1. arg[g] > 0
      BY <1>8, <2>2, Unpacked DEF DeallocatePacked, Holding
    <3>2. LocalTypeOK' /\ LocalsOK'
      BY <1>8, <2>2, <3>1
         DEF LocalTypeOK, LocalsOK, DeallocatePacked, Goto, Labels, Holding
    <3> QED BY <2>1, <3>2
  <2>3. CASE ~(UnpackPtr(packed[g]) # 0 /\ UnpackLen(packed[g]) > 0)
    <3>1. LocalTypeOK' /\ LocalsOK'
      BY <1>8, <2>3, LeaveLocals DEF DeallocatePacked, Labels, Holding, LocalTypeOK
    <3> QED BY <2>1, <3>1
  <2> QED BY <2>2, <2>3
<1>9. ASSUME NEW g \in Goroutines, Deallocate(g)
      PROVE  TypeInv'
  <2>1. ManagerTypeOK'
    BY <1>9 DEF ManagerTypeOK, Deallocate, ActualSize, Unlock
  <2>2. LocalTypeOK' /\ LocalsOK'
    BY <1>9, LeaveLocals DEF Deallocate, Labels, Holding, LocalTypeOK
  <2> QED BY <2>1, <2>2
<1>10. ASSUME NEW g \in Goroutines, PluginPanics(g)
       PROVE  TypeInv'
  <2>1. ManagerTypeOK'
    BY <1>10 DEF ManagerTypeOK, PluginPanics
  <2>2. LocalTypeOK' /\ LocalsOK'
    BY <1>10, LeaveLocals DEF PluginPanics, Labels, Holding, LocalTypeOK
  <2> QED BY <2>1, <2>2
<1>11. ASSUME NEW g \in Goroutines, FreeAllTracked(g)
       PROVE  TypeInv'
  <2>1. ManagerTypeOK'
    BY <1>11 DEF ManagerTypeOK, FreeAllTracked, Unlock
  <2>2. LocalTypeOK' /\ LocalsOK'
    BY <1>11 DEF LocalTypeOK, LocalsOK, FreeAllTracked, Goto, Labels, Holding
  <2> QED BY <2>1, <2>2
<1>12. ASSUME NEW g \in Goroutines, WithMaxTotalAllocations(g)
       PROVE  TypeInv'
  <2>1. ManagerTypeOK'
    BY <1>12 DEF ManagerTypeOK, LocalTypeOK, WithMaxTotalAllocations, Accepted, Unlock
  <2>2. LocalTypeOK' /\ LocalsOK'
    BY <1>12, LeaveLocals
       DEF WithMaxTotalAllocations, Labels, Holding, LocalTypeOK
  <2> QED BY <2>1, <2>2
<1>13. CASE RuntimeReuses
  BY <1>13 DEF ManagerTypeOK, LocalTypeOK, LocalsOK, RuntimeReuses
<1>14. CASE UNCHANGED vars
  BY <1>14 DEF ManagerTypeOK, LocalTypeOK, LocalsOK, vars
<1> QED
  BY <1>1, <1>2, <1>3, <1>4, <1>5, <1>6, <1>7, <1>8, <1>9, <1>10, <1>11,
     <1>12, <1>13, <1>14 DEF Next, Finish

(* The initial state has its types.                                        *)
LEMMA TypeInit == Init => TypeInv
<1> SUFFICES ASSUME Init PROVE TypeInv
  OBVIOUS
<1>1. DOMAIN ptrs = {}
  BY DEF Init
<1>2. ManagerTypeOK
  <2>1. mem \in [Address -> Goroutines \cup {Foreign}]
    BY DEF Init
  <2>2. /\ totalAllocated \in Nat /\ maxTotalAllocations \in Nat \ {0}
        /\ lock \in Goroutines \cup {NoGoroutine}
    BY SizesAssumption DEF Init
  <2>3. /\ DOMAIN ptrs \subseteq Address
        /\ \A p \in DOMAIN ptrs : ptrs[p] \in 1..MaxPayload
    BY <1>1, Zenon
  <2> QED BY <2>1, <2>2, <2>3 DEF ManagerTypeOK
<1>3. LocalTypeOK
  <2>1. pc \in [Goroutines -> Labels] /\ arg \in [Goroutines -> Int]
        /\ packed \in [Goroutines -> Nat]
    BY DEF Init, Labels
  <2>2. got \in [Goroutines -> SUBSET (Goroutines \cup {Foreign})]
    BY {} \in SUBSET (Goroutines \cup {Foreign}) DEF Init
  <2>3. recovered \in BOOLEAN /\ lost \in [Goroutines -> BOOLEAN]
    BY FALSE \in BOOLEAN, Zenon DEF Init
  <2> QED BY <2>1, <2>2, <2>3 DEF LocalTypeOK
<1>4. LocalsOK
  <2>1. \A g \in Goroutines : pc[g] = "idle" /\ packed[g] = 0
    BY DEF Init
  <2> QED BY <2>1 DEF LocalsOK, Holding
<1> QED BY <1>2, <1>3, <1>4 DEF TypeInv, TypeOK

(* In every reachable state every variable has its type, and a goroutine   *)
(* that holds a packed value can only reach linear memory through it.      *)
THEOREM TypeCorrect == Spec => [](TypeOK /\ LocalsOK)
<1>1. Init => TypeInv
  BY TypeInit
<1>2. TypeInv /\ [Next]_vars => TypeInv'
  BY TypeStep
<1> QED BY <1>1, <1>2, PTL DEF Spec, TypeInv

-----------------------------------------------------------------------------
(* The accounting of pinned bytes. *)

PinInv == TypeInv /\ NoOverlap /\ Accounting

(* Pinned bytes are finitely many bytes of linear memory.                  *)
LEMMA PinnedFinite ==
  ASSUME TypeInv, NoOverlap
  PROVE  Pinned \subseteq Address /\ IsFiniteSet(Pinned)
<1>1. Pinned \subseteq Address
  BY DEF NoOverlap, Pinned, PinnedBy
<1>2. IsFiniteSet(Address)
  BY SizesAssumption, FS_Interval DEF Address
<1> QED BY <1>1, <1>2, FS_Subset

(* allocate pins as many new bytes as it adds to the counter.              *)
LEMMA AllocatePins ==
  ASSUME PinInv, NEW g \in Goroutines, Allocate(g)
  PROVE  NoOverlap' /\ Accounting'
<1> USE DEF PinInv, TypeInv, TypeOK
<1>1. PICK p \in Address :
        /\ Extent(p, arg[g]) \subseteq Address \ Pinned
        /\ ptrs' = [q \in DOMAIN ptrs \cup {p} |->
                      IF q = p THEN arg[g] ELSE ptrs[q]]
  BY DEF Allocate
<1>2. arg[g] \in Nat \ {0} /\ p \in Nat
  BY SizesAssumption DEF Allocate, LocalsOK, Address
<1>3. /\ IsFiniteSet(Extent(p, arg[g])) /\ Cardinality(Extent(p, arg[g])) = arg[g]
      /\ p \in Extent(p, arg[g])
  BY <1>2, ExtentSize
<1>4. p \notin DOMAIN ptrs
  <2>1. ASSUME p \in DOMAIN ptrs PROVE FALSE
    <3>1. ptrs[p] \in Nat \ {0}
      BY <2>1, SizesAssumption DEF ManagerTypeOK
    <3>2. p \in Extent(p, ptrs[p])
      BY <1>2, <3>1, ExtentSize
    <3>3. p \in Pinned
      BY <2>1, <3>2 DEF Pinned, PinnedBy
    <3> QED BY <1>1, <1>3, <3>3
  <2> QED BY <2>1
<1>5. Pinned' = Pinned \cup Extent(p, arg[g])
  BY <1>1, <1>4, PinAdds DEF Pinned
<1>6. IsFiniteSet(Pinned) /\ Pinned \cap Extent(p, arg[g]) = {}
  BY <1>1, PinnedFinite
<1>7. Cardinality(Pinned') = Cardinality(Pinned) + arg[g]
  <2>1. Cardinality(Pinned) \in Nat
    BY <1>6, FS_CardinalityType
  <2>2. Cardinality(Pinned') =
          Cardinality(Pinned) + arg[g] - Cardinality({})
    BY <1>3, <1>5, <1>6, FS_Union
  <2> QED BY <1>2, <2>1, <2>2, FS_EmptySet
<1>8. Accounting'
  BY <1>7 DEF Accounting, Allocate
<1>9. NoOverlap'
  <2>1. \A q \in DOMAIN ptrs : Extent(q, ptrs[q]) \subseteq Pinned
    BY DEF Pinned, PinnedBy
  <2> QED BY <1>1, <1>4, <2>1 DEF NoOverlap
<1> QED BY <1>8, <1>9

(* deallocate unpins the bytes of the buffer it removes, and takes their   *)
(* number from the counter: the clamp at 0 is never reached.               *)
LEMMA DeallocateUnpins ==
  ASSUME PinInv, NEW g \in Goroutines, Deallocate(g)
  PROVE  NoOverlap' /\ Accounting' /\ Pinned' \subseteq Pinned
<1> USE DEF PinInv, TypeInv, TypeOK
<1> DEFINE ptr == UnpackPtr(packed[g])
<1>1. CASE ptr \notin DOMAIN ptrs
  <2>1. DOMAIN ptrs' = DOMAIN ptrs /\ \A q \in DOMAIN ptrs : ptrs'[q] = ptrs[q]
    BY <1>1 DEF Deallocate
  <2>2. totalAllocated' = totalAllocated
    BY <1>1 DEF Deallocate, ActualSize, ManagerTypeOK
  <2>3. Pinned' = Pinned
    BY <2>1 DEF Pinned, PinnedBy
  <2> QED BY <2>1, <2>2, <2>3 DEF NoOverlap, Accounting
<1>2. CASE ptr \in DOMAIN ptrs
  <2>1. ptrs' = [q \in DOMAIN ptrs \ {ptr} |-> ptrs[q]]
    BY <1>2 DEF Deallocate
  <2>2. NoOverlap'
    BY <2>1 DEF NoOverlap
  <2>3. ptr \in Nat /\ ptrs[ptr] \in Nat \ {0}
    BY <1>2, SizesAssumption DEF ManagerTypeOK, Address
  <2>4. /\ IsFiniteSet(Extent(ptr, ptrs[ptr]))
        /\ Cardinality(Extent(ptr, ptrs[ptr])) = ptrs[ptr]
    BY <2>3, ExtentSize
  <2>5. Pinned = Pinned' \cup Extent(ptr, ptrs[ptr])
    BY <1>2, <2>1, PinRemoves DEF Pinned
  <2>6. Pinned' \cap Extent(ptr, ptrs[ptr]) = {}
    BY <1>2, <2>1 DEF NoOverlap, Pinned, PinnedBy
  <2>7. IsFiniteSet(Pinned')
    BY <2>5, PinnedFinite, FS_Subset
  <2>8. Cardinality(Pinned') \in Nat
    BY <2>7, FS_CardinalityType
  <2>9. Cardinality(Pinned) =
          Cardinality(Pinned') + ptrs[ptr] - Cardinality({})
    BY <2>4, <2>5, <2>6, <2>7, FS_Union
  <2>10. totalAllocated - ptrs[ptr] = Cardinality(Pinned')
    BY <2>3, <2>8, <2>9, FS_EmptySet DEF Accounting
  <2>11. Accounting'
    BY <1>2, <2>3, <2>8, <2>10 DEF Accounting, Deallocate, ActualSize
  <2> QED BY <2>2, <2>5, <2>11
<1> QED BY <1>1, <1>2

(* FreeAllTracked leaves no byte pinned.                                   *)
LEMMA FreeAllUnpins ==
  ASSUME NEW g \in Goroutines, FreeAllTracked(g)
  PROVE  NoOverlap' /\ Accounting' /\ Pinned' = {}
<1>1. DOMAIN ptrs' = {} /\ totalAllocated' = 0
  BY DEF FreeAllTracked
<1>2. Pinned' = {}
  BY <1>1 DEF Pinned, PinnedBy
<1>3. Cardinality(Pinned') = 0
  BY <1>2, FS_EmptySet
<1> QED BY <1>1, <1>2, <1>3 DEF NoOverlap, Accounting

(* Every step other than those three leaves the map and its counter alone. *)
LEMMA OtherSteps ==
  ASSUME [Next]_vars
  PROVE  \/ \E g \in Goroutines :
              Allocate(g) \/ Deallocate(g) \/ FreeAllTracked(g)
         \/ UNCHANGED <<ptrs, totalAllocated>>
BY DEF Next, Finish, vars, manager, PtrFromBytes, Configure, Lock, AllocatePanics,
       CopyToMemory, BytesFromPtr, DeallocatePacked, PluginPanics,
       WithMaxTotalAllocations, RuntimeReuses

(* Every step preserves the accounting.                                    *)
LEMMA PinStep ==
  ASSUME PinInv, [Next]_vars
  PROVE  PinInv'
<1>1. TypeInv'
  BY TypeStep DEF PinInv
<1>2. NoOverlap' /\ Accounting'
  <2>1. CASE UNCHANGED <<ptrs, totalAllocated>>
    BY <2>1 DEF PinInv, NoOverlap, Accounting, Pinned
  <2> QED BY <2>1, OtherSteps, AllocatePins, DeallocateUnpins, FreeAllUnpins
<1> QED BY <1>1, <1>2 DEF PinInv

(* The accounting holds initially: nothing is pinned.                      *)
LEMMA PinInit == Init => PinInv
<1> SUFFICES ASSUME Init PROVE PinInv
  OBVIOUS
<1>1. DOMAIN ptrs = {} /\ totalAllocated = 0
  BY DEF Init
<1>2. Pinned = {}
  BY <1>1 DEF Pinned, PinnedBy
<1> QED BY <1>1, <1>2, TypeInit, FS_EmptySet DEF PinInv, NoOverlap, Accounting

(* The counter the limit is checked against is the number of pinned bytes, *)
(* and no two pinned buffers overlap.                                      *)
THEOREM AccountingCorrect == Spec => [](NoOverlap /\ Accounting)
<1>1. PinInv => NoOverlap /\ Accounting
  BY DEF PinInv
<1> QED BY <1>1, PinInit, PinStep, PTL DEF Spec

(* No step takes the pinned bytes over the limit in force.                 *)
THEOREM LimitHolds == Spec => PinnedWithinLimit
<1> DEFINE Bounded ==
      Cardinality(Pinned') > Cardinality(Pinned)
        => Cardinality(Pinned') <= maxTotalAllocations
<1>1. PinInv /\ [Next]_vars => [Bounded]_vars
  <2> SUFFICES ASSUME PinInv, [Next]_vars PROVE Bounded
    OBVIOUS
  <2>1. PinInv'
    BY PinStep
  <2>2. IsFiniteSet(Pinned) /\ Cardinality(Pinned) \in Nat
    BY PinnedFinite, FS_CardinalityType DEF PinInv
  <2>3. ASSUME NEW g \in Goroutines, Allocate(g) PROVE Bounded
    BY <2>1, <2>3 DEF PinInv, Accounting, Allocate, WithinLimit
  <2>4. ASSUME NEW g \in Goroutines, Deallocate(g) PROVE Bounded
    <3>1. Cardinality(Pinned') <= Cardinality(Pinned)
      BY <2>2, <2>4, DeallocateUnpins, FS_Subset
    <3>2. Cardinality(Pinned') \in Nat
      BY <2>2, <2>4, DeallocateUnpins, FS_Subset, FS_CardinalityType
    <3> QED BY <2>2, <3>1, <3>2
  <2>5. ASSUME NEW g \in Goroutines, FreeAllTracked(g) PROVE Bounded
    BY <2>2, <2>5, FreeAllUnpins, FS_EmptySet
  <2>6. CASE UNCHANGED <<ptrs, totalAllocated>>
    BY <2>2, <2>6 DEF Pinned
  <2> QED BY <2>3, <2>4, <2>5, <2>6, OtherSteps
<1>2. Spec => []PinInv
  BY PinInit, PinStep, PTL DEF Spec
<1>3. Spec => [][Bounded]_vars
  BY <1>1, <1>2, PTL DEF Spec
<1> QED BY <1>3 DEF PinnedWithinLimit

-----------------------------------------------------------------------------
(* Buffers stay intact until a panic is recovered. *)

HandlesDistinct ==
  \A g, h \in Goroutines :
    g # h /\ Holds(g) /\ Holds(h) => UnpackPtr(packed[g]) # UnpackPtr(packed[h])

ReadBack(g) == pc[g] = "read" => got[g] = IF arg[g] > 0 THEN {g} ELSE {}

HandleInv ==
  /\ PinInv
  /\ ~recovered =>
       /\ \A g \in Goroutines : (Holds(g) => Intact(g)) /\ ReadBack(g)
       /\ HandlesDistinct

\* The step of g leaves the buffer of h, and what h read, as they were.
Keeps(h) ==
  /\ Holds(h)' => Holds(h)
  /\ arg'[h] = arg[h] /\ packed'[h] = packed[h]
  /\ Holds(h) => Intact(h)'
  /\ ReadBack(h) => ReadBack(h)'

(* An intact buffer's bytes are pinned.                                    *)
LEMMA IntactPinned ==
  ASSUME NEW g \in Goroutines, Intact(g)
  PROVE  Extent(UnpackPtr(packed[g]), arg[g]) \subseteq Pinned
BY DEF Intact, Pinned, PinnedBy

(* allocate gives its caller a buffer of its own and disturbs no other.    *)
LEMMA AllocateKeeps ==
  ASSUME HandleInv, ~recovered, NEW g \in Goroutines, Allocate(g)
  PROVE  /\ Intact(g)' /\ ReadBack(g)'
         /\ \A h \in Goroutines \ {g} :
              Keeps(h) /\ (Holds(h) => UnpackPtr(packed[g])' # UnpackPtr(packed[h]))
<1> USE DEF HandleInv, PinInv, TypeInv, TypeOK
<1>1. PICK p \in Address :
        /\ Extent(p, arg[g]) \subseteq Address \ Pinned
        /\ ptrs' = [q \in DOMAIN ptrs \cup {p} |->
                      IF q = p THEN arg[g] ELSE ptrs[q]]
        /\ mem' = [a \in Address |->
                     IF a \in Extent(p, arg[g]) THEN Foreign ELSE mem[a]]
        /\ packed' = [packed EXCEPT ![g] = PackPtrLen(p, arg[g])]
  BY DEF Allocate
<1>2. /\ arg[g] \in Nat \ {0} /\ p \in Nat /\ arg[g] \in 0..(Word - 1)
      /\ pc[g] = "allocate" /\ pc' = [pc EXCEPT ![g] = "copy"]
      /\ arg' = arg /\ got' = got
  BY SizesAssumption DEF Allocate, LocalsOK, Address, Goto
<1>3. p \in Extent(p, arg[g])
  BY <1>2, ExtentSize
<1>4. packed'[g] = PackPtrLen(p, arg[g])
  BY <1>1 DEF LocalTypeOK
<1>5. UnpackPtr(packed[g])' = p /\ UnpackLen(packed[g])' = arg[g]
  <2>1. UnpackPtr(packed'[g]) = p /\ UnpackLen(packed'[g]) = arg[g]
    BY <1>2, <1>4, PackUnpack
  <2> QED BY <2>1 DEF UnpackPtr, UnpackLen
<1>6. Intact(g)'
  BY <1>1, <1>2, <1>5 DEF Intact, LocalTypeOK
<1>7. ReadBack(g)'
  BY <1>2 DEF ReadBack, LocalTypeOK
<1>8. ASSUME NEW h \in Goroutines \ {g}
      PROVE  Keeps(h) /\ (Holds(h) => UnpackPtr(packed[g])' # UnpackPtr(packed[h]))
  <2>1. pc'[h] = pc[h] /\ packed'[h] = packed[h]
    BY <1>1, <1>2 DEF LocalTypeOK
  <2>2. ASSUME Holds(h)
        PROVE  Intact(h)' /\ UnpackPtr(packed[g])' # UnpackPtr(packed[h])
    <3>1. Intact(h)
      BY <2>2
    <3>2. UnpackPtr(packed[h]) \in Extent(UnpackPtr(packed[h]), arg[h])
          /\ Extent(UnpackPtr(packed[h]), arg[h]) \subseteq Address
      <4>1. UnpackPtr(packed[h]) \in Address
            /\ Extent(UnpackPtr(packed[h]), arg[h]) \subseteq Address
        BY <2>2, Unpacked DEF Holds
      <4>2. UnpackPtr(packed[h]) \in Nat /\ arg[h] \in Nat \ {0}
        BY <2>2, <4>1 DEF Address, Holds, LocalTypeOK
      <4> QED BY <4>1, <4>2, ExtentSize
    <3>3. Extent(UnpackPtr(packed[h]), arg[h]) \subseteq Pinned
      BY <3>1, IntactPinned
    <3>4. UnpackPtr(packed[h]) # p
      BY <1>1, <1>3, <3>2, <3>3
    <3>5. \A a \in Extent(UnpackPtr(packed[h]), arg[h]) : mem'[a] = mem[a]
      BY <1>1, <3>2, <3>3 DEF ManagerTypeOK
    <3>6. UnpackPtr(packed[h])' = UnpackPtr(packed[h])
          /\ UnpackLen(packed[h])' = UnpackLen(packed[h])
      BY <2>1 DEF UnpackPtr, UnpackLen
    <3>7. UnpackPtr(packed[h]) \in DOMAIN ptrs'
          /\ ptrs'[UnpackPtr(packed[h])] = arg[h]
      BY <1>1, <3>1, <3>4 DEF Intact
    <3>8. Intact(h)'
      BY <1>2, <2>1, <3>1, <3>5, <3>6, <3>7 DEF Intact
    <3> QED BY <1>5, <3>4, <3>8
  <2> QED BY <1>2, <2>1, <2>2 DEF Keeps, Holds, ReadBack
<1> QED BY <1>6, <1>7, <1>8

(* A goroutine copies into its own buffer, and no other buffer overlaps it.*)
LEMMA CopyKeeps ==
  ASSUME HandleInv, ~recovered, NEW g \in Goroutines, CopyToMemory(g)
  PROVE  /\ Intact(g)' /\ ReadBack(g)'
         /\ \A h \in Goroutines \ {g} : Keeps(h)
<1> USE DEF HandleInv, PinInv, TypeInv, TypeOK
<1> DEFINE mine == Extent(UnpackPtr(packed[g]), arg[g])
<1>1. /\ pc[g] = "copy" /\ pc' = [pc EXCEPT ![g] = "held"]
      /\ mem' = [a \in Address |-> IF a \in mine THEN g ELSE mem[a]]
      /\ ptrs' = ptrs /\ arg' = arg /\ packed' = packed /\ got' = got
  BY DEF CopyToMemory, Destination, Goto, manager
<1>2. Holds(g)
  BY <1>1 DEF Holds, Holding, LocalsOK
<1>3. Intact(g)
  BY <1>2
<1>4. Intact(g)'
  <2>1. mine \subseteq Address
    BY <1>2, Unpacked DEF Holds
  <2> QED BY <1>1, <1>3, <2>1 DEF Intact, UnpackPtr, UnpackLen
<1>5. ReadBack(g)'
  BY <1>1 DEF ReadBack, LocalTypeOK
<1>6. ASSUME NEW h \in Goroutines \ {g}
      PROVE  Keeps(h)
  <2>1. pc'[h] = pc[h]
    BY <1>1 DEF LocalTypeOK
  <2>2. ASSUME Holds(h) PROVE Intact(h)'
    <3>1. Intact(h) /\ UnpackPtr(packed[h]) # UnpackPtr(packed[g])
      BY <1>2, <2>2 DEF HandlesDistinct
    <3>2. mine \cap Extent(UnpackPtr(packed[h]), arg[h]) = {}
      BY <1>3, <3>1 DEF Intact, NoOverlap
    <3>3. Extent(UnpackPtr(packed[h]), arg[h]) \subseteq Address
      BY <2>2, Unpacked DEF Holds
    <3>4. \A a \in Extent(UnpackPtr(packed[h]), arg[h]) : mem'[a] = mem[a]
      BY <1>1, <3>2, <3>3
    <3> QED BY <1>1, <2>1, <3>1, <3>4 DEF Intact, UnpackPtr, UnpackLen
  <2> QED BY <1>1, <2>1, <2>2 DEF Keeps, Holds, ReadBack
<1> QED BY <1>4, <1>5, <1>6

(* deallocate removes the caller's buffer and no other goroutine's.        *)
LEMMA DeallocateKeeps ==
  ASSUME HandleInv, ~recovered, NEW g \in Goroutines, Deallocate(g)
  PROVE  /\ ~Holds(g)' /\ ReadBack(g)'
         /\ \A h \in Goroutines \ {g} : Keeps(h)
<1> USE DEF HandleInv, PinInv, TypeInv, TypeOK
<1> DEFINE ptr == UnpackPtr(packed[g])
<1>1. /\ pc[g] = "deallocate" /\ pc' = [pc EXCEPT ![g] = "idle"]
      /\ arg' = [arg EXCEPT ![g] = 0] /\ packed' = [packed EXCEPT ![g] = 0]
      /\ got' = [got EXCEPT ![g] = {}] /\ mem' = mem
  BY DEF Deallocate, Leave, Goto
<1>2. \A q \in DOMAIN ptrs \ {ptr} : q \in DOMAIN ptrs' /\ ptrs'[q] = ptrs[q]
  BY DEF Deallocate
<1>3. Holds(g)
  BY <1>1 DEF Holds, Holding, LocalsOK
<1>4. ~Holds(g)' /\ ReadBack(g)'
  BY <1>1 DEF Holds, Holding, ReadBack, LocalTypeOK
<1>5. ASSUME NEW h \in Goroutines \ {g}
      PROVE  Keeps(h)
  <2>1. pc'[h] = pc[h] /\ arg'[h] = arg[h] /\ packed'[h] = packed[h]
        /\ got'[h] = got[h]
    BY <1>1 DEF LocalTypeOK
  <2>2. ASSUME Holds(h) PROVE Intact(h)'
    <3>1. Intact(h) /\ UnpackPtr(packed[h]) # ptr
      BY <1>3, <2>2 DEF HandlesDistinct
    <3> QED BY <1>1, <1>2, <2>1, <3>1 DEF Intact, UnpackPtr, UnpackLen
  <2> QED BY <2>1, <2>2 DEF Keeps, Holds, ReadBack
<1> QED BY <1>4, <1>5

(* BytesFromPtr reads back the bytes its caller wrote.                     *)
LEMMA ReadReturns ==
  ASSUME HandleInv, ~recovered, NEW g \in Goroutines, BytesFromPtr(g)
  PROVE  ReadBack(g)'
<1> USE DEF HandleInv, PinInv, TypeInv, TypeOK
<1> DEFINE ptr == UnpackPtr(packed[g])
           length == UnpackLen(packed[g])
<1>1. /\ pc[g] = "held" /\ pc[g] \in Holding /\ arg' = arg
      /\ got' = [got EXCEPT ![g] = IF ptr = 0 \/ length = 0 THEN {}
                                   ELSE {mem[a] : a \in Extent(ptr, length)}]
  BY DEF BytesFromPtr, Holding
<1>2. CASE arg[g] > 0
  <2>1. ptr \in Address /\ length = arg[g]
    BY <1>1, <1>2, Unpacked
  <2>2. ptr \in Nat /\ ptr # 0 /\ length \in Nat \ {0}
    BY <1>2, <2>1, SizesAssumption DEF Address, LocalTypeOK
  <2>3. ptr \in Extent(ptr, length)
    BY <2>2, ExtentSize
  <2>4. \A a \in Extent(ptr, length) : mem[a] = g
    BY <1>1, <1>2, <2>1 DEF Holds, Intact
  <2>5. {mem[a] : a \in Extent(ptr, length)} = {g}
    BY <2>3, <2>4
  <2> QED BY <1>1, <1>2, <2>2, <2>5 DEF ReadBack, LocalTypeOK
<1>3. CASE ~(arg[g] > 0)
  <2>1. ptr = 0
    BY <1>1, <1>3, Unpacked
  <2> QED BY <1>1, <1>3, <2>1 DEF ReadBack, LocalTypeOK
<1> QED BY <1>2, <1>3

\* The step of g leaves memory alone, keeps the buffer it holds if it still
\* holds one, and changes nothing of the others.
Quiet(g) ==
  /\ ptrs' = ptrs /\ mem' = mem
  /\ Holds(g)' => /\ Holds(g) /\ pc[g] # "copy"
                  /\ arg'[g] = arg[g] /\ packed'[g] = packed[g]
  /\ \A h \in Goroutines \ {g} :
       /\ pc'[h] = pc[h] /\ arg'[h] = arg[h]
       /\ packed'[h] = packed[h] /\ got'[h] = got[h]

\* The steps that write neither the map nor memory.
LocalStep(g) ==
  \/ \E n \in 0..MaxPayload : PtrFromBytes(g, n)
  \/ \E limit \in Limits : Configure(g, limit)
  \/ Lock(g) \/ AllocatePanics(g)
  \/ DeallocatePacked(g) \/ PluginPanics(g) \/ WithMaxTotalAllocations(g)

(* Those steps are quiet, and do not spoil what their goroutine has read.  *)
LEMMA LocalStepQuiet ==
  ASSUME TypeInv, NEW g \in Goroutines, LocalStep(g)
  PROVE  Quiet(g) /\ (ReadBack(g) => ReadBack(g)')
<1> USE SizesAssumption
        DEF TypeInv, TypeOK, LocalTypeOK, Holds, Holding, ReadBack, Goto,
            Leave, manager, Quiet
<1> DEFINE Goal == Quiet(g) /\ (ReadBack(g) => ReadBack(g)')
<1>1. ASSUME NEW n \in 0..MaxPayload, PtrFromBytes(g, n) PROVE Goal
  BY <1>1 DEF PtrFromBytes
<1>2. ASSUME NEW limit \in Limits, Configure(g, limit) PROVE Goal
  BY <1>2 DEF Configure
<1>3. CASE Lock(g)
  <2>1. pc[g] # "copy" \/ ~Holds(g)'
    BY <1>3 DEF Lock, Critical
  <2> QED BY <1>3, <2>1 DEF Lock
<1>4. CASE AllocatePanics(g)
  BY <1>4 DEF AllocatePanics
<1>5. CASE DeallocatePacked(g)
  BY <1>5 DEF DeallocatePacked
<1>6. CASE PluginPanics(g)
  BY <1>6 DEF PluginPanics
<1>7. CASE WithMaxTotalAllocations(g)
  BY <1>7 DEF WithMaxTotalAllocations
<1> QED
  BY <1>1, <1>2, <1>3, <1>4, <1>5, <1>6, <1>7 DEF LocalStep

(* Reading is quiet too.                                                   *)
LEMMA ReadQuiet ==
  ASSUME TypeInv, NEW g \in Goroutines, BytesFromPtr(g)
  PROVE  Quiet(g)
BY DEF TypeInv, TypeOK, LocalTypeOK, Holds, Holding, Goto, manager, Quiet,
       BytesFromPtr

(* A quiet step leaves every held buffer as it was.                        *)
LEMMA QuietKeeps ==
  ASSUME HandleInv, ~recovered, NEW g \in Goroutines, Quiet(g)
  PROVE  /\ Holds(g)' => Holds(g) /\ packed'[g] = packed[g] /\ Intact(g)'
         /\ \A h \in Goroutines \ {g} : Keeps(h)
<1>1. ASSUME Holds(g)' PROVE Intact(g)'
  BY <1>1 DEF Quiet, HandleInv, Intact, UnpackPtr, UnpackLen
<1>2. ASSUME NEW h \in Goroutines \ {g} PROVE Keeps(h)
  <2>1. Holds(h) => Intact(h)'
    BY DEF Quiet, HandleInv, Intact, UnpackPtr, UnpackLen
  <2> QED BY <2>1 DEF Quiet, Keeps, Holds, ReadBack
<1> QED BY <1>1, <1>2 DEF Quiet

(* What the parts above say of each step adds up to the invariant.         *)
LEMMA HandleCombine ==
  ASSUME HandleInv, ~recovered, NEW g \in Goroutines,
         Holds(g)' => Intact(g)',
         ReadBack(g)',
         \A h \in Goroutines \ {g} : Keeps(h),
         Holds(g)' => \/ Holds(g) /\ packed'[g] = packed[g]
                      \/ \A h \in Goroutines \ {g} : Holds(h) =>
                           UnpackPtr(packed[g])' # UnpackPtr(packed[h])
  PROVE  /\ \A h \in Goroutines : (Holds(h) => Intact(h))' /\ ReadBack(h)'
         /\ HandlesDistinct'
<1>1. \A h \in Goroutines : (Holds(h) => Intact(h))' /\ ReadBack(h)'
  BY DEF HandleInv, Keeps
<1>2. \A h \in Goroutines \ {g} :
        /\ Holds(h)' => Holds(h)
        /\ UnpackPtr(packed[h])' = UnpackPtr(packed[h])
  BY DEF Keeps, UnpackPtr
<1>3. ASSUME NEW h \in Goroutines \ {g}, Holds(g)', Holds(h)'
      PROVE  UnpackPtr(packed[g])' # UnpackPtr(packed[h])'
  <2>1. CASE Holds(g) /\ packed'[g] = packed[g]
    <3>1. UnpackPtr(packed[g])' = UnpackPtr(packed[g])
      BY <2>1 DEF UnpackPtr
    <3> QED BY <1>2, <1>3, <2>1, <3>1 DEF HandleInv, HandlesDistinct
  <2>2. CASE \A k \in Goroutines \ {g} : Holds(k) =>
               UnpackPtr(packed[g])' # UnpackPtr(packed[k])
    BY <1>2, <1>3, <2>2
  <2> QED BY <1>3, <2>1, <2>2
<1>4. ASSUME NEW h \in Goroutines \ {g}, NEW k \in Goroutines \ {g},
             h # k, Holds(h)', Holds(k)'
      PROVE  UnpackPtr(packed[h])' # UnpackPtr(packed[k])'
  BY <1>2, <1>4 DEF HandleInv, HandlesDistinct
<1>5. HandlesDistinct'
  BY <1>3, <1>4 DEF HandlesDistinct
<1> QED BY <1>1, <1>5

(* Every step preserves the invariant.                                     *)
LEMMA HandleStep ==
  ASSUME HandleInv, [Next]_vars
  PROVE  HandleInv'
<1> USE DEF HandleInv
<1> DEFINE Goal == ~recovered' =>
             /\ \A h \in Goroutines : (Holds(h) => Intact(h))' /\ ReadBack(h)'
             /\ HandlesDistinct'
<1>1. PinInv'
  BY PinStep
<1>2. Goal
  <2>1. CASE recovered
    <3>1. recovered'
      BY <2>1 DEF Next, Finish, vars, manager, PtrFromBytes, Configure, Lock, Allocate,
           AllocatePanics, CopyToMemory, BytesFromPtr, DeallocatePacked,
           Deallocate, PluginPanics, FreeAllTracked, WithMaxTotalAllocations,
           RuntimeReuses
    <3> QED BY <3>1
  <2>2. CASE ~recovered
    <3>1. ASSUME NEW g \in Goroutines, Allocate(g) PROVE Goal
      BY <2>2, <3>1, AllocateKeeps, HandleCombine
    <3>2. ASSUME NEW g \in Goroutines, CopyToMemory(g) PROVE Goal
      <4>1. Holds(g) /\ packed'[g] = packed[g]
        BY <3>2 DEF CopyToMemory, Holds, Holding, PinInv, TypeInv, LocalsOK
      <4> QED BY <2>2, <3>2, <4>1, CopyKeeps, HandleCombine
    <3>3. ASSUME NEW g \in Goroutines, Deallocate(g) PROVE Goal
      BY <2>2, <3>3, DeallocateKeeps, HandleCombine
    <3>4. ASSUME NEW g \in Goroutines, BytesFromPtr(g) PROVE Goal
      <4>1. Quiet(g) /\ ReadBack(g)'
        BY <2>2, <3>4, ReadQuiet, ReadReturns DEF PinInv
      <4> QED BY <2>2, <4>1, QuietKeeps, HandleCombine
    <3>5. ASSUME NEW g \in Goroutines, LocalStep(g) PROVE Goal
      <4>1. Quiet(g) /\ ReadBack(g)'
        BY <2>2, <3>5, LocalStepQuiet DEF PinInv
      <4> QED BY <2>2, <4>1, QuietKeeps, HandleCombine
    <3>6. ASSUME NEW g \in Goroutines, FreeAllTracked(g) PROVE Goal
      BY <3>6 DEF FreeAllTracked
    <3>7. CASE RuntimeReuses
      <4>1. \A h \in Goroutines : Intact(h) => Intact(h)'
        <5> SUFFICES ASSUME NEW h \in Goroutines, Intact(h) PROVE Intact(h)'
          OBVIOUS
        <5>1. Extent(UnpackPtr(packed[h]), arg[h]) \subseteq Pinned
          BY IntactPinned
        <5>2. Pinned \subseteq Address
          BY PinnedFinite DEF PinInv
        <5> QED BY <3>7, <5>1, <5>2
                DEF RuntimeReuses, manager, Intact, UnpackPtr, UnpackLen
      <4> QED BY <2>2, <3>7, <4>1
              DEF RuntimeReuses, Holds, ReadBack, HandlesDistinct, UnpackPtr
    <3>8. CASE UNCHANGED vars
      BY <2>2, <3>8 DEF vars, manager, Holds, ReadBack, HandlesDistinct, Intact,
           UnpackPtr, UnpackLen
    <3> QED
      BY <3>1, <3>2, <3>3, <3>4, <3>5, <3>6, <3>7, <3>8 DEF Next, Finish, LocalStep
  <2> QED BY <2>1, <2>2
<1> QED BY <1>1, <1>2

(* Initially no goroutine holds a buffer.                                  *)
LEMMA HandleInit == Init => HandleInv
<1> SUFFICES ASSUME Init PROVE HandleInv
  OBVIOUS
<1>1. \A g \in Goroutines : pc[g] = "idle"
  BY DEF Init
<1> QED BY <1>1, PinInit
        DEF HandleInv, HandlesDistinct, Holds, Holding, ReadBack

(* Until a panic is recovered, every buffer a goroutine holds is pinned    *)
(* and has its bytes, for any number of goroutines and any interleaving.   *)
THEOREM HandlesIntact == Spec => []IntactUntilRecovery
<1>1. HandleInv => IntactUntilRecovery
  BY DEF HandleInv, IntactUntilRecovery
<1> QED BY <1>1, HandleInit, HandleStep, PTL DEF Spec

(* ... and BytesFromPtr returns what PtrFromBytes was given.               *)
THEOREM RoundTripCorrect == Spec => []RoundTrip
<1>1. HandleInv => RoundTrip
  BY DEF HandleInv, RoundTrip, ReadBack
<1> QED BY <1>1, HandleInit, HandleStep, PTL DEF Spec
-----------------------------------------------------------------------------
(* The memory manager implements PrivateBuffers, for any goroutines,       *)
(* payloads, memory and limits: every step of AbiMemory is a step of the   *)
(* store, or none that its clients can see.                                *)

(* What the mapping needs beside HandleInv: only a goroutine that has read *)
(* has bytes, and the limit in force came from a Configure.                *)
MapInv ==
  /\ \A g \in Goroutines : pc[g] # "read" => got[g] = {}
  /\ \A g \in Goroutines : pc[g] = "configure" => arg[g] \in Limits
  /\ maxTotalAllocations \in {DefaultMaxTotalAllocations} \cup {l \in Limits : l > 0}

RefInv == HandleInv /\ MapInv

\* Nothing is mapped at first.
LEMMA MapInit == Init => MapInv
BY DEF Init, MapInv

(* Every step preserves it.                                                *)
LEMMA MapStep ==
  ASSUME TypeInv, MapInv, [Next]_vars
  PROVE  MapInv'
<1> USE DEF MapInv, TypeInv, TypeOK, LocalTypeOK, Goto, Leave, manager
<1>1. ASSUME NEW g \in Goroutines, NEW n \in 0..MaxPayload, PtrFromBytes(g, n)
      PROVE  MapInv'
  BY <1>1 DEF PtrFromBytes
<1>2. ASSUME NEW g \in Goroutines, NEW limit \in Limits, Configure(g, limit)
      PROVE  MapInv'
  BY <1>2 DEF Configure
<1>3. ASSUME NEW g \in Goroutines, Lock(g) PROVE MapInv'
  BY <1>3 DEF Lock
<1>4. ASSUME NEW g \in Goroutines, Allocate(g) PROVE MapInv'
  BY <1>4 DEF Allocate
<1>5. ASSUME NEW g \in Goroutines, AllocatePanics(g) PROVE MapInv'
  BY <1>5 DEF AllocatePanics
<1>6. ASSUME NEW g \in Goroutines, CopyToMemory(g) PROVE MapInv'
  BY <1>6 DEF CopyToMemory
<1>7. ASSUME NEW g \in Goroutines, BytesFromPtr(g) PROVE MapInv'
  BY <1>7 DEF BytesFromPtr
<1>8. ASSUME NEW g \in Goroutines, DeallocatePacked(g) PROVE MapInv'
  BY <1>8 DEF DeallocatePacked
<1>9. ASSUME NEW g \in Goroutines, Deallocate(g) PROVE MapInv'
  BY <1>9 DEF Deallocate
<1>10. ASSUME NEW g \in Goroutines, PluginPanics(g) PROVE MapInv'
  BY <1>10 DEF PluginPanics
<1>11. ASSUME NEW g \in Goroutines, FreeAllTracked(g) PROVE MapInv'
  BY <1>11 DEF FreeAllTracked
<1>12. ASSUME NEW g \in Goroutines, WithMaxTotalAllocations(g) PROVE MapInv'
  BY <1>12 DEF WithMaxTotalAllocations, Accepted
<1>13. CASE RuntimeReuses
  BY <1>13 DEF RuntimeReuses
<1>14. CASE UNCHANGED vars
  BY <1>14 DEF vars
<1> QED
  BY <1>1, <1>2, <1>3, <1>4, <1>5, <1>6, <1>7, <1>8, <1>9, <1>10, <1>11, <1>12,
     <1>13, <1>14 DEF Next, Finish

\* The initial states are empty stores.
LEMMA RefInit == Init => RefInv
BY HandleInit, MapInit DEF RefInv

\* Every step keeps the mapping.
LEMMA RefStep ==
  ASSUME RefInv, [Next]_vars
  PROVE  RefInv'
BY HandleStep, MapStep DEF RefInv, HandleInv, PinInv

-----------------------------------------------------------------------------
(* A free takes off the counter what the payload counted: the clamp at 0   *)
(* and the lookup of the stored length change nothing.                     *)
LEMMA DeallocateSubtracts ==
  ASSUME HandleInv, ~recovered, NEW g \in Goroutines, Deallocate(g)
  PROVE  totalAllocated' = totalAllocated - arg[g]
<1> USE DEF HandleInv, PinInv, TypeInv, TypeOK
<1> DEFINE ptr == UnpackPtr(packed[g])
<1>1. pc[g] = "deallocate" /\ Holds(g)
  BY DEF Deallocate, Holds, Holding, LocalsOK
<1>2. Intact(g)
  BY <1>1
<1>3. ActualSize(g) = arg[g]
  BY <1>2 DEF ActualSize, Intact
<1>4. Extent(ptr, arg[g]) \subseteq Pinned
  BY <1>2, IntactPinned
<1>5. Cardinality(Extent(ptr, arg[g])) = arg[g]
  <2>1. ptr \in Nat /\ arg[g] \in Nat \ {0}
    BY <1>1, <1>2 DEF Intact, ManagerTypeOK, Address, Holds, LocalTypeOK
  <2> QED BY <2>1, ExtentSize
<1>6. IsFiniteSet(Pinned)
  BY PinnedFinite
<1>7. arg[g] <= Cardinality(Pinned)
  BY <1>4, <1>5, <1>6, FS_Subset
<1>8. totalAllocated \in Nat /\ arg[g] \in Int /\ totalAllocated = Cardinality(Pinned)
  BY DEF ManagerTypeOK, LocalTypeOK, Accounting
<1>9. ~(totalAllocated - arg[g] < 0)
  BY <1>7, <1>8
<1> QED BY <1>3, <1>9 DEF Deallocate

-----------------------------------------------------------------------------
(* The steps of a goroutine that holds nothing, and those that move bytes  *)
(* inside its own buffer, are no step of the store.                        *)
LEMMA HiddenSteps ==
  ASSUME RefInv, NEW g \in Goroutines,
         \/ \E n \in 0..MaxPayload : PtrFromBytes(g, n)
         \/ \E limit \in Limits : Configure(g, limit)
         \/ Lock(g) \/ CopyToMemory(g)
  PROVE  UNCHANGED Buffers!store
<1> USE DEF RefInv, HandleInv, PinInv, TypeInv, TypeOK, LocalTypeOK, Goto, manager,
            Buffers!store, Stored, Seen, Holding
<1>1. ASSUME NEW n \in 0..MaxPayload, PtrFromBytes(g, n)
      PROVE  UNCHANGED Buffers!store
  BY <1>1 DEF PtrFromBytes
<1>2. ASSUME NEW limit \in Limits, Configure(g, limit)
      PROVE  UNCHANGED Buffers!store
  BY <1>2 DEF Configure
<1>3. CASE Lock(g)
  BY <1>3 DEF Lock
<1>4. CASE CopyToMemory(g)
  BY <1>4 DEF CopyToMemory
<1> QED BY <1>1, <1>2, <1>3, <1>4

(* allocate puts the payload into the store, or counts it once cleared.    *)
LEMMA AllocatePuts ==
  ASSUME RefInv, RefInv', NEW g \in Goroutines, Allocate(g)
  PROVE  Buffers!StoreNext
<1> USE DEF RefInv, HandleInv, PinInv, TypeInv, TypeOK, LocalTypeOK
<1>1. /\ pc[g] = "allocate" /\ pc' = [pc EXCEPT ![g] = "copy"]
      /\ arg' = arg /\ got' = got /\ recovered' = recovered
      /\ maxTotalAllocations' = maxTotalAllocations
      /\ totalAllocated' = totalAllocated + arg[g]
      /\ totalAllocated + arg[g] <= maxTotalAllocations
      /\ arg[g] \in 1..MaxPayload
  BY DEF Allocate, Goto, WithinLimit, LocalsOK
<1>2. {h \in Goroutines : pc'[h] = "recover"} = {h \in Goroutines : pc[h] = "recover"}
  BY <1>1
<1>3. Seen' = Seen
  BY <1>1 DEF Seen
<1>4. CASE ~recovered
  <2>1. Stored[g] = 0 /\ Stored' = [Stored EXCEPT ![g] = arg[g]]
    BY <1>1, <1>4 DEF Stored, Holding
  <2>2. Buffers!Put(g, arg[g])
    BY <1>1, <1>2, <1>3, <1>4, <2>1 DEF Buffers!Put
  <2> QED BY <1>1, <2>2 DEF Buffers!StoreNext
<1>5. CASE recovered
  <2>1. Stored' = Stored
    BY <1>1, <1>5 DEF Stored
  <2>2. Buffers!Recount(totalAllocated')
    BY <1>1, <1>2, <1>3, <1>5, <2>1 DEF Buffers!Recount, ManagerTypeOK
  <2> QED BY <2>2 DEF Buffers!StoreNext
<1> QED BY <1>4, <1>5

(* A panic of allocate or of plugin code fails the client.                 *)
LEMMA PanicFails ==
  ASSUME RefInv, NEW g \in Goroutines, AllocatePanics(g) \/ PluginPanics(g)
  PROVE  Buffers!StoreNext
<1> USE DEF RefInv, HandleInv, PinInv, TypeInv, TypeOK, LocalTypeOK
<1>1. /\ pc' = [pc EXCEPT ![g] = "recover"] /\ arg' = [arg EXCEPT ![g] = 0]
      /\ got' = [got EXCEPT ![g] = {}] /\ recovered' = recovered
      /\ maxTotalAllocations' = maxTotalAllocations
      /\ totalAllocated' = totalAllocated
  BY DEF AllocatePanics, PluginPanics, Leave, Goto, manager
<1>2. {h \in Goroutines : pc'[h] = "recover"}
        = {h \in Goroutines : pc[h] = "recover"} \cup {g}
  BY <1>1
<1>3. Seen' = [Seen EXCEPT ![g] = {}]
  BY <1>1 DEF Seen
<1>4. Stored' = [Stored EXCEPT ![g] = 0]
  BY <1>1 DEF Stored, Holding
<1>5. Buffers!Fail(g)
  BY <1>1, <1>2, <1>3, <1>4 DEF Buffers!Fail
<1> QED BY <1>5 DEF Buffers!StoreNext

(* BytesFromPtr gets the client's own bytes, by ReadReturns.               *)
LEMMA ReadGets ==
  ASSUME RefInv, NEW g \in Goroutines, BytesFromPtr(g)
  PROVE  Buffers!StoreNext \/ UNCHANGED Buffers!store
<1> USE DEF RefInv, HandleInv, PinInv, TypeInv, TypeOK, LocalTypeOK
<1>1. /\ pc[g] = "held" /\ pc' = [pc EXCEPT ![g] = "read"]
      /\ arg' = arg /\ recovered' = recovered
      /\ maxTotalAllocations' = maxTotalAllocations
      /\ totalAllocated' = totalAllocated
      /\ got' = [got EXCEPT ![g] = got'[g]]
  BY DEF BytesFromPtr, Goto, manager
<1>2. {h \in Goroutines : pc'[h] = "recover"} = {h \in Goroutines : pc[h] = "recover"}
  BY <1>1
<1>3. Stored' = Stored
  BY <1>1 DEF Stored, Holding
<1>4. CASE ~recovered
  <2>1. got'[g] = IF arg[g] > 0 THEN {g} ELSE {}
    BY <1>1, <1>4, ReadReturns DEF ReadBack
  <2>2. Stored[g] = arg[g] /\ arg[g] >= 0
    BY <1>1, <1>4 DEF Stored, Holding, LocalsOK
  <2>3. Seen' = [Seen EXCEPT ![g] = IF Stored[g] = 0 THEN {} ELSE {g}]
    BY <1>1, <1>4, <2>1, <2>2 DEF Seen
  <2>4. Buffers!Get(g)
    BY <1>1, <1>2, <1>3, <1>4, <2>3 DEF Buffers!Get
  <2> QED BY <2>4 DEF Buffers!StoreNext
<1>5. CASE recovered
  <2>1. Seen' = Seen
    BY <1>1, <1>5 DEF Seen
  <2> QED BY <1>1, <1>2, <1>3, <2>1 DEF Buffers!store
<1> QED BY <1>4, <1>5

(* DeallocatePacked drops what was read; an empty payload ends with it.    *)
LEMMA DropsRead ==
  ASSUME RefInv, NEW g \in Goroutines, DeallocatePacked(g)
  PROVE  Buffers!StoreNext
<1> USE DEF RefInv, HandleInv, PinInv, TypeInv, TypeOK, LocalTypeOK
<1>1. /\ pc[g] \in {"held", "read"} /\ recovered' = recovered
      /\ maxTotalAllocations' = maxTotalAllocations
      /\ totalAllocated' = totalAllocated
      /\ got' = [got EXCEPT ![g] = {}]
  BY DEF DeallocatePacked, Leave, manager
<1>2. Stored' = Stored
  <2>1. CASE UnpackPtr(packed[g]) # 0 /\ UnpackLen(packed[g]) > 0
    <3>1. pc' = [pc EXCEPT ![g] = "deallocate"] /\ arg' = arg
      BY <2>1 DEF DeallocatePacked, Goto
    <3> QED BY <1>1, <3>1 DEF Stored, Holding
  <2>2. CASE ~(UnpackPtr(packed[g]) # 0 /\ UnpackLen(packed[g]) > 0)
    <3>1. pc' = [pc EXCEPT ![g] = "idle"] /\ arg' = [arg EXCEPT ![g] = 0]
      BY <2>2 DEF DeallocatePacked, Leave, Goto
    <3>2. ~(arg[g] > 0)
      BY <1>1, <2>2, Unpacked, SizesAssumption DEF Holding, Address
    <3>3. arg[g] = 0
      BY <1>1, <3>2 DEF LocalsOK, Holding
    <3> QED BY <1>1, <3>1, <3>3 DEF Stored, Holding
  <2> QED BY <2>1, <2>2
<1>3. {h \in Goroutines : pc'[h] = "recover"} = {h \in Goroutines : pc[h] = "recover"}
  BY <1>1 DEF DeallocatePacked, Leave, Goto
<1>4. Seen' = [Seen EXCEPT ![g] = {}]
  BY <1>1 DEF Seen
<1>5. Buffers!Drop(g)
  BY <1>1, <1>2, <1>3, <1>4 DEF Buffers!Drop
<1> QED BY <1>5 DEF Buffers!StoreNext

(* deallocate takes the payload out, by DeallocateSubtracts.               *)
LEMMA DeallocateTakesOut ==
  ASSUME RefInv, RefInv', NEW g \in Goroutines, Deallocate(g)
  PROVE  Buffers!StoreNext
<1> USE DEF RefInv, HandleInv, PinInv, TypeInv, TypeOK, LocalTypeOK
<1>1. /\ pc[g] = "deallocate" /\ pc' = [pc EXCEPT ![g] = "idle"]
      /\ arg' = [arg EXCEPT ![g] = 0] /\ got' = [got EXCEPT ![g] = {}]
      /\ recovered' = recovered
      /\ maxTotalAllocations' = maxTotalAllocations
  BY DEF Deallocate, Leave, Goto
<1>2. {h \in Goroutines : pc'[h] = "recover"} = {h \in Goroutines : pc[h] = "recover"}
  BY <1>1
<1>3. Seen' = Seen
  BY <1>1 DEF Seen, MapInv
<1>4. CASE ~recovered
  <2>1. Stored[g] = arg[g] /\ Stored' = [Stored EXCEPT ![g] = 0]
    BY <1>1, <1>4 DEF Stored, Holding
  <2>2. totalAllocated' = totalAllocated - Stored[g]
    BY <1>4, <2>1, DeallocateSubtracts
  <2>3. Buffers!TakeOut(g)
    BY <1>1, <1>2, <1>3, <1>4, <2>1, <2>2 DEF Buffers!TakeOut
  <2> QED BY <2>3 DEF Buffers!StoreNext
<1>5. CASE recovered
  <2>1. Stored' = Stored
    BY <1>1, <1>5 DEF Stored
  <2>2. totalAllocated' <= totalAllocated
    BY DEF Deallocate, ActualSize, ManagerTypeOK
  <2>3. Buffers!Recount(totalAllocated')
    BY <1>1, <1>2, <1>3, <1>5, <2>1, <2>2 DEF Buffers!Recount, ManagerTypeOK
  <2> QED BY <2>3 DEF Buffers!StoreNext
<1> QED BY <1>4, <1>5

(* FreeAllTracked clears the store.                                        *)
LEMMA FreeAllClears ==
  ASSUME RefInv, NEW g \in Goroutines, FreeAllTracked(g)
  PROVE  Buffers!StoreNext
<1> USE DEF RefInv, HandleInv, PinInv, TypeInv, TypeOK, LocalTypeOK
<1>1. /\ pc[g] = "recover" /\ pc' = [pc EXCEPT ![g] = "idle"]
      /\ recovered' /\ totalAllocated' = 0
      /\ maxTotalAllocations' = maxTotalAllocations
  BY DEF FreeAllTracked, Goto
<1>2. {h \in Goroutines : pc'[h] = "recover"}
        = {h \in Goroutines : pc[h] = "recover"} \ {g}
  BY <1>1
<1>3. Stored' = Buffers!Nothing /\ Seen' = Buffers!NoBytes
  BY <1>1 DEF Stored, Seen, Buffers!Nothing, Buffers!NoBytes
<1>4. recovered' = TRUE
  BY DEF FreeAllTracked
<1>5. Buffers!Clear(g)
  BY <1>1, <1>2, <1>3, <1>4 DEF Buffers!Clear
<1> QED BY <1>5 DEF Buffers!StoreNext

(* Configure sets the limit, or nothing if it is not positive.             *)
LEMMA ConfigureSets ==
  ASSUME RefInv, NEW g \in Goroutines, WithMaxTotalAllocations(g)
  PROVE  Buffers!StoreNext \/ UNCHANGED Buffers!store
<1> USE DEF RefInv, HandleInv, PinInv, TypeInv, TypeOK, LocalTypeOK
<1>1. /\ pc[g] = "configure" /\ pc' = [pc EXCEPT ![g] = "idle"]
      /\ arg' = [arg EXCEPT ![g] = 0] /\ got' = [got EXCEPT ![g] = {}]
      /\ recovered' = recovered /\ totalAllocated' = totalAllocated
      /\ maxTotalAllocations' \in {arg[g], maxTotalAllocations}
      /\ maxTotalAllocations' = arg[g] => arg[g] > 0 \/ arg[g] = maxTotalAllocations
  BY DEF WithMaxTotalAllocations, Accepted, Leave, Goto
<1>2. {h \in Goroutines : pc'[h] = "recover"} = {h \in Goroutines : pc[h] = "recover"}
  BY <1>1
<1>3. Seen' = Seen /\ Stored' = Stored
  BY <1>1 DEF Seen, Stored, Holding, MapInv
<1>4. CASE maxTotalAllocations' = maxTotalAllocations
  BY <1>1, <1>2, <1>3, <1>4 DEF Buffers!store
<1>5. CASE maxTotalAllocations' # maxTotalAllocations
  <2>1. maxTotalAllocations' \in {l \in Limits : l > 0}
    BY <1>1, <1>5 DEF MapInv
  <2>2. Buffers!SetLimit(maxTotalAllocations')
    BY <1>1, <1>2, <1>3 DEF Buffers!SetLimit
  <2> QED BY <2>1, <2>2 DEF Buffers!StoreNext
<1> QED BY <1>4, <1>5

-----------------------------------------------------------------------------
(* Every step is one of the store, or none.                                *)
LEMMA StoreStep ==
  ASSUME RefInv, [Next]_vars
  PROVE  [Buffers!StoreNext]_(Buffers!store)
<1> DEFINE Goal == Buffers!StoreNext \/ UNCHANGED Buffers!store
<1>1. RefInv'
  BY RefStep
<1>2. CASE RuntimeReuses \/ UNCHANGED vars
  BY <1>2 DEF RuntimeReuses, vars, manager, Buffers!store, Stored, Seen
<1>3. ASSUME NEW g \in Goroutines, NEW n \in 0..MaxPayload, PtrFromBytes(g, n)
      PROVE  Goal
  BY <1>3, HiddenSteps
<1>4. ASSUME NEW g \in Goroutines, NEW limit \in Limits, Configure(g, limit)
      PROVE  Goal
  BY <1>4, HiddenSteps
<1>5. ASSUME NEW g \in Goroutines, Lock(g) \/ Finish(g) PROVE Goal
  BY <1>1, <1>5, HiddenSteps, AllocatePuts, PanicFails, DeallocateTakesOut,
     FreeAllClears, ConfigureSets DEF Finish
<1>6. ASSUME NEW g \in Goroutines,
             BytesFromPtr(g) \/ DeallocatePacked(g) \/ PluginPanics(g)
      PROVE  Goal
  BY <1>6, ReadGets, DropsRead, PanicFails
<1> QED BY <1>2, <1>3, <1>4, <1>5, <1>6 DEF Next

(* Initially the store is empty.                                           *)
LEMMA StoreStarts == Init => Buffers!StoreInit
BY DEF Init, Buffers!StoreInit, Buffers!Nothing, Buffers!NoBytes, Stored, Seen, Holding

(* The manager, with its addresses, its mutex and its unlocked copies, is  *)
(* a store of private buffers, until a recovery clears it.                 *)
THEOREM ManagerImplementsBuffers == Spec => ImplementsBuffers
<1>1. Spec => []RefInv
  BY RefInit, RefStep, PTL DEF Spec
<1>2. Spec => [][Buffers!StoreNext]_(Buffers!store)
  BY <1>1, StoreStep, PTL DEF Spec
<1> QED BY <1>2, StoreStarts, PTL DEF Spec, ImplementsBuffers, Buffers!StoreSpec
=============================================================================
