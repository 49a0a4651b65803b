----------------------------- MODULE AbiMemory -----------------------------
(***************************************************************************)
(* The guest's memory manager, internal/abi/abi.go: the map of pinned      *)
(* buffers, its byte counter and its limit, behind one mutex, used by      *)
(* goroutines that each send a payload through WASM linear memory          *)
(* (PtrFromBytes), read it back (BytesFromPtr) and free it                 *)
(* (DeallocatePacked), as the adapters, the host's calls of the exports    *)
(* allocate and deallocate, and TestConcurrency in abi_test.go do.         *)
(*                                                                         *)
(* Linear memory is the bytes at addresses 1..MaxAddress; 0 is the null    *)
(* pointer.  A payload is a number of copies of the byte that names its    *)
(* goroutine: what the properties must tell apart is whose bytes they are. *)
(* Go's allocator is external: make returns any region that no pinned      *)
(* buffer occupies, and unpinned bytes may be overwritten at any time.     *)
(* Memory is large enough that make itself never fails.                    *)
(***************************************************************************)
EXTENDS Integers, FiniteSets

CONSTANTS
  Goroutines,                  \* the callers of the manager
  NoGoroutine,                 \* the value of a free mutex
  Foreign,                     \* a byte no goroutine wrote through the manager
  MaxAddress,                  \* linear memory is 1..MaxAddress
  Word,                        \* the radix of a packed value, 2^32 in the code
  MaxPayload,                  \* bound on the length of a payload
  DefaultMaxTotalAllocations,  \* the limit before any Configure
  Limits                       \* the limits a caller may pass to Configure

ASSUME SizesAssumption ==
  /\ MaxAddress \in Nat /\ MaxPayload \in Nat /\ Word \in Nat
  /\ MaxAddress < Word /\ MaxPayload < Word
  /\ DefaultMaxTotalAllocations \in Nat \ {0}
  /\ Limits \subseteq Int

ASSUME NamesAssumption ==
  NoGoroutine \notin Goroutines /\ Foreign \notin Goroutines

VARIABLES
  ptrs,                 \* address of each pinned buffer -> its length
  totalAllocated,       \* the counter the limit is checked against
  maxTotalAllocations,  \* config.maxTotalAllocations
  lock,                 \* the goroutine inside the mutex, or NoGoroutine
  mem,                  \* the bytes of linear memory
  pc,                   \* where each goroutine is
  arg,                  \* its argument: a payload's length, or a limit
  packed,               \* the packed pointer and length it was given
  got,                  \* the bytes its last BytesFromPtr returned, as a set
  recovered,            \* history: FreeAllTracked has run
  lost                  \* history: FreeAllTracked has run since its allocation

manager == <<ptrs, totalAllocated, maxTotalAllocations>>
vars == <<manager, lock, mem, pc, arg, packed, got, recovered, lost>>

Address == 1..MaxAddress

\* The bytes of the buffer of length len at address p.
Extent(p, len) == p .. (p + len - 1)

\* The bytes a map of buffers keeps from the garbage collector.
PinnedBy(buffers) == UNION {Extent(p, buffers[p]) : p \in DOMAIN buffers}

Pinned == PinnedBy(ptrs)

(* PackPtrLen and UnpackPtrLen: shifts and masks of a 2^64 word.  Both     *)
(* panic on a length without a pointer, which allocate never returns and   *)
(* no goroutine here holds; what becomes of a host's is in ExportedCall.   *)
(* The mutant takes the low half for the pointer.                          *)
PackPtrLen(ptr, length) == ptr * Word + length
UnpackPtr_LowHalf(pk) == pk % Word
UnpackPtr(pk) == pk \div Word
UnpackLen(pk) == pk % Word

Labels == {"idle", "allocate", "copy", "held", "read",
           "deallocate", "recover", "configure"}

\* Where a goroutine may hold a buffer.
Holding == {"copy", "held", "read", "deallocate"}

\* Where a goroutine waits for the mutex or is inside it.
Critical == {"allocate", "deallocate", "recover", "configure"}

Init ==
  /\ ptrs = [p \in {} |-> 0]
  /\ totalAllocated = 0
  /\ maxTotalAllocations = DefaultMaxTotalAllocations
  /\ lock = NoGoroutine
  /\ mem = [a \in Address |-> Foreign]
  /\ pc = [g \in Goroutines |-> "idle"]
  /\ arg = [g \in Goroutines |-> 0]
  /\ packed = [g \in Goroutines |-> 0]
  /\ got = [g \in Goroutines |-> {}]
  /\ recovered = FALSE
  /\ lost = [g \in Goroutines |-> FALSE]

-----------------------------------------------------------------------------
Goto(g, label) == pc' = [pc EXCEPT ![g] = label]

\* g's operation is over, or unwinds: its locals are dead.
Leave(g, label) ==
  /\ Goto(g, label)
  /\ arg' = [arg EXCEPT ![g] = 0]
  /\ packed' = [packed EXCEPT ![g] = 0]
  /\ got' = [got EXCEPT ![g] = {}]
  /\ lost' = [lost EXCEPT ![g] = FALSE]

(* sync.Mutex: Lock, and the deferred Unlock of every critical section. *)
Lock(g) ==
  /\ pc[g] \in Critical /\ lock = NoGoroutine
  /\ lock' = g
  /\ UNCHANGED <<manager, mem, pc, arg, packed, got, recovered, lost>>

Unlock(g) == lock = g /\ lock' = NoGoroutine

(* PtrFromBytes of a payload of n bytes: an empty one is packed as 0. *)
PtrFromBytes(g, n) ==
  /\ pc[g] = "idle"
  /\ arg' = [arg EXCEPT ![g] = n]
  /\ Goto(g, IF n = 0 THEN "held" ELSE "allocate")
  /\ UNCHANGED <<manager, lock, mem, packed, got, recovered, lost>>

(* The limit, before anything is allocated; the mutant forgets the request.*)
WithinLimit_NotCountingIt(size) == totalAllocated < maxTotalAllocations
WithinLimit(size) == totalAllocated + size <= maxTotalAllocations

(* allocate, within the limit: pin a zeroed buffer and count it. *)
Allocate(g) ==
  /\ pc[g] = "allocate" /\ WithinLimit(arg[g])
  /\ Unlock(g)
  /\ \E p \in Address :
       /\ Extent(p, arg[g]) \subseteq Address \ Pinned
       /\ ptrs' = [q \in DOMAIN ptrs \cup {p} |->
                     IF q = p THEN arg[g] ELSE ptrs[q]]
       /\ mem' = [a \in Address |->
                    IF a \in Extent(p, arg[g]) THEN Foreign ELSE mem[a]]
       /\ packed' = [packed EXCEPT ![g] = PackPtrLen(p, arg[g])]
  /\ totalAllocated' = totalAllocated + arg[g]
  /\ Goto(g, "copy")
  /\ UNCHANGED <<maxTotalAllocations, arg, got, recovered, lost>>

\* Mutant: wait for memory instead of panicking.
AllocatePanics_Waits(g) ==
  /\ pc[g] = "allocate" /\ ~WithinLimit(arg[g])
  /\ Unlock(g)
  /\ UNCHANGED <<manager, mem, pc, arg, packed, got, recovered, lost>>

(* allocate, beyond the limit: the panic unwinds, releasing the mutex, to  *)
(* the recover of handleExportedCall.                                      *)
AllocatePanics(g) ==
  /\ pc[g] = "allocate" /\ ~WithinLimit(arg[g])
  /\ Unlock(g)
  /\ Leave(g, "recover")
  /\ UNCHANGED <<manager, mem, recovered>>

\* The bytes copyToMemory overwrites; the mutant stops one short.
Destination_OneShort(g) == Extent(UnpackPtr(packed[g]), arg[g] - 1)
Destination(g) == Extent(UnpackPtr(packed[g]), arg[g])

(* copyToMemory, outside the mutex; PtrFromBytes then returns. *)
CopyToMemory(g) ==
  /\ pc[g] = "copy"
  /\ mem' = [a \in Address |-> IF a \in Destination(g) THEN g ELSE mem[a]]
  /\ Goto(g, "held")
  /\ UNCHANGED <<manager, lock, arg, packed, got, recovered, lost>>

(* BytesFromPtr: a copy of the bytes, none for a zero pointer or length. *)
BytesFromPtr(g) ==
  /\ pc[g] = "held"
  /\ LET ptr == UnpackPtr(packed[g])
         length == UnpackLen(packed[g])
     IN got' = [got EXCEPT ![g] =
                  IF ptr = 0 \/ length = 0 THEN {}
                  ELSE {mem[a] : a \in Extent(ptr, length)}]
  /\ Goto(g, "read")
  /\ UNCHANGED <<manager, lock, mem, arg, packed, recovered, lost>>

(* DeallocatePacked: nothing to do for a zero value. *)
DeallocatePacked(g) ==
  /\ pc[g] \in {"held", "read"}
  /\ IF UnpackPtr(packed[g]) # 0 /\ UnpackLen(packed[g]) > 0
     THEN /\ Goto(g, "deallocate")
          /\ got' = [got EXCEPT ![g] = {}]
          /\ UNCHANGED <<arg, packed, lost>>
     ELSE Leave(g, "idle")
  /\ UNCHANGED <<manager, lock, mem, recovered>>

\* What a free takes off the counter: the stored length, not the caller's;
\* the mutant trusts the caller, for an untracked pointer too.
ActualSize_Trusting(g) == UnpackLen(packed[g])
ActualSize(g) ==
  LET ptr == UnpackPtr(packed[g]) IN IF ptr \in DOMAIN ptrs THEN ptrs[ptr] ELSE 0

\* Mutant: the buffer goes, its bytes stay counted.
Deallocate_KeepsCount(g) ==
  /\ pc[g] = "deallocate"
  /\ Unlock(g)
  /\ ptrs' = [q \in DOMAIN ptrs \ {UnpackPtr(packed[g])} |-> ptrs[q]]
  /\ Leave(g, "idle")
  /\ UNCHANGED <<totalAllocated, maxTotalAllocations, mem, recovered>>

(* deallocate: an untracked pointer is ignored, and the counter is clamped *)
(* at 0.                                                                   *)
Deallocate(g) ==
  /\ pc[g] = "deallocate"
  /\ Unlock(g)
  /\ ptrs' = [q \in DOMAIN ptrs \ {UnpackPtr(packed[g])} |-> ptrs[q]]
  /\ totalAllocated' = IF totalAllocated - ActualSize(g) < 0 THEN 0
                       ELSE totalAllocated - ActualSize(g)
  /\ Leave(g, "idle")
  /\ UNCHANGED <<maxTotalAllocations, mem, recovered>>

(* Plugin code panics while it holds a buffer. *)
PluginPanics(g) ==
  /\ pc[g] \in {"held", "read"}
  /\ Leave(g, "recover")
  /\ UNCHANGED <<manager, lock, mem, recovered>>

(* FreeAllTracked, which handleExportedCall calls when it recovers: every  *)
(* goroutine's buffers are unpinned, not only those of the one that        *)
(* panicked.                                                               *)
FreeAllTracked(g) ==
  /\ pc[g] = "recover"
  /\ Unlock(g)
  /\ ptrs' = [p \in {} |-> 0]
  /\ totalAllocated' = 0
  /\ recovered' = TRUE
  /\ lost' = [h \in Goroutines |-> pc[h] \in Holding]
  /\ Goto(g, "idle")
  /\ UNCHANGED <<maxTotalAllocations, mem, arg, packed, got>>

(* Configure(WithMaxTotalAllocations(limit)): limits <= 0 are ignored. *)
Configure(g, limit) ==
  /\ pc[g] = "idle"
  /\ arg' = [arg EXCEPT ![g] = limit]
  /\ Goto(g, "configure")
  /\ UNCHANGED <<manager, lock, mem, packed, got, recovered, lost>>

\* The mutant takes any limit.
Accepted_Any(limit) == TRUE
Accepted(limit) == limit > 0

WithMaxTotalAllocations(g) ==
  /\ pc[g] = "configure"
  /\ Unlock(g)
  /\ maxTotalAllocations' =
       IF Accepted(arg[g]) THEN arg[g] ELSE maxTotalAllocations
  /\ Leave(g, "idle")
  /\ UNCHANGED <<ptrs, totalAllocated, mem, recovered>>

(* The garbage collector runs, and the runtime reuses the unpinned bytes   *)
(* for objects of its own.                                                 *)
RuntimeReuses ==
  /\ \E a \in Address \ Pinned : mem[a] # Foreign
  /\ mem' = [a \in Address |-> IF a \in Pinned THEN mem[a] ELSE Foreign]
  /\ UNCHANGED <<manager, lock, pc, arg, packed, got, recovered, lost>>

\* What a goroutine does on its own once it is inside a call.
Finish(g) ==
  \/ Allocate(g) \/ AllocatePanics(g) \/ CopyToMemory(g)
  \/ Deallocate(g) \/ FreeAllTracked(g) \/ WithMaxTotalAllocations(g)

Next ==
  \/ \E g \in Goroutines :
       \/ \E n \in 0..MaxPayload : PtrFromBytes(g, n)
       \/ \E limit \in Limits : Configure(g, limit)
       \/ Lock(g) \/ Finish(g)
       \/ BytesFromPtr(g) \/ DeallocatePacked(g) \/ PluginPanics(g)
  \/ RuntimeReuses

Spec == Init /\ [][Next]_vars

(* A goroutine inside a call keeps running, and Go's mutex, which hands    *)
(* the lock to a waiter it has starved for 1 ms, lets every waiter in.     *)
Fairness == \A g \in Goroutines : WF_vars(Finish(g)) /\ SF_vars(Lock(g))

FairSpec == Spec /\ Fairness

-----------------------------------------------------------------------------
(* Every variable has its type: pinned buffers start in linear memory, and *)
(* no counter of the manager goes negative.                                *)
ManagerTypeOK ==
  /\ DOMAIN ptrs \subseteq Address
  /\ \A p \in DOMAIN ptrs : ptrs[p] \in 1..MaxPayload
  /\ totalAllocated \in Nat
  /\ maxTotalAllocations \in Nat \ {0}
  /\ lock \in Goroutines \cup {NoGoroutine}
  /\ mem \in [Address -> Goroutines \cup {Foreign}]

LocalTypeOK ==
  /\ pc \in [Goroutines -> Labels]
  /\ arg \in [Goroutines -> Int]
  /\ packed \in [Goroutines -> Nat]
  /\ got \in [Goroutines -> SUBSET (Goroutines \cup {Foreign})]
  /\ recovered \in BOOLEAN
  /\ lost \in [Goroutines -> BOOLEAN]

TypeOK == ManagerTypeOK /\ LocalTypeOK

\* Two pinned buffers share no byte, and each lies in linear memory.
NoOverlap ==
  /\ \A p \in DOMAIN ptrs : Extent(p, ptrs[p]) \subseteq Address
  /\ \A p, q \in DOMAIN ptrs :
       p # q => Extent(p, ptrs[p]) \cap Extent(q, ptrs[q]) = {}

(* The counter allocate checks against the limit, and Stats reports, is    *)
(* the number of bytes that are really pinned, whatever mix of allocate,   *)
(* deallocate (of stale pointers too), recovery and Configure has run: the *)
(* clamp in deallocate never hides an error.                               *)
Accounting == totalAllocated = Cardinality(Pinned)

(* No step pins more bytes than the limit in force: allocate panics        *)
(* instead ("panics if allocation would exceed the configured limit").     *)
PinnedWithinLimit ==
  [][Cardinality(Pinned') > Cardinality(Pinned)
       => Cardinality(Pinned') <= maxTotalAllocations]_vars

(* The packed value of a goroutine that holds one denotes a region of      *)
(* linear memory of its payload's length, stale or not: no read or copy    *)
(* through it leaves linear memory, and only an empty payload packs to 0.  *)
LocalsOK ==
  \A g \in Goroutines :
    /\ pc[g] = "allocate" => arg[g] \in 1..MaxPayload
    /\ pc[g] \in {"copy", "deallocate"} => arg[g] > 0
    /\ pc[g] \in Holding /\ arg[g] > 0 =>
         /\ arg[g] <= MaxPayload
         /\ \E p \in Address : /\ packed[g] = PackPtrLen(p, arg[g])
                               /\ Extent(p, arg[g]) \subseteq Address
    /\ pc[g] \in Holding /\ ~(arg[g] > 0) => arg[g] = 0 /\ packed[g] = 0
    /\ pc[g] \notin Holding => packed[g] = 0

\* g holds a buffer PtrFromBytes returned, or allocate did, and has not freed it.
Holds(g) == pc[g] \in Holding /\ arg[g] > 0

\* g's packed value denotes a pinned buffer of its payload's length, and
\* the bytes are its own once copied.
Intact(g) ==
  LET ptr == UnpackPtr(packed[g])
  IN /\ ptr \in DOMAIN ptrs /\ ptrs[ptr] = arg[g]
     /\ UnpackLen(packed[g]) = arg[g]
     /\ pc[g] # "copy" => \A a \in Extent(ptr, arg[g]) : mem[a] = g

(* Until a panic is recovered, the buffer a goroutine holds stays pinned   *)
(* and keeps its bytes, however the calls of the others interleave with    *)
(* the unlocked copy.                                                      *)
IntactUntilRecovery == ~recovered => \A g \in Goroutines : Holds(g) => Intact(g)

(* TestConcurrency: BytesFromPtr returns what the same goroutine gave to   *)
(* PtrFromBytes, none for an empty payload, until a panic is recovered.    *)
RoundTrip ==
  ~recovered =>
    \A g \in Goroutines :
      pc[g] = "read" => got[g] = IF arg[g] > 0 THEN {g} ELSE {}

(* abi.go:75-76 says a buffer is pinned "until explicitly freed or during  *)
(* panic recovery": one its holder has not freed, with no recovery since   *)
(* it was allocated, is intact.                                            *)
PinnedSinceAllocation ==
  \A g \in Goroutines : Holds(g) /\ ~lost[g] => Intact(g)

\* The payloads the goroutines hold, and what they have read, as far as the
\* manager answers for them: no recovery has run.
Stored == [g \in Goroutines |-> IF ~recovered /\ pc[g] \in Holding THEN arg[g] ELSE 0]
Seen == [g \in Goroutines |-> IF recovered THEN {} ELSE got[g]]

(* What the manager implements: an allocation puts the whole payload into  *)
(* the store, although its bytes are copied later and outside the mutex.   *)
Buffers == INSTANCE PrivateBuffers WITH
  Clients <- Goroutines,
  Sizes <- 1..MaxPayload,
  StoreLimits <- {DefaultMaxTotalAllocations} \cup {l \in Limits : l > 0},
  stored <- Stored,
  seen <- Seen,
  used <- totalAllocated,
  limit <- maxTotalAllocations,
  failed <- {g \in Goroutines : pc[g] = "recover"},
  cleared <- recovered

(* Addresses, the mutex, the unlocked copy and the interleaving of the     *)
(* calls add nothing a caller can see: until a panic is recovered, every   *)
(* step of the manager is a step of a store of private buffers, and after  *)
(* it the limit still holds.                                               *)
ImplementsBuffers == Buffers!StoreSpec

(* Every call of the manager returns, also after a panic inside the mutex: *)
(* the deferred Unlock of allocate lets the recovery's FreeAllTracked in.  *)
CallsReturn ==
  \A g \in Goroutines : pc[g] \in Critical ~> pc[g] \in {"idle", "held"}
=============================================================================
