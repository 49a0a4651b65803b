--------------------------- MODULE PrivateBuffers ---------------------------
(***************************************************************************)
(* What internal/abi promises the code that uses it, with no address, no   *)
(* mutex and no copy: each client puts one payload at a time into a store  *)
(* with a byte limit, gets back its own bytes and nothing else, and takes  *)
(* it out again.  A client that fails (a panic) forgets its payload, and   *)
(* clears the whole store before it goes on (the recovery): that ends      *)
(* every promise but the limit.                                            *)
(***************************************************************************)
EXTENDS Integers

CONSTANTS
  Clients,       \* who stores payloads; a payload is its owner's bytes
  Sizes,         \* the lengths of the payloads that take space
  StoreLimits    \* the limits the store may be given

VARIABLES
  stored,   \* the length of each client's payload in the store, 0 for none
  seen,     \* whose bytes the client's last Get returned
  used,     \* the bytes that count against the limit
  limit,    \* the limit in force
  failed,   \* the clients that have failed and not cleared the store since
  cleared   \* the store has been cleared

store == <<stored, seen, used, limit, failed, cleared>>

Nothing == [c \in Clients |-> 0]
NoBytes == [c \in Clients |-> {}]

StoreInit ==
  /\ stored = Nothing /\ seen = NoBytes
  /\ used = 0 /\ limit \in StoreLimits
  /\ failed = {} /\ cleared = FALSE

(* A payload goes in whole, when it fits. *)
Put(c, n) ==
  /\ ~cleared /\ stored[c] = 0 /\ used + n <= limit
  /\ stored' = [stored EXCEPT ![c] = n]
  /\ used' = used + n
  /\ UNCHANGED <<seen, limit, failed, cleared>>

(* The client gets back its bytes, none when it stored none. *)
Get(c) ==
  /\ ~cleared
  /\ seen' = [seen EXCEPT ![c] = IF stored[c] = 0 THEN {} ELSE {c}]
  /\ UNCHANGED <<stored, used, limit, failed, cleared>>

\* The client drops what it got.
Drop(c) ==
  /\ seen' = [seen EXCEPT ![c] = {}]
  /\ UNCHANGED <<stored, used, limit, failed, cleared>>

(* The payload goes out, with the bytes it took. *)
TakeOut(c) ==
  /\ ~cleared
  /\ stored' = [stored EXCEPT ![c] = 0]
  /\ used' = used - stored[c]
  /\ UNCHANGED <<seen, limit, failed, cleared>>

(* A client fails, for want of space or by itself; its bytes stay counted.*)
Fail(c) ==
  /\ failed' = failed \cup {c}
  /\ stored' = [stored EXCEPT ![c] = 0]
  /\ seen' = [seen EXCEPT ![c] = {}]
  /\ UNCHANGED <<used, limit, cleared>>

(* Everything is discarded, the payloads of the others too. *)
Clear(c) ==
  /\ c \in failed /\ failed' = failed \ {c}
  /\ stored' = Nothing /\ seen' = NoBytes
  /\ used' = 0 /\ cleared' = TRUE
  /\ UNCHANGED limit

(* Once cleared, the count may move, but not up beyond the limit. *)
Recount(u) ==
  /\ cleared /\ u \in Nat
  /\ u <= used \/ u <= limit
  /\ used' = u
  /\ UNCHANGED <<stored, seen, limit, failed, cleared>>

SetLimit(l) ==
  /\ limit' = l
  /\ UNCHANGED <<stored, seen, used, failed, cleared>>

StoreNext ==
  \/ \E c \in Clients :
       \/ \E n \in Sizes : Put(c, n)
       \/ Get(c) \/ Drop(c) \/ TakeOut(c) \/ Fail(c) \/ Clear(c)
  \/ Recount(used')
  \/ \E l \in StoreLimits : SetLimit(l)

StoreSpec == StoreInit /\ [][StoreNext]_store
=============================================================================
