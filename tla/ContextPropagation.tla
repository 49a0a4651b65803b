------------------------- MODULE ContextPropagation -------------------------
(***************************************************************************)
(* A context that crosses the host boundary again and again                *)
(* (internal/wasmcontext/wasmcontext.go): its holder derives from it,      *)
(* ContextToWire turns it into a ContextWire, and WireToContext makes a    *)
(* context of that on the other side, under a parent of the receiver's     *)
(* own, while the clock runs.  The first wire may be one the host made     *)
(* itself, with a timeout and no deadline.                                 *)
(*                                                                         *)
(* A context is its deadline, whether it is done, and its request id.      *)
(* Time is counted in ticks finer than a millisecond; a deadline of        *)
(* NoDeadline is none.  What Go's context package does is external.        *)
(***************************************************************************)
EXTENDS Integers

CONSTANTS
  Horizon,          \* bound on the clock
  TicksPerMs,       \* ticks in a millisecond
  RequestIDs,       \* request ids
  NoID              \* the empty request id

NoDeadline == Horizon + 1

Deadlines == 0 .. NoDeadline

ASSUME TimeAssumption ==
  Horizon \in Nat /\ TicksPerMs \in Nat \ {0} /\ NoID \notin RequestIDs

IDs == RequestIDs \cup {NoID}

VARIABLES
  now,       \* the clock
  ctx,       \* the context of the current holder
  wire,      \* the ContextWire being built or in flight
  pc,        \* "held", "deadline" read, or "sent"
  bound,     \* history: the earliest deadline put on the chain of contexts
  wasDone,   \* history: the sender's context was done when it was checked
  readAt     \* history: when the sender read its deadline, or ByHost

vars == <<now, ctx, wire, pc, bound, wasDone, readAt>>

Context == [deadline : Deadlines, done : BOOLEAN, id : IDs]

Wire == [deadline : Deadlines, timeoutMs : 0..Horizon, canceled : BOOLEAN, id : IDs]

Background == [deadline |-> NoDeadline, done |-> FALSE, id |-> NoID]

\* The host made the wire, from no deadline of ours.
ByHost == -1

NoWire == [deadline |-> NoDeadline, timeoutMs |-> 0, canceled |-> FALSE, id |-> NoID]

Earlier(a, b) == IF a <= b THEN a ELSE b

(* context.WithDeadline: the earlier of the two deadlines, and done at     *)
(* once when it has passed.                                                *)
WithDeadline(c, deadline) ==
  [c EXCEPT !.deadline = Earlier(c.deadline, deadline),
            !.done = c.done \/ deadline <= now]

\* The wires of a context that the host gives a timeout of its own.
HostWires(c) ==
  [deadline : {NoDeadline}, timeoutMs : 1..Horizon, canceled : {c.done}, id : {c.id}]

Init ==
  /\ now = 0 /\ bound = NoDeadline
  /\ \/ ctx = Background /\ wire = NoWire /\ pc = "held" /\ readAt = 0
     \/ /\ ctx \in [deadline : {NoDeadline}, done : BOOLEAN, id : IDs]
        /\ wire \in HostWires(ctx) /\ pc = "sent" /\ readAt = ByHost
  /\ wasDone = ctx.done

-----------------------------------------------------------------------------
Tick ==
  /\ now < Horizon
  /\ now' = now + 1
  /\ UNCHANGED <<ctx, wire, pc, bound, wasDone, readAt>>

(* The timer of a deadline fires some time after the deadline. *)
TimerFires ==
  /\ ~ctx.done /\ ctx.deadline <= now
  /\ ctx' = [ctx EXCEPT !.done = TRUE]
  /\ UNCHANGED <<now, wire, pc, bound, wasDone, readAt>>

(* The holder derives a context with a deadline or a request id, or        *)
(* cancels the one it has.                                                 *)
Derive(deadline) ==
  /\ pc = "held"
  /\ ctx' = WithDeadline(ctx, deadline)
  /\ bound' = Earlier(bound, deadline)
  /\ UNCHANGED <<now, wire, pc, wasDone, readAt>>

Cancel ==
  /\ ~ctx.done
  /\ ctx' = [ctx EXCEPT !.done = TRUE]
  /\ UNCHANGED <<now, wire, pc, bound, wasDone, readAt>>

SetRequestID(id) ==
  /\ pc = "held" /\ ctx.id # id
  /\ ctx' = [ctx EXCEPT !.id = id]
  /\ UNCHANGED <<now, wire, pc, bound, wasDone, readAt>>

\* The TimeoutMs of a deadline: whole milliseconds left, none if it has
\* passed.  The mutants round up, or do not look whether it has passed.
TimeoutMs_RoundedUp(deadline) ==
  IF deadline = NoDeadline \/ deadline <= now THEN 0
  ELSE (deadline - now + TicksPerMs - 1) \div TicksPerMs
TimeoutMs_Negative(deadline) ==
  IF deadline = NoDeadline THEN 0 ELSE (deadline - now) \div TicksPerMs
TimeoutMs(deadline) ==
  IF deadline = NoDeadline \/ deadline <= now THEN 0
  ELSE (deadline - now) \div TicksPerMs

(* ContextToWire reads the deadline first, then whether the context is     *)
(* done, and time passes in between.                                       *)
ReadDeadline ==
  /\ pc = "held"
  /\ wire' = [NoWire EXCEPT !.deadline = ctx.deadline,
                            !.timeoutMs = TimeoutMs(ctx.deadline)]
  /\ pc' = "deadline" /\ readAt' = now
  /\ UNCHANGED <<now, ctx, bound, wasDone>>

ReadDone ==
  /\ pc = "deadline"
  /\ wire' = [wire EXCEPT !.canceled = ctx.done, !.id = ctx.id]
  /\ pc' = "sent" /\ wasDone' = ctx.done
  /\ UNCHANGED <<now, ctx, bound, readAt>>

\* Mutant: the timeout of a wire only, which a deadline that has passed on
\* the way, or is less than a millisecond away, no longer has.
Applied_TimeoutOnly(w) ==
  IF w.timeoutMs > 0 THEN Earlier(now + w.timeoutMs * TicksPerMs, NoDeadline)
  ELSE NoDeadline

\* Which deadline WireToContext applies: the wire's, else its timeout from
\* now on.  The mutant prefers the timeout.
Applied_TimeoutFirst(w) ==
  IF w.timeoutMs > 0 THEN Earlier(now + w.timeoutMs * TicksPerMs, NoDeadline)
  ELSE w.deadline
Applied(w) ==
  IF w.deadline # NoDeadline THEN w.deadline
  ELSE IF w.timeoutMs > 0 THEN Earlier(now + w.timeoutMs * TicksPerMs, NoDeadline)
  ELSE NoDeadline

\* WireToContext under a parent; the mutants ignore Canceled, or drop an id.
WireToContext_NotCanceled(parent, w) ==
  [WithDeadline(parent, Applied(w)) EXCEPT !.id = IF w.id # NoID THEN w.id ELSE @]
WireToContext_NoID(parent, w) ==
  [WithDeadline(parent, Applied(w)) EXCEPT !.done = @ \/ w.canceled]
WireToContext(parent, w) ==
  [WithDeadline(parent, Applied(w)) EXCEPT
     !.done = @ \/ w.canceled, !.id = IF w.id # NoID THEN w.id ELSE @]

\* When the timeout of a wire the host made ends: it counts from now on.
HostsDeadline ==
  IF readAt = ByHost THEN Earlier(now + wire.timeoutMs * TicksPerMs, NoDeadline)
  ELSE NoDeadline

(* The receiver's parent is the background (also when nil), or a context   *)
(* of its own with a deadline and a request id.                            *)
Receive(parent) ==
  /\ pc = "sent"
  /\ ctx' = WireToContext(parent, wire)
  /\ bound' = Earlier(Earlier(bound, HostsDeadline), parent.deadline)
  /\ pc' = "held" /\ wire' = NoWire
  /\ UNCHANGED <<now, wasDone, readAt>>

Parents ==
  {Background} \cup [deadline : 0..Horizon, done : {FALSE}, id : IDs]

Next ==
  \/ Tick \/ TimerFires \/ Cancel
  \/ \E deadline \in 0..Horizon : Derive(deadline)
  \/ \E id \in RequestIDs : SetRequestID(id)
  \/ ReadDeadline \/ ReadDone
  \/ \E parent \in Parents : (parent.deadline > now) /\ Receive(parent)

Spec == Init /\ [][Next]_vars

(* Time goes on until the last deadline there can be, and a timer that is  *)
(* due fires; nobody has to cancel, to send or to receive anything.        *)
FairSpec == Spec /\ WF_vars(Tick) /\ WF_vars(TimerFires)

-----------------------------------------------------------------------------
(* Every variable has its type.                                            *)
TypeOK ==
  /\ now \in 0..Horizon
  /\ ctx \in Context /\ wire \in Wire
  /\ pc \in {"held", "deadline", "sent"}
  /\ bound \in Deadlines /\ wasDone \in BOOLEAN /\ readAt \in ByHost..Horizon

(* However often a context crosses the boundary and however long it is     *)
(* under way, its deadline is the earliest ever put on it: no crossing     *)
(* extends it (by counting the timeout from its arrival) or shortens it,   *)
(* and the timeout the host gave a wire of its own is one.                 *)
DeadlineKept ==
  /\ pc = "held" => ctx.deadline = bound
  /\ pc # "held" => wire.deadline = bound

(* The TimeoutMs the host may use instead of the deadline, counted from    *)
(* the reading, ends no later than the deadline and less than a millisecond*)
(* before it; it says that there is none, which then the deadline beside it*)
(* denies, only in the last millisecond before the deadline or after it.   *)
TimeoutWithinDeadline ==
  pc # "held" /\ readAt # ByHost =>
    IF wire.deadline = NoDeadline THEN wire.timeoutMs = 0
    ELSE /\ wire.timeoutMs > 0 => readAt + wire.timeoutMs * TicksPerMs <= wire.deadline
         /\ wire.deadline < readAt + (wire.timeoutMs + 1) * TicksPerMs

(* A context that was done, or whose deadline has passed on the way, comes *)
(* out done, also when the sender's timer had not fired yet.               *)
DoneStaysDone ==
  [][pc = "sent" /\ pc' = "held" =>
       (wasDone \/ wire.deadline <= now => ctx'.done)]_vars

(* A request id survives the crossing, in preference to the parent's.      *)
RequestIDKept == [][pc = "sent" /\ pc' = "held" /\ ctx.id # NoID => ctx'.id = ctx.id]_vars

(* Whatever is cancelled, lost on the way or sent again: once a deadline   *)
(* has been put on a context, every holder from some time on has one that  *)
(* is done.  A cancellation after the conversion does not reach the other  *)
(* side; what ends the work there is the deadline that crossed with it.    *)
DeadlineEndsForGood == bound # NoDeadline ~> [](ctx.done)
=============================================================================
