---------------------- MODULE ContextPropagationProofs ----------------------
(***************************************************************************)
(* Theorems about ContextPropagation, for every horizon, tick length and   *)
(* set of request ids.                                                     *)
(***************************************************************************)
EXTENDS ContextPropagation, TLAPS

\* Whole units of a span take no longer than it, and one more does.
LEMMA DivTimes ==
  ASSUME NEW x \in Nat, NEW d \in Nat \ {0}
  PROVE  x \div d \in 0..x /\ (x \div d) * d <= x /\ x < (x \div d + 1) * d
<1>1. x \div d \in Int OBVIOUS
<1>2. x = d * (x \div d) + (x % d) /\ x % d \in 0..(d - 1) OBVIOUS
<1>3. (x \div d) * d = d * (x \div d) BY <1>1
<1>4. (x \div d) * d <= x BY <1>1, <1>2, <1>3
<1>5. x \div d >= 0 BY <1>1, <1>2
<1>6. x \div d <= d * (x \div d) BY <1>1, <1>5
<1>7. (x \div d + 1) * d = d * (x \div d) + d BY <1>1
<1>8. x < (x \div d + 1) * d BY <1>1, <1>2, <1>7
<1> QED BY <1>1, <1>3, <1>4, <1>5, <1>6, <1>8

\* The milliseconds left: as many as fit before the deadline.
Fits(deadline, timeoutMs) ==
  IF deadline = NoDeadline THEN timeoutMs = 0
  ELSE /\ timeoutMs > 0 => now + timeoutMs * TicksPerMs <= deadline
       /\ deadline < now + (timeoutMs + 1) * TicksPerMs

\* TimeoutMs is that.
LEMMA TimeoutMsFits ==
  ASSUME NEW deadline \in Deadlines, now \in 0..Horizon
  PROVE  TimeoutMs(deadline) \in 0..Horizon /\ Fits(deadline, TimeoutMs(deadline))
<1>1. CASE deadline = NoDeadline \/ deadline <= now
  <2>1. TimeoutMs(deadline) = 0
    BY <1>1 DEF TimeoutMs
  <2>2. deadline # NoDeadline => deadline < now + (0 + 1) * TicksPerMs
    BY <1>1, TimeAssumption DEF Deadlines, NoDeadline
  <2> QED BY <2>1, <2>2, TimeAssumption DEF Fits
<1>2. CASE ~(deadline = NoDeadline \/ deadline <= now)
  <2> DEFINE left == deadline - now
             ms   == left \div TicksPerMs
  <2>1. left \in 0..Horizon
    BY <1>2, TimeAssumption DEF Deadlines, NoDeadline
  <2>2. ms \in 0..left /\ ms * TicksPerMs <= left /\ left < (ms + 1) * TicksPerMs
    BY <2>1, DivTimes, TimeAssumption
  <2>3. TimeoutMs(deadline) = ms
    BY <1>2 DEF TimeoutMs
  <2>4. ms * TicksPerMs \in Int /\ (ms + 1) * TicksPerMs \in Int
    BY <2>1, <2>2, TimeAssumption
  <2> HIDE DEF ms
  <2>5. now + ms * TicksPerMs <= deadline /\ deadline < now + (ms + 1) * TicksPerMs
    BY <2>1, <2>2, <2>4, TimeAssumption DEF Deadlines, NoDeadline
  <2>6. ms \in 0..Horizon
    BY <2>1, <2>2, TimeAssumption
  <2> QED BY <1>2, <2>3, <2>5, <2>6 DEF Fits
<1> QED BY <1>1, <1>2

\* WireToContext applies the deadline of a wire, or the timeout of one that
\* has no deadline.
LEMMA Applying ==
  ASSUME NEW w \in Wire, now \in 0..Horizon
  PROVE  /\ w.deadline # NoDeadline \/ w.timeoutMs = 0 => Applied(w) = w.deadline
         /\ w.deadline = NoDeadline /\ w.timeoutMs > 0 =>
              Applied(w) = Earlier(now + w.timeoutMs * TicksPerMs, NoDeadline)
BY TimeAssumption DEF Applied, Wire, Deadlines, NoDeadline

\* A time from now, or none, is a deadline.
LEMMA HostsIs ==
  ASSUME wire \in Wire, now \in 0..Horizon
  PROVE  HostsDeadline \in Deadlines
<1>1. wire.timeoutMs \in Nat
  BY TimeAssumption DEF Wire
<1>2. wire.timeoutMs * TicksPerMs \in Nat
  BY <1>1, TimeAssumption
<1> QED BY <1>2, TimeAssumption DEF HostsDeadline, Earlier, Deadlines, NoDeadline

\* Until a context is on its way, the wire is empty; from then on, it holds
\* a timeout only beside the deadline it was computed from, or the host made
\* it of nothing else, and once sent whether its sender was done, and its
\* sender's request id.
WireInv ==
  /\ pc = "held" => wire = NoWire
  /\ readAt # ByHost => (wire.deadline = NoDeadline => wire.timeoutMs = 0)
  /\ readAt = ByHost /\ pc # "held" => wire.deadline = NoDeadline /\ wire.timeoutMs > 0
  /\ pc = "sent" => wire.canceled = wasDone /\ wire.id = ctx.id

IInv == TypeOK /\ WireInv /\ DeadlineKept /\ TimeoutWithinDeadline

\* A fresh context has no deadline, nor its wire, be it the host's.
LEMMA Initially == Init => IInv
<1> SUFFICES ASSUME Init PROVE IInv
  OBVIOUS
<1>1. NoDeadline \in Deadlines /\ 0 \in 0..Horizon /\ 1..Horizon \subseteq 0..Horizon
      /\ 0 \in ByHost..Horizon /\ ByHost \in ByHost..Horizon /\ 0 # ByHost
  BY TimeAssumption DEF Deadlines, NoDeadline, ByHost
<1>2. CASE ctx = Background /\ wire = NoWire /\ pc = "held" /\ readAt = 0
  <2>1. TypeOK
    BY <1>1, <1>2 DEF Init, TypeOK, Context, Wire, Background, NoWire, IDs
  <2>2. WireInv /\ DeadlineKept /\ TimeoutWithinDeadline
    BY <1>1, <1>2 DEF Init, WireInv, DeadlineKept, TimeoutWithinDeadline, Background, NoWire
  <2> QED BY <2>1, <2>2 DEF IInv
<1>3. CASE /\ ctx \in [deadline : {NoDeadline}, done : BOOLEAN, id : IDs]
           /\ wire \in HostWires(ctx) /\ pc = "sent" /\ readAt = ByHost
  <2>1. /\ ctx \in Context /\ ctx.done \in BOOLEAN /\ ctx.id \in IDs
        /\ wire.deadline = NoDeadline /\ wire.timeoutMs \in 1..Horizon
        /\ wire.canceled = ctx.done /\ wire.id = ctx.id
    BY <1>1, <1>3 DEF Context, HostWires
  <2>2. wire \in Wire
    BY <1>1, <1>3, <2>1 DEF Wire, HostWires
  <2>3. TypeOK
    BY <1>1, <1>3, <2>1, <2>2 DEF Init, TypeOK
  <2>4. WireInv /\ DeadlineKept /\ TimeoutWithinDeadline
    BY <1>1, <1>3, <2>1 DEF Init, WireInv, DeadlineKept, TimeoutWithinDeadline
  <2> QED BY <2>3, <2>4 DEF IInv
<1> QED BY <1>2, <1>3 DEF Init

\* What WithDeadline makes of a deadline.
LEMMA Derived ==
  ASSUME NEW c \in Context, NEW deadline \in Deadlines, now \in 0..Horizon
  PROVE  /\ WithDeadline(c, deadline) \in Context
         /\ WithDeadline(c, deadline).deadline = Earlier(c.deadline, deadline)
         /\ Earlier(c.deadline, deadline) \in Deadlines
BY TimeAssumption DEF WithDeadline, Context, Earlier, Deadlines, NoDeadline

\* Every step keeps the invariant.
LEMMA Inductive == IInv /\ [Next]_vars => IInv'
<1> SUFFICES ASSUME IInv, [Next]_vars PROVE IInv'
  OBVIOUS
<1> USE DEF IInv, TypeOK
<1>1. CASE UNCHANGED vars
  BY <1>1 DEF vars, WireInv, DeadlineKept, TimeoutWithinDeadline
<1>2. CASE Tick
  BY <1>2, TimeAssumption
  DEF Tick, WireInv, DeadlineKept, TimeoutWithinDeadline
<1>3. CASE TimerFires
  <2>1. ctx' \in Context /\ ctx'.deadline = ctx.deadline /\ ctx'.id = ctx.id
    BY <1>3 DEF TimerFires, Context
  <2> QED
    BY <1>3, <2>1 DEF TimerFires, WireInv, DeadlineKept, TimeoutWithinDeadline
<1>4. CASE Cancel
  <2>1. ctx' \in Context /\ ctx'.deadline = ctx.deadline /\ ctx'.id = ctx.id
    BY <1>4 DEF Cancel, Context
  <2> QED
    BY <1>4, <2>1 DEF Cancel, WireInv, DeadlineKept, TimeoutWithinDeadline
<1>5. ASSUME NEW deadline \in 0..Horizon, Derive(deadline) PROVE IInv'
  <2>1. deadline \in Deadlines
    BY TimeAssumption DEF Deadlines, NoDeadline
  <2>2. /\ ctx' \in Context /\ bound' \in Deadlines
        /\ ctx'.deadline = Earlier(ctx.deadline, deadline)
    BY <1>5, <2>1, Derived DEF Derive, DeadlineKept
  <2> QED
    BY <1>5, <2>2 DEF Derive, WireInv, DeadlineKept, TimeoutWithinDeadline
<1>6. ASSUME NEW id \in RequestIDs, SetRequestID(id) PROVE IInv'
  <2>1. ctx' \in Context /\ ctx'.deadline = ctx.deadline
    BY <1>6 DEF SetRequestID, Context, IDs
  <2> QED
    BY <1>6, <2>1
    DEF SetRequestID, WireInv, DeadlineKept, TimeoutWithinDeadline
<1>7. CASE ReadDeadline
  <2>1. ctx.deadline \in Deadlines
    BY DEF Context
  <2>2. /\ TimeoutMs(ctx.deadline) \in 0..Horizon /\ readAt' # ByHost
        /\ Fits(ctx.deadline, TimeoutMs(ctx.deadline)) /\ readAt' \in ByHost..Horizon
    BY <1>7, <2>1, TimeoutMsFits, TimeAssumption DEF ReadDeadline, ByHost
  <2>3. /\ wire' \in Wire
        /\ wire'.deadline = ctx.deadline
        /\ wire'.timeoutMs = TimeoutMs(ctx.deadline)
    BY <1>7, <2>1, <2>2 DEF ReadDeadline, Wire, NoWire, IDs
  <2>4. WireInv'
    BY <1>7, <2>2, <2>3 DEF ReadDeadline, WireInv, Fits
  <2>5. DeadlineKept'
    BY <1>7, <2>3 DEF ReadDeadline, DeadlineKept
  <2>6. TimeoutWithinDeadline'
    BY <1>7, <2>2, <2>3 DEF ReadDeadline, TimeoutWithinDeadline, Fits
  <2> QED BY <1>7, <2>2, <2>3, <2>4, <2>5, <2>6 DEF ReadDeadline
<1>8. CASE ReadDone
  <2>1. /\ wire' \in Wire /\ wire'.deadline = wire.deadline
        /\ wire'.timeoutMs = wire.timeoutMs
        /\ wasDone' \in BOOLEAN /\ wire'.canceled = wasDone'
        /\ wire'.id = ctx.id
    BY <1>8 DEF ReadDone, Wire, Context
  <2>2. TypeOK'
    BY <1>8, <2>1 DEF ReadDone
  <2>3. WireInv' /\ DeadlineKept' /\ TimeoutWithinDeadline'
    BY <1>8, <2>1 DEF ReadDone, WireInv, DeadlineKept, TimeoutWithinDeadline
  <2> QED BY <2>2, <2>3
<1>9. ASSUME NEW parent \in Parents, Receive(parent) PROVE IInv'
  <2>1. parent \in Context
    <3>1. 0..Horizon \subseteq Deadlines /\ NoDeadline \in Deadlines
      BY TimeAssumption DEF Deadlines, NoDeadline
    <3>2. Background \in Context
      BY <3>1 DEF Background, Context, IDs
    <3>3. CASE parent \in [deadline : 0..Horizon, done : {FALSE}, id : IDs]
      BY <3>1, <3>3 DEF Context
    <3> QED BY <3>2, <3>3 DEF Parents
  <2> DEFINE kept == Earlier(bound, HostsDeadline)
  <2>2. Applied(wire) = kept /\ kept \in Deadlines
    <3>1. wire.deadline = bound /\ pc = "sent" /\ wire.timeoutMs \in Nat
      BY <1>9, TimeAssumption DEF Receive, DeadlineKept, Wire
    <3>2. CASE readAt = ByHost
      <4>1. bound = NoDeadline /\ Applied(wire) = HostsDeadline
        BY <3>1, <3>2, Applying DEF WireInv, HostsDeadline
      <4>2. HostsDeadline \in Deadlines
        BY HostsIs
      <4> QED BY <4>1, <4>2, TimeAssumption DEF Earlier, Deadlines, NoDeadline
    <3>3. CASE readAt # ByHost
      <4>1. Applied(wire) = bound
        BY <3>1, <3>3, Applying DEF WireInv
      <4>2. HostsDeadline = NoDeadline
        BY <3>3 DEF HostsDeadline
      <4> QED BY <4>1, <4>2, TimeAssumption DEF Earlier, Deadlines, NoDeadline
    <3> QED BY <3>2, <3>3
  <2> HIDE DEF kept
  <2>3. /\ WithDeadline(parent, kept) \in Context
        /\ WithDeadline(parent, kept).deadline = Earlier(parent.deadline, kept)
        /\ Earlier(parent.deadline, kept) \in Deadlines
    BY <2>1, <2>2, Derived
  <2>4. /\ ctx' \in Context
        /\ ctx'.deadline = Earlier(parent.deadline, kept)
    BY <1>9, <2>2, <2>3 DEF Receive, WireToContext, Context, Wire
  <2>5. Earlier(parent.deadline, kept) = Earlier(kept, parent.deadline)
    BY <2>1, <2>2, TimeAssumption DEF Earlier, Context, Deadlines, NoDeadline
  <2>6. bound' = Earlier(kept, parent.deadline)
    BY <1>9 DEF Receive, kept
  <2>7. NoWire \in Wire /\ NoWire.timeoutMs = 0
    BY TimeAssumption DEF NoWire, Wire, Deadlines, NoDeadline, IDs
  <2> QED
    BY <1>9, <2>3, <2>4, <2>5, <2>7, <2>6
    DEF Receive, WireInv, DeadlineKept, TimeoutWithinDeadline
<1> QED BY <1>1, <1>2, <1>3, <1>4, <1>5, <1>6, <1>7, <1>8, <1>9 DEF Next

\* The invariant has the properties in it.
LEMMA Implied == IInv => TypeOK /\ DeadlineKept /\ TimeoutWithinDeadline
BY DEF IInv

(* A context and its wire have their types on every crossing.              *)
THEOREM TypeCorrect == Spec => []TypeOK
BY Initially, Inductive, Implied, PTL DEF Spec

(* However often a context crosses the boundary (ContextToWire,            *)
(* WireToContext), its deadline is the earliest ever put on it, for every  *)
(* clock and tick.                                                         *)
THEOREM DeadlinesKept == Spec => []DeadlineKept
BY Initially, Inductive, Implied, PTL DEF Spec

(* A timeout computed by ContextToWire ends no later than the deadline and *)
(* less than a millisecond before it, and is none only where no whole one  *)
(* is left.                                                                *)
THEOREM TimeoutsFit == Spec => []TimeoutWithinDeadline
BY Initially, Inductive, Implied, PTL DEF Spec

(* A context that was done when ContextToWire looked, or whose deadline    *)
(* passed on the way, is done when WireToContext returns it.               *)
THEOREM DoneCrosses == Spec => DoneStaysDone
<1>1. ASSUME IInv, [Next]_vars
      PROVE  [pc = "sent" /\ pc' = "held" =>
                (wasDone \/ wire.deadline <= now => ctx'.done)]_vars
  <2> SUFFICES ASSUME pc = "sent", pc' = "held",
                      wasDone \/ wire.deadline <= now
               PROVE  ctx'.done
    OBVIOUS
  <2>1. PICK parent \in Parents : Receive(parent)
    BY <1>1 DEF Next, Tick, TimerFires, Cancel, Derive, SetRequestID,
      ReadDeadline, ReadDone, vars
  <2>2. wire.canceled = wasDone
        /\ (wire.deadline <= now => Applied(wire) = wire.deadline)
    BY <1>1, Applying, TimeAssumption DEF IInv, TypeOK, WireInv, NoDeadline
  <2>3. parent = [deadline |-> parent.deadline, done |-> parent.done,
                  id |-> parent.id]
    BY DEF Parents, Background
  <2>4. ctx' = WireToContext(parent, wire)
    BY <2>1 DEF Receive
  <2>5. WireToContext(parent, wire).done =
          (parent.done \/ Applied(wire) <= now \/ wire.canceled)
    BY <2>3 DEF WireToContext, WithDeadline
  <2> QED BY <2>2, <2>4, <2>5
<1> QED BY Initially, Inductive, <1>1, PTL DEF Spec, DoneStaysDone

(* The request id of a context is the one WireToContext gives the context  *)
(* on the other side, whatever id the receiver's parent has.               *)
THEOREM RequestIDsKept == Spec => RequestIDKept
<1>1. ASSUME IInv, [Next]_vars
      PROVE  [pc = "sent" /\ pc' = "held" /\ ctx.id # NoID => ctx'.id = ctx.id]_vars
  <2> SUFFICES ASSUME pc = "sent", pc' = "held", ctx.id # NoID
               PROVE  ctx'.id = ctx.id
    OBVIOUS
  <2>1. PICK parent \in Parents : Receive(parent)
    BY <1>1 DEF Next, Tick, TimerFires, Cancel, Derive, SetRequestID,
      ReadDeadline, ReadDone, vars
  <2>2. wire.id = ctx.id
    BY <1>1 DEF IInv, WireInv
  <2>3. parent = [deadline |-> parent.deadline, done |-> parent.done,
                  id |-> parent.id]
    BY DEF Parents, Background
  <2>4. WireToContext(parent, wire).id = wire.id
    BY <2>2, <2>3 DEF WireToContext, WithDeadline
  <2> QED BY <2>1, <2>2, <2>4 DEF Receive
<1> QED BY Initially, Inductive, <1>1, PTL DEF Spec, RequestIDKept
=============================================================================
