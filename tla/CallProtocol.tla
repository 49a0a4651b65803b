---------------------------- MODULE CallProtocol ----------------------------
(***************************************************************************)
(* What one exported call promises the host, with no memory, no adapter    *)
(* and no unwinding: a call that was asked is answered once, with the      *)
(* value the plugin made, with its failure, or with the report of a        *)
(* panic, whichever is the worst that happened - or the instance is dead   *)
(* and is replaced.                                                        *)
(***************************************************************************)

VARIABLES
  phase,  \* of the instance, as the host sees it
  asked,  \* the export called last
  worst,  \* the worst that has happened in that call
  told    \* what the host can read, or "nothing"

protocol == <<phase, asked, worst, told>>

Exports == {"manifest", "observe"}

Value(export) == IF export = "manifest" THEN "manifest" ELSE "evidence"

\* What may be answered; a manifest has no failure of its own.
Replies(export, outcome) ==
  CASE outcome = "fine"     -> {Value(export)}
    [] outcome = "erred"    -> IF export = "observe" THEN {"failure", "error"}
                               ELSE {"error"}
    [] outcome = "panicked" -> {"panic"}

ProtocolInit ==
  /\ phase = "ready" /\ asked \in Exports
  /\ worst = "fine" /\ told = "nothing"

Ask(export) ==
  /\ phase = "ready"
  /\ phase' = "called" /\ asked' = export /\ worst' = "fine"
  /\ UNCHANGED told

(* A panic may follow an error, in the report of it.                       *)
Worsen ==
  /\ phase = "called" /\ worst # "panicked"
  /\ worst' \in {"erred", "panicked"} \ {worst}
  /\ UNCHANGED <<phase, asked, told>>

Reply ==
  /\ phase = "called"
  /\ phase' = "answered" /\ told' \in Replies(asked, worst)
  /\ UNCHANGED <<asked, worst>>

Settle ==
  /\ phase = "answered"
  /\ phase' = "ready" /\ told' = "nothing"
  /\ UNCHANGED <<asked, worst>>

\* Also while the host prepares a call.
Die ==
  /\ phase \in {"ready", "called"}
  /\ phase' = "dead"
  /\ UNCHANGED <<asked, worst, told>>

Replace ==
  /\ phase = "dead"
  /\ phase' = "ready"
  /\ UNCHANGED <<asked, worst, told>>

ProtocolNext ==
  \/ \E export \in Exports : Ask(export)
  \/ Worsen \/ Reply \/ Settle \/ Die \/ Replace

(* No call is left without an answer. *)
Responsive == phase = "called" ~> phase \in {"answered", "dead"}

SafeProtocol == ProtocolInit /\ [][ProtocolNext]_protocol

ProtocolSpec == SafeProtocol /\ Responsive
=============================================================================
