----------------------------- MODULE ErrorChains -----------------------------
(***************************************************************************)
(* What the host is told of a Go error: ToErrorDetail of domain/errors and *)
(* the error types it knows.  An error is a chain of layers, the outermost *)
(* first, each wrapping the next; the code that passes it on wraps it once *)
(* more, and at any point it may be the one that is reported.              *)
(*                                                                         *)
(* Of a detail only its type, whether it is marked a timeout and the layer *)
(* it speaks of (1 is the root cause) are kept; messages and codes are not.*)
(***************************************************************************)
EXTENDS Integers, Sequences

CONSTANT MaxDepth   \* bounds the layers of an error

ASSUME DepthAssumption == MaxDepth \in Nat \ {0}

\* Types that hold an Err and unwrap to it; "fmt" is fmt.Errorf with %w.
Wrappers == {"network", "config", "exec", "dns", "http", "tcp", "schema",
             "wire", "fmt"}

\* Where a chain starts: "entity" is an *ErrorDetail, "deadline" is
\* context.DeadlineExceeded and "plain" any other error of a library; an
\* ExecError may have no Err.
Causes == {"entity", "timeout", "capability", "memory", "exec", "deadline",
           "plain"}

VARIABLES
  chain,    \* the layers of the error, the outermost first
  detail    \* what ToErrorDetail makes of it

chainVars == <<chain, detail>>

-----------------------------------------------------------------------------
\* The Timeout methods: those of dns, http and tcp ask the error they wrap,
\* if it has such a method, and no further.
AsksItsErr == {"dns", "http", "tcp"}

\* The mutant looks through the wraps that have no such method.
Timeout_ThroughWraps(layers) == layers[Len(layers)] \in {"timeout", "deadline"}
Timeout(layers) ==
  \E i \in DOMAIN layers :
    /\ layers[i] \in {"timeout", "deadline"}
    /\ \A j \in 1..(i - 1) : layers[j] \in AsksItsErr

\* The Type of a layer's own ToErrorDetail; the mutant uses the Go type's name.
PlainType_GoName(layer) == layer
PlainType(layer) ==
  CASE layer \in AsksItsErr -> "network"
    [] layer = "schema" -> "validation"
    [] layer \in {"memory", "wire"} -> "internal"
    [] OTHER -> layer

DetailOf(layers) ==
  LET timesOut == layers[1] \in AsksItsErr \cup {"timeout"} /\ Timeout(layers)
  IN  [type |-> IF timesOut THEN "timeout" ELSE PlainType(layers[1]),
       isTimeout |-> timesOut, layer |-> Len(layers)]

\* errors.As: the outermost layer in a set, or 0.
First(layers, set) ==
  LET matching == {i \in DOMAIN layers : layers[i] \in set}
  IN  IF matching = {} THEN 0 ELSE CHOOSE i \in matching : \A j \in matching : i <= j

From(layers, i) == SubSeq(layers, i, Len(layers))

Detailed == (Wrappers \ {"fmt"}) \cup {"timeout", "capability", "memory"}

Unknown(layers) ==
  [type |-> "internal", isTimeout |-> FALSE, layer |-> Len(layers)]

\* The mutants look only at the outermost error, and for an *ErrorDetail last.
ToErrorDetail_Outermost(layers) ==
  IF layers[1] \in Detailed THEN DetailOf(layers) ELSE Unknown(layers)
ToErrorDetail_EntityLast(layers) ==
  IF First(layers, Detailed \cup {"entity"}) = 0 THEN Unknown(layers)
  ELSE DetailOf(From(layers, First(layers, Detailed \cup {"entity"})))
ToErrorDetail(layers) ==
  IF First(layers, {"entity"}) # 0
  THEN [type |-> "entity", isTimeout |-> FALSE,
        layer |-> Len(layers) - First(layers, {"entity"}) + 1]
  ELSE IF First(layers, Detailed) # 0
  THEN DetailOf(From(layers, First(layers, Detailed)))
  ELSE Unknown(layers)

-----------------------------------------------------------------------------
ChainInit == \E cause \in Causes : chain = <<cause>> /\ detail = ToErrorDetail(chain)

(* The error is passed on in another one, of the SDK or of fmt.Errorf.     *)
Wrap(layer) ==
  /\ Len(chain) < MaxDepth
  /\ chain' = <<layer>> \o chain
  /\ detail' = ToErrorDetail(chain')

ChainNext == \E layer \in Wrappers : Wrap(layer)

ChainSpec == ChainInit /\ [][ChainNext]_chainVars

-----------------------------------------------------------------------------
Types == {"network", "timeout", "capability", "config", "exec", "validation",
          "internal", "entity"}

(* Every variable has its type; "entity" is the type a given detail has.   *)
ChainTypeOK ==
  /\ chain \in Seq(Wrappers \cup Causes) /\ Len(chain) \in 1..MaxDepth
  /\ detail \in [type : Types, isTimeout : BOOLEAN, layer : 1..MaxDepth]

(* An *ErrorDetail, such as the one the DNS adapter returns for the host's *)
(* own error, survives: whatever wraps it, it is reported.                 *)
EntitySurvives == [][detail.type = "entity" => detail' = detail]_chainVars

(* Passing an error on with fmt.Errorf and %w, as the adapters and the     *)
(* config parser do, never changes what it is reported as; of one without  *)
(* a known type anywhere in it the new message is reported, as "internal". *)
WrapKeepsDetail ==
  [][chain'[1] = "fmt" =>
       IF \E i \in DOMAIN chain : chain[i] \in Detailed \cup {"entity"}
       THEN detail' = detail
       ELSE detail' = [type |-> "internal", isTimeout |-> FALSE,
                       layer |-> Len(chain')]]_chainVars

(* A timeout is reported only if the layer reported is a timeout, or is    *)
(* one of a lookup, request or connection whose own cause is one, with     *)
(* nothing else between: and then always.                                  *)
TimeoutsAreReal ==
  LET reported == From(chain, Len(chain) - detail.layer + 1)
      last == Len(reported)
  IN  /\ detail.isTimeout <=> detail.type = "timeout"
      /\ detail.isTimeout <=>
           /\ reported[last] \in {"timeout", "deadline"}
           /\ \A i \in 1..(last - 1) : reported[i] \in AsksItsErr
           /\ reported # <<"deadline">>
=============================================================================
