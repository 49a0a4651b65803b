-------------------------- MODULE ExportedCallProofs --------------------------
(***************************************************************************)
(* Proofs about exported calls, for any number of slots, any limit of at   *)
(* least two buffers, any number of host calls and any policy of the host. *)
(***************************************************************************)
EXTENDS ExportedCall, FiniteSetTheorems, TLAPS

-----------------------------------------------------------------------------
(* Type correctness. *)

\* The guest runs while the host waits for it, and an adapter in it only
\* between its request and its response; a plugin that is not registered
\* makes no host call.
ControlOK ==
  /\ gpc # "idle" <=> hpc = "calling"
  /\ gpc \in {"host", "reply"} => adapter \in Adapters

TypeInv == TypeOK /\ ControlOK

(* A buffer that is pinned has a content, and the others keep theirs.      *)
LEMMA PinTypes ==
  ASSUME NEW s \in Slots, NEW content \in Contents,
         DOMAIN buffers \subseteq Slots, \A t \in DOMAIN buffers : buffers[t] \in Contents,
         PinAt(s, content)
  PROVE  /\ DOMAIN buffers' \subseteq Slots
         /\ \A t \in DOMAIN buffers' : buffers'[t] \in Contents
BY DEF PinAt

(* Freeing leaves the contents of the buffers that stay.                   *)
LEMMA WithoutTypes ==
  ASSUME NEW freed
  PROVE  /\ DOMAIN Without(freed) = DOMAIN buffers \ freed
         /\ \A t \in DOMAIN buffers \ freed : Without(freed)[t] = buffers[t]
BY DEF Without, Restrict

(* The messages of a fresh instance.                                       *)
LEMMA FreshTypes ==
  ASSUME NEW memory \in FreshMemory
  PROVE  /\ DOMAIN memory \subseteq Slots
         /\ \A t \in DOMAIN memory : memory[t] = Content("request", "log")
         /\ Content("request", "log") \in Contents
         /\ "request" \in frees => DOMAIN memory = {}
<1>1. PICK messages \in SUBSET Slots :
        /\ Cardinality(messages) = IF "request" \in frees THEN 0
                                   ELSE IF registered THEN 2 ELSE 1
        /\ memory = [t \in messages |-> Content("request", "log")]
  BY DEF FreshMemory
<1>2. Content("request", "log") \in Contents
  BY DEF Contents, Adapters
<1>3. ASSUME "request" \in frees PROVE messages = {}
  <2>1. IsFiniteSet(messages)
    BY ConstantsAssumption, FS_Subset
  <2> QED BY <1>1, <1>3, <2>1, FS_EmptySet
<1> QED BY <1>1, <1>2, <1>3

\* A fresh instance is well typed.
LEMMA TypeInit == Init => TypeInv
<1> SUFFICES ASSUME Init PROVE TypeInv
  OBVIOUS
<1>1. DOMAIN buffers \subseteq Slots /\ \A s \in DOMAIN buffers : buffers[s] \in Contents
  BY FreshTypes DEF Init
<1>2. hostCalls \in 0..MaxHostCalls
  BY ConstantsAssumption DEF Init
<1>3. erred \in BOOLEAN /\ panicked \in BOOLEAN /\ registered \in BOOLEAN
  BY DEF Init
<1>4. TypeOK
  BY <1>1, <1>2, <1>3 DEF Init, TypeOK, Answers
<1>5. ControlOK
  BY DEF Init, ControlOK
<1> QED BY <1>4, <1>5 DEF TypeInv

\* The parts of TypeOK that speak of the buffers.
BuffersOK ==
  /\ DOMAIN buffers \subseteq Slots
  /\ \A s \in DOMAIN buffers : buffers[s] \in Contents

(* A step pins what it names, frees, starts afresh or leaves the buffers   *)
(* as they are.                                                            *)
LEMMA BuffersStep ==
  ASSUME TypeInv, [Next]_vars
  PROVE  BuffersOK'
<1> USE DEF TypeInv, TypeOK, BuffersOK, FreeSlots
<1>1. CASE AllocateConfig
  <2>1. Content("config", "observe") \in Contents
    BY DEF Contents
  <2> QED BY <1>1, <2>1, PinTypes DEF AllocateConfig
<1>2. ASSUME NEW name \in Calls, StartCall(name) PROVE BuffersOK'
  BY <1>2 DEF StartCall
<1>3. CASE ReadResult
  BY <1>3 DEF ReadResult
<1>4. CASE FreeResult
  BY ZenonT(60), <1>4, WithoutTypes DEF FreeResult
<1>5. CASE Reinstantiate
  BY <1>5, FreshTypes DEF Reinstantiate, setting
<1>6. CASE HostReplies
  <2> DEFINE kept == IF "request" \in frees THEN Without({request}) ELSE buffers
  <2>1. /\ DOMAIN kept \subseteq Slots
        /\ \A t \in DOMAIN kept : kept[t] \in Contents
    BY ZenonT(60), WithoutTypes
  <2>2. CASE buffers' = kept
    BY <2>1, <2>2
  <2>3. CASE /\ adapter # "log" /\ adapter \in Adapters
             /\ \E s \in Slots \ DOMAIN kept :
                  buffers' = [t \in DOMAIN kept \cup {s} |->
                                IF t = s THEN Content("response", adapter)
                                ELSE kept[t]]
    <3>1. Content("response", adapter) \in Contents
      BY <2>3 DEF Contents
    <3> QED BY SMTT(60), <2>1, <2>3, <3>1
  <2> QED BY <1>6, <2>2, <2>3 DEF HostReplies, ControlOK
<1>7. CASE HostReplyTraps
  BY <1>7 DEF HostReplyTraps, Trap
<1>8. ASSUME NEW a \in Adapters, SendRequest(a) PROVE BuffersOK'
  <2>1. Content("request", a) \in Contents
    BY DEF Contents
  <2> QED BY <1>8, <2>1, PinTypes DEF SendRequest
<1>9. ASSUME NEW a \in Adapters, AdapterReturns(a) PROVE BuffersOK'
  BY ZenonT(60), <1>9, WithoutTypes DEF AdapterReturns
<1>10. ASSUME NEW a \in Adapters, AdapterPanics(a) PROVE BuffersOK'
  BY <1>10, WithoutTypes DEF AdapterPanics
<1>11. CASE ReportError \/ ReportPanic
  <2>1. Content("request", "log") \in Contents
    BY DEF Contents, Adapters
  <2> QED BY <1>11, <2>1, PinTypes DEF ReportError, ReportPanic, LogError
<1>12. CASE ReturnResult
  <2>1. Content("result", answer) \in Contents
    BY DEF Contents
  <2> QED BY <1>12, <2>1, PinTypes DEF ReturnResult
<1>13. CASE FreeAllTracked
  BY <1>13 DEF FreeAllTracked, AfterFreeAll
<1>14. CASE \/ NotRegistered \/ EnterPlugin \/ PluginReturnsValue
            \/ PluginReturnsNilOrPanics \/ PluginReturnsError
            \/ ReturnPanics \/ RecoveryTraps \/ UNCHANGED vars
  BY <1>14 DEF NotRegistered, EnterPlugin, PluginReturnsValue, PluginReturnsError,
       PluginReturnsNilOrPanics, ReturnPanics, RecoveryTraps, Trap, vars
<1> QED
  BY <1>1, <1>2, <1>3, <1>4, <1>5, <1>6, <1>7, <1>8, <1>9, <1>10, <1>11, <1>12,
     <1>13, <1>14 DEF Next, Guest, HostFunction

(* The history and what Register has done stay Boolean.                    *)
LEMMA BooleansStep ==
  ASSUME TypeInv, [Next]_vars
  PROVE  erred' \in BOOLEAN /\ panicked' \in BOOLEAN /\ registered' \in BOOLEAN
BY DEF TypeInv, TypeOK, Next, Guest, HostFunction, AllocateConfig, StartCall, ReadResult,
       FreeResult, Reinstantiate, HostReplies, HostReplyTraps, SendRequest, AdapterReturns,
       AdapterPanics, ReportError, ReportPanic, ReturnResult, FreeAllTracked,
       NotRegistered, EnterPlugin, PluginReturnsValue, PluginReturnsNilOrPanics,
       PluginReturnsError, ReturnPanics, RecoveryTraps, Trap, LogError, GuestGoto, Panic,
       setting, outcome, vars

\* The rest of TypeInv.
PlacesOK ==
  /\ frees \in SUBSET {"request", "config"}
  /\ hpc \in {"idle", "configured", "calling", "returned", "read", "trapped"}
  /\ call \in Calls
  /\ config \in Slots \cup {Null, Malformed} /\ result \in Slots \cup {Null}
  /\ gpc \in {"idle", "called", "plugin", "host", "reply", "error", "pack",
              "panic", "recovering", "repack"}
  /\ adapter \in Adapters \cup {Null}
  /\ request \in Slots \cup {Null}
  /\ response \in Slots \cup {Null, Malformed}
  /\ answer \in Answers
  /\ ControlOK

(* Steps of the host, while the guest is idle.                             *)
LEMMA HostPlaces ==
  ASSUME TypeInv,
         \/ AllocateConfig \/ \E name \in Calls : StartCall(name)
         \/ ReadResult \/ FreeResult \/ Reinstantiate
  PROVE  PlacesOK'
<1> USE DEF TypeInv, TypeOK, ControlOK, PlacesOK, setting, exchange, outcome, FreeSlots,
            ClearExchange
<1>1. CASE AllocateConfig
  BY <1>1 DEF AllocateConfig
<1>2. ASSUME NEW name \in Calls, StartCall(name) PROVE PlacesOK'
  BY <1>2 DEF StartCall
<1>3. CASE ReadResult
  BY <1>3 DEF ReadResult
<1>4. CASE FreeResult
  BY <1>4 DEF FreeResult
<1>5. CASE Reinstantiate
  BY <1>5 DEF Reinstantiate
<1> QED BY <1>1, <1>2, <1>3, <1>4, <1>5

(* Steps of a host function and of the adapter that called it.             *)
LEMMA ExchangePlaces ==
  ASSUME TypeInv,
         \/ HostFunction
         \/ \E a \in Adapters : SendRequest(a) \/ AdapterReturns(a) \/ AdapterPanics(a)
  PROVE  PlacesOK'
<1> USE DEF TypeInv, TypeOK, ControlOK, PlacesOK, setting, host, exchange, outcome,
            FreeSlots, ClearExchange, GuestGoto, Panic
<1>1. CASE HostReplies
  BY <1>1 DEF HostReplies
<1>2. CASE HostReplyTraps
  BY <1>2 DEF HostReplyTraps, Trap
<1>3. ASSUME NEW a \in Adapters, SendRequest(a) PROVE PlacesOK'
  BY <1>3 DEF SendRequest
<1>4. ASSUME NEW a \in Adapters, AdapterReturns(a) PROVE PlacesOK'
  BY <1>4 DEF AdapterReturns
<1>5. ASSUME NEW a \in Adapters, AdapterPanics(a) PROVE PlacesOK'
  BY <1>5 DEF AdapterPanics
<1> QED BY <1>1, <1>2, <1>3, <1>4, <1>5 DEF HostFunction

\* The steps of handleExportedCall and of plugin code outside an adapter.
HandlerStep ==
  \/ NotRegistered \/ EnterPlugin
  \/ PluginReturnsValue \/ PluginReturnsNilOrPanics \/ PluginReturnsError
  \/ ReportError \/ FreeAllTracked \/ ReportPanic
  \/ ReturnResult \/ ReturnPanics \/ RecoveryTraps

(* Steps of handleExportedCall.                                            *)
LEMMA HandlerPlaces ==
  ASSUME TypeInv, HandlerStep
  PROVE  PlacesOK'
<1> USE DEF TypeInv, TypeOK, ControlOK, PlacesOK, setting, host, exchange, outcome,
            FreeSlots, GuestGoto, Panic, Answers
<1>1. CASE NotRegistered \/ EnterPlugin
  BY <1>1 DEF NotRegistered, EnterPlugin
<1>2. CASE PluginReturnsValue \/ PluginReturnsNilOrPanics \/ PluginReturnsError
  BY <1>2 DEF PluginReturnsValue, PluginReturnsNilOrPanics, PluginReturnsError
<1>3. CASE ReportError \/ ReportPanic
  BY <1>3 DEF ReportError, ReportPanic, LogError, RecoveredAnswer
<1>4. CASE FreeAllTracked
  BY <1>4 DEF FreeAllTracked
<1>5. CASE ReturnResult
  BY <1>5 DEF ReturnResult
<1>6. CASE ReturnPanics
  BY <1>6 DEF ReturnPanics
<1>7. CASE RecoveryTraps
  BY <1>7 DEF RecoveryTraps, RecoveryExceeds, Trap
<1> QED BY <1>1, <1>2, <1>3, <1>4, <1>5, <1>6, <1>7 DEF HandlerStep

(* Host calls are counted up to their bound.                               *)
LEMMA HostCallsStep ==
  ASSUME TypeInv, [Next]_vars
  PROVE  hostCalls' \in 0..MaxHostCalls
<1> USE ConstantsAssumption DEF TypeInv, TypeOK
<1>1. CASE UNCHANGED hostCalls
  BY <1>1
<1>2. ASSUME NEW name \in Calls, StartCall(name) PROVE hostCalls' \in 0..MaxHostCalls
  BY <1>2 DEF StartCall
<1>3. ASSUME NEW a \in Adapters, SendRequest(a) PROVE hostCalls' \in 0..MaxHostCalls
  BY <1>3 DEF SendRequest
<1> QED
  BY <1>1, <1>2, <1>3
     DEF Next, Guest, HostFunction, AllocateConfig, ReadResult, FreeResult,
         Reinstantiate, HostReplies, HostReplyTraps, AdapterReturns, AdapterPanics,
         ReportError, ReportPanic, ReturnResult, FreeAllTracked, NotRegistered,
         EnterPlugin, PluginReturnsValue, PluginReturnsNilOrPanics, PluginReturnsError,
         ReturnPanics, RecoveryTraps, Trap, LogError, GuestGoto, Panic, vars

\* Every step keeps the types.
LEMMA TypeStep ==
  ASSUME TypeInv, [Next]_vars
  PROVE  TypeInv'
<1>1. BuffersOK'
  BY BuffersStep
<1>2. erred' \in BOOLEAN /\ panicked' \in BOOLEAN /\ registered' \in BOOLEAN
  BY BooleansStep
<1>3. hostCalls' \in 0..MaxHostCalls
  BY HostCallsStep
<1>4. PlacesOK'
  <2>1. CASE UNCHANGED vars
    BY <2>1 DEF vars, setting, host, exchange, outcome, TypeInv, TypeOK, PlacesOK, ControlOK
  <2> QED BY <2>1, HostPlaces, ExchangePlaces, HandlerPlaces DEF Next, Guest, HandlerStep
<1>5. TypeOK'
  BY <1>1, <1>2, <1>3, <1>4 DEF TypeOK, BuffersOK, PlacesOK
<1> QED BY <1>4, <1>5 DEF TypeInv, PlacesOK

(* Types are right in every state of exported calls.                       *)
THEOREM TypeCorrect == Spec => []TypeOK
<1>1. TypeInv => TypeOK
  BY DEF TypeInv
<1> QED BY <1>1, TypeInit, TypeStep, PTL DEF Spec

-----------------------------------------------------------------------------
(* What is in flight is intact. *)

\* A config is safe from its allocation on, not only once it is passed.
InFlightInv ==
  /\ TypeInv /\ InFlightIntact
  /\ hpc = "configured" /\ config \in Slots =>
       Pins(config, Content("config", "observe"))

(* Only what is about to be read matters: each step that makes something   *)
(* the next thing to be read pins it, or leaves the buffers alone.         *)
LEMMA InFlightStep ==
  ASSUME InFlightInv, [Next]_vars
  PROVE  InFlightInv'
<1> USE DEF InFlightInv, InFlightIntact, TypeInv, TypeOK, ControlOK, Pins, Content,
            setting, host, exchange, outcome, FreeSlots, GuestGoto, Panic, ClearExchange
<1> DEFINE Goal ==
      /\ InFlightIntact'
      /\ (hpc = "configured" /\ config \in Slots =>
            Pins(config, Content("config", "observe")))'
<1>1. TypeInv'
  BY TypeStep
<1>2. CASE AllocateConfig
  <2>1. gpc' = gpc /\ gpc = "idle" /\ hpc' \in {"configured", "trapped"}
    BY <1>2 DEF AllocateConfig
  <2>2. hpc' = "configured" /\ config' \in Slots =>
          PinAt(config', Content("config", "observe"))
    BY <1>2, ConstantsAssumption DEF AllocateConfig
  <2> QED BY <1>1, <2>1, <2>2 DEF PinAt
<1>3. ASSUME NEW name \in Calls, StartCall(name) PROVE Goal
  BY <1>3 DEF StartCall, Calls
<1>4. CASE ReadResult \/ FreeResult \/ Reinstantiate
  BY <1>1, <1>4 DEF ReadResult, FreeResult, Reinstantiate
<1>5. CASE HostReplies
  BY ZenonT(60), <1>1, <1>5, ConstantsAssumption DEF HostReplies
<1>6. CASE HostReplyTraps
  BY <1>1, <1>6 DEF HostReplyTraps, Trap
<1>7. ASSUME NEW a \in Adapters, SendRequest(a) PROVE Goal
  BY <1>7 DEF SendRequest, PinAt
<1>8. ASSUME NEW a \in Adapters, AdapterReturns(a) \/ AdapterPanics(a) PROVE Goal
  BY <1>8 DEF AdapterReturns, AdapterPanics
<1>9. CASE HandlerStep /\ ~ReturnResult
  BY <1>1, <1>9 DEF HandlerStep, NotRegistered, EnterPlugin, PluginReturnsValue,
       PluginReturnsError, PluginReturnsNilOrPanics, ReportError, ReportPanic, LogError,
       FreeAllTracked, ReturnPanics, RecoveryTraps, RecoveryExceeds, Trap
<1>10. CASE ReturnResult
  BY <1>1, <1>10 DEF ReturnResult, PinAt
<1>11. CASE UNCHANGED vars
  BY <1>1, <1>11 DEF vars
<1> QED
  BY <1>1, <1>2, <1>3, <1>4, <1>5, <1>6, <1>7, <1>8, <1>9, <1>10, <1>11
     DEF Next, Guest, HostFunction, HandlerStep

(* Whoever reads a config, a request, a response or a result reads what    *)
(* was written, for any number of leaked, freed and reused slots.          *)
THEOREM InFlightCorrect == Spec => []InFlightIntact
<1>1. Init => InFlightInv
  BY TypeInit DEF Init, InFlightInv, InFlightIntact
<1>2. InFlightInv => InFlightIntact
  BY DEF InFlightInv
<1> QED BY <1>1, <1>2, InFlightStep, PTL DEF Spec

-----------------------------------------------------------------------------
(* The answer matches what happened. *)

\* What has happened by each place of the guest, and what it is about to pack.
Unwinding == {"panic", "recovering", "repack"}

AnswerInv ==
  /\ TypeInv /\ AnswerMatches
  /\ gpc # "idle" => (panicked <=> gpc \in Unwinding)
  /\ gpc \in {"called", "plugin", "host", "reply"} => ~erred
  /\ gpc = "error" => erred
  /\ gpc = "pack" =>
       /\ answer # "panic"
       /\ erred => answer \in {"error", "failure"}
       /\ answer \in {"evidence", "failure"} => call = "observe"
       /\ answer = "manifest" => call = "manifest"
       /\ answer \in {"error", "failure"} => erred
  /\ gpc = "repack" => answer = "panic"

(* Every step keeps the history and the answer in agreement.               *)
LEMMA AnswerStep ==
  ASSUME AnswerInv, [Next]_vars
  PROVE  AnswerInv'
<1> USE DEF AnswerInv, AnswerMatches, TypeInv, TypeOK, ControlOK, Unwinding,
            setting, host, exchange, outcome, GuestGoto, Panic, ClearExchange
<1>1. TypeInv'
  BY TypeStep
<1>2. CASE \/ AllocateConfig \/ ReadResult \/ FreeResult \/ Reinstantiate
           \/ \E name \in Calls : StartCall(name)
  BY <1>1, <1>2 DEF AllocateConfig, StartCall, ReadResult, FreeResult, Reinstantiate
<1>3. CASE HostFunction
  BY <1>1, <1>3 DEF HostFunction, HostReplies, HostReplyTraps, Trap
<1>4. ASSUME NEW a \in Adapters, SendRequest(a) \/ AdapterReturns(a) \/ AdapterPanics(a)
      PROVE  AnswerInv'
  BY <1>1, <1>4 DEF SendRequest, AdapterReturns, AdapterPanics
<1>5. CASE NotRegistered \/ EnterPlugin \/ PluginReturnsNilOrPanics
  BY <1>1, <1>5 DEF NotRegistered, EnterPlugin, PluginReturnsNilOrPanics
<1>6. CASE PluginReturnsValue \/ PluginReturnsError
  BY <1>1, <1>6 DEF PluginReturnsValue, PluginReturnsError, Calls
<1>7. CASE ReportError \/ ReportPanic
  BY <1>1, <1>7 DEF ReportError, ReportPanic, LogError, RecoveredAnswer
<1>8. CASE FreeAllTracked \/ ReturnPanics
  BY <1>1, <1>8 DEF FreeAllTracked, ReturnPanics
<1>9. CASE ReturnResult
  BY <1>1, <1>9 DEF ReturnResult
<1>10. CASE RecoveryTraps
  BY <1>1, <1>10 DEF RecoveryTraps, Trap
<1>11. CASE UNCHANGED vars
  BY <1>1, <1>11 DEF vars
<1> QED
  BY <1>2, <1>3, <1>4, <1>5, <1>6, <1>7, <1>8, <1>9, <1>10, <1>11 DEF Next, Guest

\* Nothing is in flight at first.
LEMMA AnswerInit == Init => AnswerInv
BY TypeInit DEF Init, AnswerInv, AnswerMatches

(* The host is told of a panic exactly when there was one, and of an error *)
(* otherwise if there was one.                                             *)
THEOREM AnswersCorrect == Spec => []AnswerMatches
<1>1. AnswerInv => AnswerMatches
  BY DEF AnswerInv
<1> QED BY <1>1, AnswerInit, AnswerStep, PTL DEF Spec

-----------------------------------------------------------------------------
(* The recovery reclaims memory, and has room to answer. *)

IsLog(s) == buffers[s] = Content("request", "log")

\* What is pinned on the way of a panic from FreeAllTracked to the host.
RecoveryInv ==
  /\ AnswerInv
  /\ gpc = "recovering" => DOMAIN buffers = {}
  /\ gpc = "repack" => \E s \in Slots : DOMAIN buffers \subseteq {s}
                                        /\ \A t \in DOMAIN buffers : IsLog(t)
  /\ hpc = "returned" /\ panicked =>
       \E s \in Slots : DOMAIN buffers \subseteq {s, result}
                        /\ \A t \in DOMAIN buffers \ {result} : IsLog(t)

(* At most one log message and one result are pinned after FreeAllTracked. *)
LEMMA RecoveryStep ==
  ASSUME RecoveryInv, [Next]_vars
  PROVE  RecoveryInv'
<1> USE DEF RecoveryInv, AnswerInv, TypeInv, TypeOK, ControlOK, Unwinding, IsLog,
            setting, host, exchange, outcome, GuestGoto, Panic, ClearExchange, FreeSlots
<1>1. AnswerInv'
  BY AnswerStep
<1>2. CASE \/ AllocateConfig \/ ReadResult \/ FreeResult \/ Reinstantiate
           \/ \E name \in Calls : StartCall(name)
  BY <1>1, <1>2 DEF AllocateConfig, StartCall, ReadResult, FreeResult, Reinstantiate
<1>3. CASE HostFunction
  BY <1>1, <1>3 DEF HostFunction, HostReplies, HostReplyTraps, Trap
<1>4. ASSUME NEW a \in Adapters, SendRequest(a) \/ AdapterReturns(a) \/ AdapterPanics(a)
      PROVE  RecoveryInv'
  BY <1>1, <1>4 DEF SendRequest, AdapterReturns, AdapterPanics
<1>5. CASE \/ NotRegistered \/ EnterPlugin \/ PluginReturnsValue \/ PluginReturnsError
           \/ PluginReturnsNilOrPanics \/ ReportError \/ ReturnPanics \/ RecoveryTraps
  BY <1>1, <1>5 DEF NotRegistered, EnterPlugin, PluginReturnsValue, PluginReturnsError,
       PluginReturnsNilOrPanics, ReportError, LogError, ReturnPanics, RecoveryTraps, Trap
<1>6. CASE FreeAllTracked
  BY <1>1, <1>6 DEF FreeAllTracked, AfterFreeAll
<1>7. CASE ReportPanic
  <2>1. PICK s \in Slots : buffers' = buffers \/ PinAt(s, Content("request", "log"))
    BY <1>7, ConstantsAssumption, FS_EmptySet DEF ReportPanic, LogError, HasRoom
  <2>2. DOMAIN buffers' \subseteq {s} /\ \A t \in DOMAIN buffers' : IsLog(t)'
    BY <1>7, <2>1 DEF ReportPanic, PinAt
  <2> QED BY <1>1, <1>7, <2>2 DEF ReportPanic, LogError
<1>8. CASE ReturnResult
  <2>1. CASE gpc = "pack"
    BY <1>1, <1>8, <2>1 DEF ReturnResult
  <2>2. CASE gpc = "repack"
    <3>1. PICK s \in Slots : DOMAIN buffers \subseteq {s}
                             /\ \A t \in DOMAIN buffers : IsLog(t)
      BY <2>2
    <3>2. DOMAIN buffers' \subseteq {s, result'}
          /\ \A t \in DOMAIN buffers' \ {result'} : IsLog(t)'
      BY <1>8, <3>1 DEF ReturnResult, PinAt
    <3> QED BY <1>1, <1>8, <3>2 DEF ReturnResult
  <2> QED BY <1>8, <2>1, <2>2 DEF ReturnResult
<1>9. CASE UNCHANGED vars
  BY <1>1, <1>9 DEF vars
<1> QED BY <1>2, <1>3, <1>4, <1>5, <1>6, <1>7, <1>8, <1>9 DEF Next, Guest

\* Nothing is pinned at first.
LEMMA RecoveryInit == Init => RecoveryInv
BY AnswerInit DEF Init, RecoveryInv

(* Two slots are at most two.                                              *)
LEMMA AtMostTwo ==
  ASSUME NEW s, NEW t, NEW S \in SUBSET {s, t}
  PROVE  IsFiniteSet(S) /\ Cardinality(S) \in Nat /\ Cardinality(S) <= 2
<1>1. IsFiniteSet({s}) /\ Cardinality({s}) = 1
  BY FS_Singleton
<1>2. /\ IsFiniteSet({s} \cup {t})
      /\ Cardinality({s} \cup {t}) = IF t \in {s} THEN Cardinality({s}) ELSE Cardinality({s}) + 1
  BY <1>1, FS_AddElement
<1>3. S \subseteq {s} \cup {t}
  OBVIOUS
<1>4. Cardinality({s} \cup {t}) <= 2 /\ Cardinality({s} \cup {t}) \in Nat
  BY <1>1, <1>2
<1> QED BY <1>2, <1>3, <1>4, FS_Subset, FS_CardinalityType

(* After a panic nothing is pinned but the result and one log message,     *)
(* whatever was before.                                                    *)
THEOREM RecoveryCorrect == Spec => []RecoveryReclaims
<1>1. RecoveryInv => RecoveryReclaims
  <2> SUFFICES ASSUME RecoveryInv, hpc = "returned", panicked,
                      NEW s \in DOMAIN buffers \ {result}
               PROVE  IsLog(s) /\ Cardinality(DOMAIN buffers) <= 2
    BY DEF RecoveryReclaims, IsLog
  <2>1. PICK t \in Slots : DOMAIN buffers \subseteq {t, result}
                           /\ \A u \in DOMAIN buffers \ {result} : IsLog(u)
    BY DEF RecoveryInv
  <2> QED BY <2>1, AtMostTwo
<1> QED BY <1>1, RecoveryInit, RecoveryStep, PTL DEF Spec

(* So a panic that is recovered finds room to answer, if its messages fit  *)
(* the limit: what can end an instance is an allocation of the host's.     *)
THEOREM TrapsCorrect == Spec => OnlyAllocateTraps
<1> DEFINE Traps == RecoveryFits /\ hpc # "trapped" /\ hpc' = "trapped"
                      => hpc = "idle" \/ gpc = "host"
<1>1. RecoveryInv /\ [Next]_vars => [Traps]_vars
  <2> SUFFICES ASSUME RecoveryInv, Next, RecoveryFits, hpc # "trapped", hpc' = "trapped"
               PROVE  hpc = "idle" \/ gpc = "host"
    OBVIOUS
  <2>1. CASE RecoveryTraps
    <3>1. ~HasRoom /\ gpc \in {"recovering", "repack"}
      BY <2>1 DEF RecoveryTraps, RecoveryExceeds
    <3>2. PICK s : DOMAIN buffers \subseteq {s}
      BY <3>1 DEF RecoveryInv
    <3>3. Cardinality(DOMAIN buffers) \in Nat /\ Cardinality(DOMAIN buffers) <= 1
      <4>1. IsFiniteSet({s}) /\ Cardinality({s}) = 1
        BY FS_Singleton
      <4> QED BY <3>2, <4>1, FS_Subset, FS_CardinalityType
    <3> QED BY <3>1, <3>3, ConstantsAssumption DEF HasRoom
  <2>2. CASE ~RecoveryTraps
    BY <2>2 DEF Next, Guest, HostFunction, AllocateConfig, StartCall, ReadResult, FreeResult,
         Reinstantiate, HostReplies, HostReplyTraps, SendRequest, AdapterReturns,
         AdapterPanics, NotRegistered, EnterPlugin, PluginReturnsValue, PluginReturnsError,
         PluginReturnsNilOrPanics, ReportError, ReportPanic, LogError, FreeAllTracked,
         ReturnResult, ReturnPanics, GuestGoto, Panic, host
  <2> QED BY <2>1, <2>2
<1>2. Spec => []RecoveryInv
  BY RecoveryInit, RecoveryStep, PTL DEF Spec
<1>3. Spec => [][Traps]_vars
  BY <1>1, <1>2, PTL DEF Spec
<1> QED BY <1>3 DEF OnlyAllocateTraps

-----------------------------------------------------------------------------
(* What stays pinned between calls is what no code frees. *)

Config == Content("config", "observe")

\* During a call a buffer is a leak, or what the call still has in its hands;
\* one whose instance has trapped, or is about to free all, may be anything.
Accounted(s) ==
  \/ buffers[s] \in Leaks
  \/ buffers[s] = Config /\ s = config /\ hpc # "idle"
  \/ /\ buffers[s] = Content("request", adapter) /\ s = request
     /\ adapter # "custom"
     /\ gpc = "host" \/ (gpc = "reply" /\ "request" \notin frees)
  \/ buffers[s] = Content("response", adapter) /\ s = response /\ gpc = "reply"
  \/ s = result /\ hpc \in {"returned", "read"}

LeakInv ==
  /\ TypeInv
  /\ gpc # "panic" /\ hpc # "trapped" => \A s \in DOMAIN buffers : Accounted(s)

\* The buffers that are not pinned anew keep their content.
LEMMA PinKeeps ==
  ASSUME NEW s, NEW content, PinAt(s, content)
  PROVE  /\ DOMAIN buffers' = DOMAIN buffers \cup {s}
         /\ buffers'[s] = content
         /\ \A t \in DOMAIN buffers \ {s} : buffers'[t] = buffers[t]
BY DEF PinAt

\* Neither a leak nor of the call's own exchange with the host.
Settled(s) ==
  \/ buffers[s] \in Leaks
  \/ buffers[s] = Config /\ s = config /\ hpc # "idle"

(* Away from an exchange and from a result, a buffer is settled.           *)
LEMMA SettledBuffers ==
  ASSUME LeakInv, gpc \notin {"host", "reply", "panic"},
         hpc \notin {"returned", "read", "trapped"}
  PROVE  \A s \in DOMAIN buffers : Settled(s)
BY DEF LeakInv, Accounted, Settled

(* What the adapters free and what is known to leak cover each other: on   *)
(* every path what is not freed is a leak of the list.                     *)
LEMMA AdapterLeaves ==
  ASSUME LeakInv, NEW a \in Adapters, AdapterReturns(a),
         NEW s \in DOMAIN buffers \ FreedByAdapter(a)
  PROVE  Settled(s)
<1>1. /\ gpc = "reply" /\ adapter = a /\ hpc = "calling"
      /\ Accounted(s)
  BY DEF LeakInv, TypeInv, ControlOK, AdapterReturns
<1>2. CASE /\ buffers[s] = Content("request", a) /\ s = request
           /\ a # "custom" /\ "request" \notin frees
  <2>1. a \in {"http", "dns", "log"}
    BY <1>2 DEF FreedByAdapter, Deferred, Adapters
  <2> QED BY <1>2, <2>1 DEF Settled, Leaks
<1>3. CASE buffers[s] = Content("response", a) /\ s = response
  BY <1>3 DEF FreedByAdapter, Leaks, Settled
<1> QED BY <1>1, <1>2, <1>3 DEF Accounted, Settled

(* A host function leaves the config, the leaks, the request it does not   *)
(* free and its response.                                                  *)
LEMMA HostLeaves ==
  ASSUME LeakInv, HostReplies
  PROVE  \A s \in DOMAIN buffers' : Accounted(s)'
<1> DEFINE kept == IF "request" \in frees THEN Without({request}) ELSE buffers
<1>1. /\ gpc = "host" /\ hpc = "calling" /\ adapter \in Adapters
      /\ frees' = frees /\ config' = config /\ hpc' = hpc
  BY DEF HostReplies, LeakInv, TypeInv, ControlOK, GuestGoto, setting, host
<1>2. /\ DOMAIN kept \subseteq DOMAIN buffers
      /\ \A s \in DOMAIN kept : kept[s] = buffers[s]
      /\ "request" \in frees => request \notin DOMAIN kept
  BY ZenonT(60), WithoutTypes
<1>3. \A s \in DOMAIN buffers :
        \/ Settled(s)
        \/ buffers[s] = Content("request", adapter) /\ s = request /\ adapter # "custom"
  BY <1>1 DEF LeakInv, Accounted, Settled
<1>4. Leaks' = Leaks /\ Config' = Config
  BY <1>1 DEF Leaks, Config, Content
<1>5. CASE adapter = "log" /\ buffers' = kept
  <2>1. ASSUME NEW s \in DOMAIN kept PROVE Settled(s)
    <3>1. CASE s = request /\ buffers[s] = Content("request", "log")
      BY <1>2, <2>1, <3>1 DEF Settled, Leaks
    <3> QED BY <1>2, <1>3, <1>5, <2>1, <3>1
  <2> QED BY <1>1, <1>2, <1>4, <1>5, <2>1 DEF Settled, Accounted
<1>6. CASE adapter # "log"
  <2>1. /\ gpc' = "reply" /\ adapter' = adapter /\ request' = request
    BY <1>6 DEF HostReplies, GuestGoto
  <2>2. Content("request", adapter)' = Content("request", adapter)
        /\ Content("response", adapter)' = Content("response", adapter)
    BY <2>1 DEF Content
  <2>3. ASSUME NEW s \in DOMAIN buffers', s \in DOMAIN kept, buffers'[s] = kept[s]
        PROVE  Accounted(s)'
    BY <1>1, <1>2, <1>3, <1>4, <2>1, <2>2, <2>3 DEF Settled, Accounted
  <2>4. CASE buffers' = kept
    BY <2>3, <2>4
  <2>5. CASE \E s \in Slots \ DOMAIN kept :
               /\ buffers' = [t \in DOMAIN kept \cup {s} |->
                                IF t = s THEN Content("response", adapter) ELSE kept[t]]
               /\ response' = s
    <3>1. PICK s \in Slots \ DOMAIN kept :
            /\ DOMAIN buffers' = DOMAIN kept \cup {s}
            /\ buffers'[s] = Content("response", adapter)
            /\ \A t \in DOMAIN kept : buffers'[t] = kept[t]
            /\ response' = s
      BY <2>5
    <3>2. Accounted(s)'
      BY <2>1, <2>2, <3>1 DEF Accounted
    <3> QED BY <2>3, <3>1, <3>2
  <2> QED BY <1>6, <2>4, <2>5 DEF HostReplies
<1> QED BY <1>5, <1>6 DEF HostReplies

(* What is settled stays so, when config is not lost during a call.        *)
LEMMA SettledStays ==
  ASSUME NEW t \in DOMAIN buffers, Settled(t), t \in DOMAIN buffers', buffers'[t] = buffers[t],
         frees' = frees, hpc = "idle" \/ (config' = config /\ hpc' # "idle")
  PROVE  Settled(t)' /\ Accounted(t)'
<1>1. Leaks' = Leaks /\ Config' = Config
  BY DEF Leaks, Config, Content
<1> QED BY <1>1 DEF Settled, Accounted

(* A step that pins one buffer more, and leaves the rest settled.          *)
LEMMA PinAccounts ==
  ASSUME \A t \in DOMAIN buffers : Settled(t), NEW s, NEW content, PinAt(s, content),
         frees' = frees, hpc = "idle" \/ (config' = config /\ hpc' # "idle"),
         Accounted(s)'
  PROVE  \A t \in DOMAIN buffers' : Accounted(t)'
<1>1. ASSUME NEW t \in DOMAIN buffers \ {s} PROVE Accounted(t)'
  <2>1. t \in DOMAIN buffers' /\ buffers'[t] = buffers[t]
    BY PinKeeps
  <2> QED BY <2>1, SettledStays
<1>2. DOMAIN buffers' = DOMAIN buffers \cup {s}
  BY PinKeeps
<1> QED BY <1>1, <1>2

(* Every step leaves each buffer accounted for.                            *)
LEMMA LeakStep ==
  ASSUME LeakInv, [Next]_vars
  PROVE  LeakInv'
<1> USE DEF LeakInv, TypeInv, ControlOK
<1> DEFINE Goal == gpc' # "panic" /\ hpc' # "trapped"
                     => \A s \in DOMAIN buffers' : Accounted(s)'
<1>1. TypeInv'
  BY TypeStep
<1>2. ASSUME AllocateConfig PROVE Goal
  <2>1. hpc = "idle" /\ gpc = "idle" /\ frees' = frees
    BY <1>2 DEF AllocateConfig, setting
  <2>2. \A t \in DOMAIN buffers : Settled(t)
    BY <2>1, SettledBuffers
  <2>3. ASSUME NEW s \in FreeSlots, PinAt(s, Config), config' = s, hpc' = "configured"
        PROVE  Goal
    <3>1. Config' = Config
      BY DEF Config, Content
    <3>2. Accounted(s)'
      BY <2>3, <3>1, PinKeeps DEF Accounted
    <3> QED BY <2>1, <2>2, <2>3, <3>2, PinAccounts
  <2>4. ASSUME buffers' = buffers PROVE Goal
    BY <2>1, <2>2, <2>4, SettledStays
  <2> QED BY <1>2, <2>3, <2>4 DEF AllocateConfig, Config
<1>3. ASSUME NEW name \in Calls, StartCall(name) PROVE Goal
  <2>1. /\ buffers' = buffers /\ frees' = frees /\ config' = config
        /\ hpc \in {"idle", "configured"} /\ hpc' # "idle"
    BY <1>3 DEF StartCall, setting
  <2>2. \A t \in DOMAIN buffers : Settled(t)
    BY <2>1, SettledBuffers
  <2> QED BY <2>1, <2>2, SettledStays
<1>4. ASSUME ReadResult PROVE Goal
  <2>1. /\ buffers' = buffers /\ frees' = frees /\ config' = config /\ result' = result
        /\ hpc = "returned" /\ hpc' = "read" /\ gpc = "idle"
    BY <1>4 DEF ReadResult, setting
  <2>2. Leaks' = Leaks /\ Config' = Config
    BY <2>1 DEF Leaks, Config, Content
  <2> QED BY <2>1, <2>2 DEF Accounted
<1>5. ASSUME FreeResult PROVE Goal
  <2> DEFINE freed == {result} \cup (IF "config" \in frees THEN {config} ELSE {})
  <2>1. /\ frees' = frees /\ hpc = "read" /\ gpc = "idle"
        /\ DOMAIN buffers' = DOMAIN buffers \ freed
        /\ \A t \in DOMAIN buffers \ freed : buffers'[t] = buffers[t]
    BY <1>5, WithoutTypes DEF FreeResult, setting
  <2>2. Leaks' = Leaks
    BY <2>1 DEF Leaks, Content
  <2>3. "config" \notin frees => Config \in Leaks
    BY DEF Leaks, Config
  <2> QED BY <2>1, <2>2, <2>3 DEF Accounted
<1>6. ASSUME Reinstantiate PROVE Goal
  <2>1. frees' = frees /\ buffers' \in FreshMemory
    BY <1>6 DEF Reinstantiate, setting
  <2>2. Leaks' = Leaks
    BY <2>1 DEF Leaks, Content
  <2>3. "request" \notin frees => Content("request", "log") \in Leaks
    BY DEF Leaks
  <2> QED BY <2>1, <2>2, <2>3, FreshTypes DEF Accounted
<1>7. ASSUME HostReplies PROVE Goal
  BY <1>7, HostLeaves
<1>8. ASSUME HostReplyTraps \/ RecoveryTraps PROVE Goal
  BY <1>8 DEF HostReplyTraps, RecoveryTraps, Trap
<1>9. ASSUME NEW a \in Adapters, SendRequest(a) PROVE Goal
  <2>1. SUFFICES ASSUME gpc' # "panic" PROVE Goal
    OBVIOUS
  <2>2. /\ gpc = "plugin" /\ hpc = "calling" /\ gpc' = "host" /\ adapter' = a
        /\ frees' = frees /\ config' = config /\ hpc' = hpc
    BY <1>9, <2>1 DEF SendRequest, setting, host
  <2>3. \A t \in DOMAIN buffers : Settled(t)
    BY <2>2, SettledBuffers
  <2>4. CASE a = "custom"
    <3>1. buffers' = buffers
      BY <1>9, <2>4 DEF SendRequest
    <3> QED BY <2>2, <2>3, <3>1, SettledStays
  <2>5. CASE a # "custom"
    <3>1. PICK s \in FreeSlots : PinAt(s, Content("request", a)) /\ request' = s
      BY <1>9, <2>1, <2>5 DEF SendRequest
    <3>2. Content("request", adapter)' = Content("request", a)
      BY <2>2 DEF Content
    <3>3. Accounted(s)'
      BY <2>2, <2>5, <3>1, <3>2, PinKeeps DEF Accounted
    <3> QED BY <2>2, <2>3, <3>1, <3>3, PinAccounts
  <2> QED BY <2>4, <2>5
<1>10. ASSUME NEW a \in Adapters, AdapterReturns(a) PROVE Goal
  <2>1. /\ frees' = frees /\ config' = config /\ hpc' = hpc /\ hpc = "calling"
        /\ buffers' = Without(FreedByAdapter(a))
    BY <1>10 DEF AdapterReturns, GuestGoto, setting, host
  <2>2. \A t \in DOMAIN buffers' : t \in DOMAIN buffers \ FreedByAdapter(a)
                                   /\ buffers'[t] = buffers[t]
    BY <2>1, WithoutTypes
  <2> QED BY <1>10, <2>1, <2>2, AdapterLeaves, SettledStays
<1>11. ASSUME NEW a \in Adapters, AdapterPanics(a) PROVE Goal
  BY <1>11 DEF AdapterPanics, Panic, GuestGoto
<1>12. ASSUME \/ NotRegistered \/ EnterPlugin \/ PluginReturnsValue \/ PluginReturnsError
              \/ PluginReturnsNilOrPanics \/ ReturnPanics
       PROVE  Goal
  <2>1. /\ gpc \in {"called", "plugin", "pack"} /\ hpc = "calling" /\ hpc' = hpc
        /\ frees' = frees /\ config' = config /\ buffers' = buffers
    BY <1>12 DEF NotRegistered, EnterPlugin, PluginReturnsValue, PluginReturnsError,
       PluginReturnsNilOrPanics, ReturnPanics, GuestGoto, Panic, setting, host
  <2>2. \A t \in DOMAIN buffers : Settled(t)
    BY <2>1, SettledBuffers
  <2> QED BY <2>1, <2>2, SettledStays
<1>13. ASSUME ReportError \/ ReportPanic PROVE Goal
  <2>1. SUFFICES ASSUME gpc' # "panic" PROVE Goal
    OBVIOUS
  <2>2. /\ gpc \in {"error", "recovering"} /\ hpc = "calling" /\ hpc' = hpc
        /\ frees' = frees /\ config' = config
        /\ \/ buffers' = buffers
           \/ /\ "request" \notin frees
              /\ \E s \in FreeSlots : PinAt(s, Content("request", "log"))
    BY <1>13, <2>1 DEF ReportError, ReportPanic, LogError, GuestGoto, Panic, setting, host
  <2>3. \A t \in DOMAIN buffers : Settled(t)
    BY <2>2, SettledBuffers
  <2>4. CASE buffers' = buffers
    BY <2>2, <2>3, <2>4, SettledStays
  <2>5. ASSUME NEW s \in FreeSlots, PinAt(s, Content("request", "log")),
               "request" \notin frees
        PROVE  Goal
    <3>1. Content("request", "log") \in Leaks'
      BY <2>2, <2>5 DEF Leaks, Content
    <3>2. buffers'[s] = Content("request", "log")
      BY <2>5, PinKeeps
    <3>3. buffers'[s] \in Leaks'
      BY <3>1, <3>2
    <3>4. Accounted(s)'
      BY <3>3 DEF Accounted
    <3> QED BY <2>2, <2>3, <2>5, <3>4, PinAccounts
  <2> QED BY <2>2, <2>4, <2>5
<1>14. ASSUME FreeAllTracked PROVE Goal
  BY <1>14 DEF FreeAllTracked, AfterFreeAll
<1>15. ASSUME ReturnResult PROVE Goal
  <2>1. /\ gpc \in {"pack", "repack"} /\ hpc = "calling" /\ hpc' = "returned"
        /\ frees' = frees /\ config' = config
    BY <1>15 DEF ReturnResult, setting
  <2>2. PICK s \in FreeSlots : PinAt(s, Content("result", answer)) /\ result' = s
    BY <1>15 DEF ReturnResult
  <2>3. Accounted(s)'
    BY <2>1, <2>2 DEF Accounted
  <2>4. \A t \in DOMAIN buffers : Settled(t)
    BY <2>1, SettledBuffers
  <2> QED BY <2>1, <2>2, <2>3, <2>4, PinAccounts
<1>16. ASSUME UNCHANGED vars PROVE Goal
  <2>1. /\ buffers' = buffers /\ frees' = frees /\ config' = config /\ hpc' = hpc
        /\ gpc' = gpc /\ adapter' = adapter /\ request' = request
        /\ response' = response /\ result' = result
    BY <1>16 DEF vars, setting, host, exchange
  <2>2. /\ Leaks' = Leaks /\ Config' = Config
        /\ Content("request", adapter)' = Content("request", adapter)
        /\ Content("response", adapter)' = Content("response", adapter)
    BY <2>1 DEF Leaks, Config, Content
  <2> QED BY <2>1, <2>2 DEF Accounted
<1>17. Goal
  BY <1>2, <1>3, <1>4, <1>5, <1>6, <1>7, <1>8, <1>9, <1>10, <1>11, <1>12, <1>13,
     <1>14, <1>15, <1>16 DEF Next, Guest, HostFunction
<1> QED BY <1>1, <1>17

\* Nothing has leaked at first.
LEMMA LeakInit == Init => LeakInv
<1> SUFFICES ASSUME Init PROVE LeakInv
  OBVIOUS
<1>1. "request" \notin frees => Content("request", "log") \in Leaks
  BY DEF Leaks
<1> QED BY <1>1, TypeInit, FreshTypes DEF Init, LeakInv, Accounted

(* Whatever the plugin, the host and the adapters do, between calls only   *)
(* what no code frees is pinned.                                           *)
THEOREM LeaksCorrect == Spec => []OnlyKnownLeaks
<1>1. LeakInv => OnlyKnownLeaks
  BY DEF LeakInv, TypeInv, ControlOK, OnlyKnownLeaks, Accounted
<1> QED BY <1>1, LeakInit, LeakStep, PTL DEF Spec

-----------------------------------------------------------------------------
(* The calls follow the protocol. *)

Worst == IF panicked THEN "panicked" ELSE IF erred THEN "erred" ELSE "fine"

Told == IF hpc \in {"returned", "read"} /\ result \in DOMAIN buffers
        THEN buffers[result].by ELSE "nothing"

ProtocolInv == AnswerInv /\ InFlightInv

(* What the host may be told of what is about to be packed.                *)
LEMMA RepliesAnswer ==
  ASSUME AnswerInv, gpc \in {"pack", "repack"}
  PROVE  answer \in Protocol!Replies(call, Worst)
<1> USE DEF AnswerInv, TypeInv, TypeOK, Unwinding, Answers, Calls, Worst,
            Protocol!Replies, Protocol!Value
<1>1. CASE gpc = "repack"
  BY <1>1
<1>2. CASE gpc = "pack" /\ erred
  BY <1>2
<1>3. CASE gpc = "pack" /\ ~erred
  BY <1>3
<1> QED BY <1>1, <1>2, <1>3

(* The host's steps: it asks, settles and replaces, and its own allocation *)
(* may be the death of the instance.                                       *)
LEMMA HostProtocol ==
  ASSUME ProtocolInv,
         \/ AllocateConfig \/ \E name \in Calls : StartCall(name)
         \/ ReadResult \/ FreeResult \/ Reinstantiate
  PROVE  Protocol!ProtocolNext \/ UNCHANGED Protocol!protocol
<1> USE DEF ProtocolInv, AnswerInv, TypeInv, TypeOK, ControlOK, outcome,
            Protocol!ProtocolNext, Protocol!protocol
<1>1. CASE AllocateConfig
  BY <1>1 DEF AllocateConfig, Protocol!Die
<1>2. ASSUME NEW name \in Calls, StartCall(name)
      PROVE  Protocol!ProtocolNext
  <2>1. name \in Protocol!Exports
    BY DEF Calls, Protocol!Exports
  <2>2. Protocol!Ask(name)
    BY <1>2 DEF StartCall, Protocol!Ask
  <2> QED BY <2>1, <2>2
<1>3. CASE ReadResult
  BY <1>3 DEF ReadResult
<1>4. CASE FreeResult
  BY <1>4 DEF FreeResult, Protocol!Settle
<1>5. CASE Reinstantiate
  BY <1>5 DEF Reinstantiate, Protocol!Replace
<1> QED BY <1>1, <1>2, <1>3, <1>4, <1>5

(* Inside a call only what happens to it shows.                            *)
LEMMA GuestProtocol ==
  ASSUME ProtocolInv, HostFunction \/ Guest, ~ReturnResult
  PROVE  Protocol!ProtocolNext \/ UNCHANGED Protocol!protocol
<1> USE DEF ProtocolInv, AnswerInv, TypeInv, TypeOK, ControlOK, Unwinding, outcome, host,
            setting, GuestGoto, Panic, Protocol!ProtocolNext, Protocol!protocol
<1>1. ASSUME gpc # "idle", hpc' = hpc, call' = call, erred' = erred, panicked' = panicked
      PROVE  UNCHANGED Protocol!protocol
  BY <1>1
<1>2. ASSUME gpc # "idle", Trap PROVE Protocol!ProtocolNext
  BY <1>2 DEF Trap, Protocol!Die
<1>3. ASSUME gpc # "idle", ~panicked, hpc' = hpc, call' = call, Worst' # Worst,
             panicked' \/ erred'
      PROVE  Protocol!ProtocolNext
  BY <1>3 DEF Worst, Protocol!Worsen
<1>4. CASE HostFunction
  BY <1>1, <1>2, <1>4 DEF HostFunction, HostReplies, HostReplyTraps
<1>5. ASSUME NEW a \in Adapters, SendRequest(a) \/ AdapterReturns(a) \/ AdapterPanics(a)
      PROVE  Protocol!ProtocolNext \/ UNCHANGED Protocol!protocol
  <2>1. CASE panicked' = panicked
    BY <1>1, <1>5, <2>1 DEF SendRequest, AdapterReturns, AdapterPanics
  <2>2. CASE panicked' # panicked
    BY <1>3, <1>5, <2>2 DEF SendRequest, AdapterReturns, AdapterPanics, Worst
  <2> QED BY <2>1, <2>2
<1>6. CASE FreeAllTracked \/ ReportPanic
  BY <1>1, <1>6 DEF FreeAllTracked, ReportPanic, LogError
<1>7. CASE \/ NotRegistered \/ EnterPlugin \/ PluginReturnsValue
           \/ PluginReturnsError \/ PluginReturnsNilOrPanics \/ ReportError \/ ReturnPanics
  <2>1. CASE panicked' = panicked /\ erred' = erred
    BY <1>1, <1>7, <2>1 DEF NotRegistered, EnterPlugin, PluginReturnsValue, PluginReturnsError,
       PluginReturnsNilOrPanics, ReportError, LogError, ReturnPanics
  <2>2. CASE ~(panicked' = panicked /\ erred' = erred)
    BY <1>3, <1>7, <2>2 DEF NotRegistered, EnterPlugin, PluginReturnsValue, PluginReturnsError,
       PluginReturnsNilOrPanics, ReportError, LogError, ReturnPanics, Worst
  <2> QED BY <2>1, <2>2
<1>8. CASE RecoveryTraps
  BY <1>2, <1>8 DEF RecoveryTraps, RecoveryExceeds
<1> QED BY <1>4, <1>5, <1>6, <1>7, <1>8 DEF Guest

(* The packing of the result is the answer.                                *)
LEMMA ReturnReplies ==
  ASSUME ProtocolInv, ReturnResult
  PROVE  Protocol!ProtocolNext
<1>1. PICK s \in FreeSlots : PinAt(s, Content("result", answer)) /\ result' = s
  BY DEF ReturnResult
<1>2. /\ gpc \in {"pack", "repack"} /\ hpc = "calling" /\ hpc' = "returned"
      /\ call' = call /\ erred' = erred /\ panicked' = panicked
  BY DEF ReturnResult, outcome, ProtocolInv, AnswerInv, TypeInv, ControlOK
<1>3. Told' = answer
  <2>1. s \in DOMAIN buffers' /\ buffers'[s] = Content("result", answer)
    BY <1>1, PinKeeps
  <2>2. Content("result", answer).by = answer
    BY DEF Content
  <2> QED BY <1>1, <1>2, <2>1, <2>2 DEF Told
<1>4. answer \in Protocol!Replies(call, Worst)
  BY <1>2, RepliesAnswer DEF ProtocolInv
<1>5. Protocol!Reply
  BY <1>2, <1>3, <1>4 DEF Protocol!Reply, Told, Worst
<1> QED BY <1>5 DEF Protocol!ProtocolNext

(* What the host sees of the calls, safety only, is CallProtocol, whatever *)
(* the limit, the slots and the policies.                                  *)
THEOREM CallsFollowProtocol == Spec => Protocol!SafeProtocol
<1>1. Init => ProtocolInv
  BY AnswerInit DEF Init, ProtocolInv, InFlightInv, InFlightIntact, AnswerInv
<1>2. ProtocolInv /\ [Next]_vars => ProtocolInv'
  BY AnswerStep, InFlightStep DEF ProtocolInv
<1>3. Init => Protocol!ProtocolInit
  BY DEF Init, Protocol!ProtocolInit, Protocol!Exports, Calls
<1>4. ProtocolInv /\ [Next]_vars => [Protocol!ProtocolNext]_(Protocol!protocol)
  <2>1. CASE UNCHANGED vars
    BY <2>1 DEF vars, host, setting, outcome, Protocol!protocol
  <2> QED BY <2>1, HostProtocol, GuestProtocol, ReturnReplies DEF Next
<1> QED BY <1>1, <1>2, <1>3, <1>4, PTL DEF Spec, Protocol!SafeProtocol
=============================================================================
