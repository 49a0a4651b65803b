---------------------------- MODULE ExportedCall ----------------------------
(***************************************************************************)
(* A host and one plugin instance: the exported calls _manifest and        *)
(* _observe (application/plugin/plugin.go), the host functions the plugin  *)
(* reaches through the adapters (infrastructure/wasm), CallHost            *)
(* (bridge.go) and the log handler (log/handler_wasm.go), and the buffers  *)
(* that cross the boundary.                                                *)
(*                                                                         *)
(* A buffer takes one slot of linear memory and counts one against the     *)
(* limit (AbiMemory has the byte-level manager); its content says what it  *)
(* is and whose.  A slot is reused as soon as no buffer is pinned in it,   *)
(* which is what makes a stale free dangerous.  The host is external: it   *)
(* runs one exported call at a time and re-enters the guest only to        *)
(* allocate a response, reads a result before it frees anything, and in    *)
(* what else it frees follows any policy, since the documentation of the   *)
(* ABI says two different things.                                          *)
(***************************************************************************)
EXTENDS Integers, FiniteSets, Functions

CONSTANTS
  Slots,               \* addresses of linear memory
  Null,                \* the packed value 0
  Malformed,           \* a packed value with a null pointer and a length
  Limit,               \* maxTotalAllocations, in buffers
  MaxHostCalls,        \* bound on the host calls of one exported call
  RecoveryFits         \* do all messages of a recovered panic fit the limit?

ASSUME ConstantsAssumption ==
  /\ Limit \in Nat /\ MaxHostCalls \in Nat
  /\ IsFiniteSet(Slots) /\ Limit < Cardinality(Slots)
  /\ Null \notin Slots /\ Malformed \notin Slots /\ Null # Malformed
  /\ 2 <= Limit
  /\ RecoveryFits \in BOOLEAN

(* handler_wasm.go is "log"; CallHost with a plugin's own host function is *)
(* "custom"; the other names are those of the adapters.                    *)
Adapters == {"http", "dns", "tcp", "smtp", "exec", "custom", "log"}

VARIABLES
  buffers,     \* slot -> content, for every pinned buffer
  registered,  \* userPlugin # nil
  frees,       \* what the host frees besides results: "request"s, the "config"
  hpc,         \* where the host is
  call,        \* the export it called last
  config,      \* the packed config it passes, Null if it is empty
  result,      \* the packed result it got back
  gpc,         \* where the guest is
  adapter,     \* the adapter inside a host call
  request,     \* the packed request of that adapter
  response,    \* the packed response it got
  hostCalls,   \* host calls made in this exported call
  answer,      \* the evidence or manifest about to be packed
  erred,       \* history: the plugin function or json.Marshal returned an error
  panicked     \* history: a panic reached handleExportedCall

setting == <<registered, frees>>
host == <<hpc, call, config, result>>
exchange == <<adapter, request, response>>
outcome == <<answer, erred, panicked>>
vars == <<buffers, setting, host, gpc, exchange, hostCalls, outcome>>

Content(kind, by) == [kind |-> kind, by |-> by]

Calls == {"manifest", "observe"}

(* "evidence" is a Result the plugin built, "failure" a ResultFailure made *)
(* of a Check error, "error" and "panic" Results with an ErrorDetail.      *)
Answers == {"manifest", "evidence", "failure", "error", "panic"}

Contents ==
       {Content("config", "observe")}
  \cup {Content("request", a) : a \in Adapters}
  \cup {Content("response", a) : a \in Adapters \ {"log"}}
  \cup {Content("result", x) : x \in Answers}

-----------------------------------------------------------------------------
(* The memory manager, one buffer at a time. *)

HasRoom == Cardinality(DOMAIN buffers) + 1 <= Limit

PinAt(s, content) ==
  buffers' = [t \in DOMAIN buffers \cup {s} |->
                IF t = s THEN content ELSE buffers[t]]

FreeSlots == Slots \ DOMAIN buffers

\* deallocate and DeallocatePacked: zero and untracked values are ignored.
Without(freed) == Restrict(buffers, DOMAIN buffers \ freed)

\* A fresh instance: the log handler's init and, if the plugin calls it,
\* Register have each sent a message, which stays pinned unless the host
\* frees what it has read.
FreshMemory ==
  {[t \in messages |-> Content("request", "log")] : messages \in
     {m \in SUBSET Slots :
        Cardinality(m) = IF "request" \in frees THEN 0
                         ELSE IF registered THEN 2 ELSE 1}}

Init ==
  /\ registered \in BOOLEAN /\ frees \in SUBSET {"request", "config"}
  /\ buffers \in FreshMemory
  /\ hpc = "idle" /\ call \in Calls /\ config = Null /\ result = Null
  /\ gpc = "idle"
  /\ adapter = Null /\ request = Null /\ response = Null
  /\ hostCalls = 0
  /\ answer = "evidence" /\ erred = FALSE /\ panicked = FALSE

ClearExchange == adapter' = Null /\ request' = Null /\ response' = Null

-----------------------------------------------------------------------------
(* The host. *)

(* The host calls the export allocate for the config of an _observe.  A    *)
(* panic of an export the host called directly is recovered by nobody and  *)
(* traps the instance.  An empty config needs no buffer, and a host may    *)
(* have a length without a pointer.                                        *)
AllocateConfig ==
  /\ hpc = "idle"
  /\ \/ /\ HasRoom
        /\ \E s \in FreeSlots :
             PinAt(s, Content("config", "observe")) /\ config' = s
        /\ hpc' = "configured"
     \/ /\ ~HasRoom
        /\ hpc' = "trapped" /\ UNCHANGED <<buffers, config>>
     \/ /\ config' \in {Null, Malformed}
        /\ hpc' = "configured" /\ UNCHANGED buffers
  /\ UNCHANGED <<setting, call, result, gpc, exchange, hostCalls, outcome>>

StartCall(name) ==
  /\ hpc = IF name = "manifest" THEN "idle" ELSE "configured"
  /\ hpc' = "calling" /\ call' = name
  /\ gpc' = "called"
  /\ hostCalls' = 0 /\ erred' = FALSE /\ panicked' = FALSE
  /\ UNCHANGED <<buffers, setting, config, result, exchange, answer>>

(* The host reads the result, and only then frees what it has to free.     *)
ReadResult ==
  /\ hpc = "returned"
  /\ hpc' = "read"
  /\ UNCHANGED <<buffers, setting, call, config, result, gpc, exchange,
                 hostCalls, outcome>>

FreeResult ==
  /\ hpc = "read"
  /\ buffers' = Without({result} \cup (IF "config" \in frees THEN {config} ELSE {}))
  /\ hpc' = "idle" /\ config' = Null /\ result' = Null
  /\ UNCHANGED <<setting, call, gpc, exchange, hostCalls, outcome>>

(* A trapped instance is replaced by a fresh one of the same module.       *)
Reinstantiate ==
  /\ hpc = "trapped"
  /\ buffers' \in FreshMemory
  /\ hpc' = "idle" /\ config' = Null /\ result' = Null
  /\ gpc' = "idle" /\ ClearExchange
  /\ UNCHANGED <<setting, call, hostCalls, outcome>>

\* A panic that nothing recovers ends the instance.
Trap ==
  /\ hpc' = "trapped" /\ gpc' = "idle"
  /\ UNCHANGED <<buffers, setting, call, config, result, exchange, hostCalls,
                 outcome>>

-----------------------------------------------------------------------------
(* The plugin function inside handleExportedCall. *)

GuestGoto(label) ==
  gpc' = label /\ UNCHANGED <<setting, host, hostCalls>>

NotRegistered ==
  /\ gpc = "called" /\ ~registered
  /\ erred' = TRUE
  /\ GuestGoto("error")
  /\ UNCHANGED <<buffers, exchange, answer, panicked>>

\* A panic unwinds to the deferred function of handleExportedCall.
Panic ==
  /\ GuestGoto("panic")
  /\ panicked' = TRUE
  /\ UNCHANGED <<answer, erred>>

(* _observe copies the config out of linear memory and calls Check, unless *)
(* PackPtrLen panics: a length without a pointer.  _manifest calls         *)
(* Manifest.  The debug message at entry is not sent at the default level  *)
(* of the log handler; at another it is a log request like the plugin's.   *)
EnterPlugin ==
  /\ gpc = "called" /\ registered
  /\ \/ config # Malformed /\ GuestGoto("plugin") /\ UNCHANGED outcome
     \/ config = Malformed /\ Panic
  /\ UNCHANGED <<buffers, exchange>>

(* The plugin uses an adapter, CallHost or slog: the request goes into a   *)
(* pinned buffer (PtrFromBytes), except CallHost's, which PackBytes leaves *)
(* unpinned; beyond the limit PtrFromBytes panics before any defer.        *)
SendRequest(a) ==
  /\ gpc = "plugin" /\ hostCalls < MaxHostCalls
  /\ hostCalls' = hostCalls + 1
  /\ \/ /\ a = "custom"
        /\ adapter' = a /\ gpc' = "host"
        /\ UNCHANGED <<buffers, request, panicked>>
     \/ /\ a # "custom" /\ HasRoom
        /\ \E s \in FreeSlots : PinAt(s, Content("request", a)) /\ request' = s
        /\ adapter' = a /\ gpc' = "host"
        /\ UNCHANGED panicked
     \/ /\ a # "custom" /\ ~HasRoom
        /\ gpc' = "panic" /\ panicked' = TRUE
        /\ UNCHANGED <<buffers, adapter, request>>
  /\ UNCHANGED <<setting, host, response, answer, erred>>

(* The host function: it has read the request, frees it if that is its     *)
(* policy, and returns zero, garbage, or a response in a buffer it has the *)
(* guest allocate.  log_message returns nothing.                           *)
HostReplies ==
  /\ gpc = "host"
  /\ LET kept == IF "request" \in frees THEN Without({request}) ELSE buffers
     IN \/ /\ adapter = "log"
           /\ buffers' = kept
           /\ GuestGoto("plugin")
           /\ ClearExchange
           /\ UNCHANGED outcome
        \/ /\ adapter # "log"
           /\ buffers' = kept
           /\ response' \in {Null, Malformed}
           /\ GuestGoto("reply")
           /\ UNCHANGED <<adapter, request, outcome>>
        \/ /\ adapter # "log" /\ Cardinality(DOMAIN kept) + 1 <= Limit
           /\ \E s \in Slots \ DOMAIN kept :
                /\ buffers' = [t \in DOMAIN kept \cup {s} |->
                                 IF t = s THEN Content("response", adapter)
                                 ELSE kept[t]]
                /\ response' = s
           /\ GuestGoto("reply")
           /\ UNCHANGED <<adapter, request, outcome>>

HostReplyTraps ==
  /\ gpc = "host" /\ adapter # "log"
  /\ LET kept == IF "request" \in frees THEN DOMAIN buffers \ {request}
                 ELSE DOMAIN buffers
     IN Cardinality(kept) + 1 > Limit
  /\ Trap

(* What each adapter does with its two buffers once the host has answered: *)
(* http and dns free the response only; tcp and smtp defer a free of both; *)
(* exec too, but of a null response not at all; CallHost frees nothing.    *)
(* BytesFromPtr panics on a malformed value, and then only the free of the *)
(* request has been deferred; CallHost's UnpackBytes takes it for nil.     *)
(* The mutant forgets a free.                                              *)
Deferred_NotExec(a) == IF a \in {"tcp", "smtp"} THEN {request} ELSE {}
Deferred(a) == IF a \in {"tcp", "smtp", "exec"} THEN {request} ELSE {}

FreedByAdapter(a) ==
  Deferred(a) \cup (IF a = "custom" THEN {} ELSE {response})

AdapterReturns(a) ==
  /\ gpc = "reply" /\ adapter = a
  /\ response # Malformed \/ a = "custom"
  /\ buffers' = Without(FreedByAdapter(a))
  /\ GuestGoto("plugin")
  /\ ClearExchange
  /\ UNCHANGED outcome

AdapterPanics(a) ==
  /\ gpc = "reply" /\ adapter = a
  /\ response = Malformed /\ a # "custom"
  /\ buffers' = Without(Deferred(a))
  /\ Panic
  /\ ClearExchange

(* Check or Manifest returns a value: a nil one is dereferenced to set the *)
(* timestamp or the SDK version, and one json.Marshal rejects is an error. *)
PluginReturnsValue ==
  /\ gpc = "plugin"
  /\ \/ /\ answer' = IF call = "observe" THEN "evidence" ELSE "manifest"
        /\ GuestGoto("pack") /\ UNCHANGED erred
     \/ erred' = TRUE /\ GuestGoto("error") /\ UNCHANGED answer
  /\ UNCHANGED <<buffers, exchange, panicked>>

PluginReturnsNilOrPanics ==
  /\ gpc = "plugin"
  /\ Panic
  /\ UNCHANGED <<buffers, exchange>>

\* Mutant: the Result goes out as Check left it, its error ignored.
PluginReturnsError_Ignored ==
  /\ gpc = "plugin"
  /\ erred' = TRUE
  /\ answer' = IF call = "observe" THEN "evidence" ELSE "manifest"
  /\ GuestGoto("pack")
  /\ UNCHANGED <<buffers, exchange, panicked>>

(* An error of Check becomes a ResultFailure; one of Manifest is returned  *)
(* to handleExportedCall.                                                  *)
PluginReturnsError ==
  /\ gpc = "plugin"
  /\ erred' = TRUE
  /\ IF call = "observe"
     THEN answer' = "failure" /\ GuestGoto("pack")
     ELSE GuestGoto("error") /\ UNCHANGED answer
  /\ UNCHANGED <<buffers, exchange, panicked>>

-----------------------------------------------------------------------------
(* handleExportedCall after the plugin function. *)

\* slog.Error: the message is a buffer the host reads and may free.
LogError(next) ==
  /\ HasRoom
  /\ IF "request" \in frees
     THEN UNCHANGED buffers
     ELSE \E s \in FreeSlots : PinAt(s, Content("request", "log"))
  /\ GuestGoto(next)

\* Mutant: keep trying to log.
ReportError_Retries ==
  /\ gpc = "error"
  /\ \/ LogError("pack") /\ answer' = "error" /\ UNCHANGED <<erred, panicked>>
     \/ ~HasRoom /\ UNCHANGED <<buffers, setting, host, hostCalls, gpc, outcome>>
  /\ UNCHANGED exchange

ReportError ==
  /\ gpc = "error"
  /\ \/ LogError("pack") /\ answer' = "error" /\ UNCHANGED <<erred, panicked>>
     \/ ~HasRoom /\ Panic /\ UNCHANGED buffers
  /\ UNCHANGED exchange

\* What FreeAllTracked leaves; the mutants empty no entry, or keep them all.
AfterFreeAll_Entries == [t \in DOMAIN buffers |-> Null]
AfterFreeAll_Skipped == buffers
AfterFreeAll == [t \in {} |-> Null]

FreeAllTracked ==
  /\ gpc = "panic"
  /\ buffers' = AfterFreeAll
  /\ GuestGoto("recovering")
  /\ UNCHANGED <<exchange, outcome>>

\* The Result the recovery packs; the mutant packs what was being packed.
RecoveredAnswer_Unset == answer
RecoveredAnswer == "panic"

ReportPanic ==
  /\ gpc = "recovering"
  /\ LogError("repack") /\ answer' = RecoveredAnswer
  /\ UNCHANGED <<exchange, erred, panicked>>

\* Mutant: pack the bytes (PackBytes) without pinning them.
ReturnResult_Unpinned ==
  /\ gpc \in {"pack", "repack"} /\ HasRoom
  /\ result' \in FreeSlots
  /\ hpc' = "returned" /\ gpc' = "idle"
  /\ UNCHANGED <<buffers, setting, call, config, exchange, hostCalls, outcome>>

(* PtrFromBytes of the answer: the export returns the packed result.  That *)
(* of an error or a panic is a Result of texts and bytes, which json never *)
(* rejects, so packEvidenceWithError needs no other in its place.          *)
ReturnResult ==
  /\ gpc \in {"pack", "repack"} /\ HasRoom
  /\ \E s \in FreeSlots : PinAt(s, Content("result", answer)) /\ result' = s
  /\ hpc' = "returned" /\ gpc' = "idle"
  /\ UNCHANGED <<setting, call, config, exchange, hostCalls, outcome>>

(* A panic value of any size is in the message and in the result of its    *)
(* recovery; the deferred function itself is recovered by nobody.          *)
RecoveryExceeds ==
  gpc \in {"recovering", "repack"} /\ (~HasRoom \/ ~RecoveryFits)

\* Mutant: nothing recovers.
ReturnPanics_Traps == gpc = "pack" /\ ~HasRoom /\ Trap

(* ... or panics, which only the recovery cannot recover from.             *)
ReturnPanics ==
  /\ gpc = "pack" /\ ~HasRoom
  /\ Panic
  /\ UNCHANGED <<buffers, exchange>>

RecoveryTraps == RecoveryExceeds /\ Trap

Guest ==
  \/ NotRegistered \/ EnterPlugin
  \/ \E a \in Adapters : SendRequest(a) \/ AdapterReturns(a) \/ AdapterPanics(a)
  \/ PluginReturnsValue \/ PluginReturnsNilOrPanics \/ PluginReturnsError
  \/ ReportError \/ FreeAllTracked \/ ReportPanic
  \/ ReturnResult \/ ReturnPanics \/ RecoveryTraps

HostFunction == HostReplies \/ HostReplyTraps

Next ==
  \/ AllocateConfig
  \/ \E name \in Calls : StartCall(name)
  \/ ReadResult \/ FreeResult \/ Reinstantiate
  \/ HostFunction \/ Guest

Spec == Init /\ [][Next]_vars

(* The guest is single-threaded code that runs until it returns, whose     *)
(* plugin functions terminate, and a host function answers.                *)
FairSpec == Spec /\ WF_vars(Guest) /\ WF_vars(HostFunction)

-----------------------------------------------------------------------------
(* Every variable has its type.                                            *)
TypeOK ==
  /\ DOMAIN buffers \subseteq Slots
  /\ \A s \in DOMAIN buffers : buffers[s] \in Contents
  /\ registered \in BOOLEAN /\ frees \in SUBSET {"request", "config"}
  /\ hpc \in {"idle", "configured", "calling", "returned", "read", "trapped"}
  /\ call \in Calls
  /\ config \in Slots \cup {Null, Malformed} /\ result \in Slots \cup {Null}
  /\ gpc \in {"idle", "called", "plugin", "host", "reply", "error", "pack",
              "panic", "recovering", "repack"}
  /\ adapter \in Adapters \cup {Null}
  /\ request \in Slots \cup {Null}
  /\ response \in Slots \cup {Null, Malformed}
  /\ hostCalls \in 0..MaxHostCalls
  /\ answer \in Answers /\ erred \in BOOLEAN /\ panicked \in BOOLEAN

Pins(s, content) == s \in DOMAIN buffers /\ buffers[s] = content

(* What is about to be read is still what was written: the config when     *)
(* _observe starts, a request while the host has it, a response when the   *)
(* adapter gets it and the result when the host does, whatever earlier     *)
(* calls have leaked, freed twice or lost to a recovery, with slots reused.*)
InFlightIntact ==
  /\ gpc = "called" /\ call = "observe" /\ config \in Slots =>
       Pins(config, Content("config", "observe"))
  /\ gpc = "host" /\ adapter # "custom" => Pins(request, Content("request", adapter))
  /\ gpc = "reply" /\ response \in Slots => Pins(response, Content("response", adapter))
  /\ hpc = "returned" => Pins(result, Content("result", answer))

(* The host is told of a panic, in the plugin function or in the packing   *)
(* of its result, exactly when there was one, and of an error otherwise    *)
(* (handleExportedCall, plugin.go:79-119).                                 *)
AnswerMatches ==
  hpc = "returned" =>
    /\ answer = "panic" <=> panicked
    /\ erred /\ ~panicked => answer \in {"error", "failure"}
    /\ answer = "evidence" => call = "observe"
    /\ answer = "manifest" => call = "manifest"

(* "Free all tracked allocations on panic to prevent leaks": the recovery  *)
(* leaves pinned nothing but its own log message and the result.           *)
RecoveryReclaims ==
  hpc = "returned" /\ panicked =>
    \A s \in DOMAIN buffers \ {result} :
      buffers[s] = Content("request", "log") /\ Cardinality(DOMAIN buffers) <= 2

(* What stays pinned between calls is only what no code frees: the config, *)
(* which _observe copies and forgets, the requests of http, dns and log    *)
(* and the responses CallHost got, less what the host chooses to free.     *)
(* tcp, smtp and exec leave nothing on any path, nor do earlier results.   *)
Leaks ==
       {Content("response", "custom")}
  \cup (IF "config" \in frees THEN {} ELSE {Content("config", "observe")})
  \cup (IF "request" \in frees THEN {}
        ELSE {Content("request", a) : a \in {"http", "dns", "log"}})

OnlyKnownLeaks ==
  hpc = "idle" => \A s \in DOMAIN buffers : buffers[s] \in Leaks

(* If the messages of a recovered panic fit the limit, an instance dies    *)
(* only of a panic in the export allocate, which the host called: every    *)
(* other one is recovered, whatever earlier calls have leaked, and the     *)
(* recovery finds room to answer.                                          *)
OnlyAllocateTraps ==
  [][RecoveryFits /\ hpc # "trapped" /\ hpc' = "trapped" => hpc = "idle" \/ gpc = "host"]_vars

(* What the host is promised, read off the buffer whose packed pointer it  *)
(* was given: not the variable answer, but what is pinned in that slot.    *)
Protocol == INSTANCE CallProtocol WITH
  phase <- CASE hpc \in {"idle", "configured"} -> "ready"
             [] hpc = "calling" -> "called"
             [] hpc \in {"returned", "read"} -> "answered"
             [] hpc = "trapped" -> "dead",
  asked <- call,
  worst <- IF panicked THEN "panicked" ELSE IF erred THEN "erred" ELSE "fine",
  told <- IF hpc \in {"returned", "read"} /\ result \in DOMAIN buffers
          THEN buffers[result].by ELSE "nothing"

(* Buffers, leaks, host calls, errors and recoveries included, a call is   *)
(* one question and one true answer, or the death of the instance          *)
(* (handleExportedCall with the exports, plugin.go:21-119).                *)
ImplementsProtocol == Protocol!ProtocolSpec
=============================================================================
