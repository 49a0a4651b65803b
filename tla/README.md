# A TLA+ model of the Reglet plugin SDK

The SDK is a Go library that is compiled, with a plugin, to a WASM module. A host calls the module's exports
(`_manifest`, `_observe`, `allocate`, `deallocate`); the plugin calls the host's functions (HTTP, DNS, TCP, SMTP,
exec, log) through adapters. Everything that crosses the boundary is JSON in linear memory, handed over as a packed
64-bit pointer and length. This directory models what that machinery does with memory, contexts, errors, requests,
registrations and logs, checks it with TLC and proves all but one of the safety properties that hold with TLAPS.

`PROJECT.json` lists the components, runs, mutants, hazards and theorems, and `map` gives the source lines of every
definition that models code.

## 1. Inventory

| Component | State | Operations | What must hold |
|---|---|---|---|
| Memory manager (`internal/abi`) | map of pinned buffers, byte counter, limit, one mutex | `allocate`, `deallocate`, `PtrFromBytes`, `BytesFromPtr`, `DeallocatePacked`, `FreeAllTracked`, `Configure` | the counter is what is pinned, the limit holds, a held buffer keeps its bytes, calls return |
| Exported calls (`application/plugin/plugin.go`, `api.go`) | the registered plugin; during a call, the result | `_manifest`, `_observe`, `handleExportedCall`, `Register` | every call is answered with what happened, panics included; nothing is read after it was freed; leaks are known |
| Host adapters (`infrastructure/wasm`), `CallHost` (`bridge.go`) | none beyond a request and a response in memory | one host call each | buffers are freed on every path where the code means to; the request is what the caller asked for |
| Context wire format (`internal/wasmcontext`) | the current context | `ContextToWire`, `WireToContext`, `Set`/`Get`/`ResetContext` | a crossing neither extends nor loses a deadline, a cancellation or a request id |
| Operation registry and catalog (`op.go`, `service.go`, `definition.go`) | types per field name; services and their operations | `RegisterOp`, `RegisterService`, `RegisterHandler`, `GetHandler`, `Manifest` | the manifest tells the truth about the handlers; what was registered stays served |
| Operation handlers (`service.go`, `client.go`, `testing.go`) | none | a wrapped method, `runExampleTest` with its comparison | a method's outcome reaches the host unchanged in kind; an example test decides as the host sees it |
| Network checks (`net`), config helpers (`application/config`) | none | `RunHTTPCheck`, `RunDNSCheck`, `RunTCPCheck`, `RunSMTPCheck` | success means that it was answered; a bad config never leaves; requests and evidence say what was configured and found |
| Clients (`exec`, options of `net` and `domain/entities/config.go`) | a config built from options | the `With*` options, `exec.Run` | the last valid option wins; a failed command never looks like one that ran |
| Log (`log`) | the derived handlers | `NewHandler`, `WithAttrs`, `WithGroup`, `Handle` | every record is told once, in order, at the level that was configured |
| Risk analysis (`domain/entities/risk.go`) | none | `Analyze` | the level is the worst that was granted |
| Error details (`domain/errors`) | none | `ToErrorDetail`, `Timeout`, `Unwrap` | wrapping does not change what is reported |
| Schemas, stubs of native builds, test doubles, scripts | none | see `components` | not modelled |

Interactions: an exported call runs the plugin, which calls adapters, which call the host, which re-enters the guest
through `allocate` for its response. All of them share the memory manager. A panic anywhere below
`handleExportedCall` unwinds to its recovery, which frees *all* tracked memory, logs and packs a result. `_observe`
has the last word on what a check or a handler returned.

What is hard: the recovery unpins buffers that others may hold; addresses are reused, and `deallocate` knows a buffer
by its address only; the packing of a result, the log of an error and the recovery itself may all hit the limit;
buffers leak over calls until it does; a context is converted field by field while the clock runs; the registries are
locked per access, and registrations interleave; numbers of a config have any Go type; options undo one another;
two consumers of one handler judge it in different orders and by different values.

## 2. Modules

| Module | Models | Checked by | Proofs |
|---|---|---|---|
| `AbiMemory` | the memory manager, byte by byte, under interleaved goroutines | `MCAbiMemory`: `AbiMemory_manager`, `_pinning` | `AbiMemoryProofs` |
| `PrivateBuffers` | abstract: what the manager promises its users | `AbiMemory!ImplementsBuffers` | `AbiMemoryProofs` |
| `ExportedCall` | a host and one instance: exported calls, adapters, `CallHost`, log handler, their buffers | `MCExportedCall`: `ExportedCall_safety`, `_liveness` | `ExportedCallProofs` |
| `CallProtocol` | abstract: what a host sees of an exported call | `ExportedCall!ImplementsProtocol` | `ExportedCallProofs` (its safety) |
| `ContextPropagation` | contexts that cross the boundary | `MCContextPropagation`: `ContextPropagation_crossings` | `ContextPropagationProofs` |
| `Registration` | the operation registry and the catalog | `MCRegistration`: `Registration_catalog` | `RegistrationProofs` |
| `Checks` | the four network checks, config to evidence | `MCChecks`: `Checks_outcomes`, `_timeout`, `_address` | `ChecksProofs` |
| `HostClients` | options of all clients; `exec.Run` to the host and back | `MCPluginSide`: `PluginSide`; `HostClients_timeout` | `PluginSideProofs` |
| `ErrorChains` | `ToErrorDetail` over chains of errors | `MCPluginSide` | `PluginSideProofs` |
| `Handlers` | one request to one operation, and its two consumers | `MCPluginSide` | `PluginSideProofs` |
| `ExampleOutput` | how an example's expected output is compared, against a reference | through `Handlers` | |
| `Logging` | the slog handler | `MCPluginSide`; `Logging_attributes` | `PluginSideProofs` |
| `RiskAnalysis` | `Analyze` over growing grants | `MCPluginSide` | `RiskAnalysisProofs` |

`Induction` models nothing: it holds the lemmas about loops (induction over numbers, folds, joined lists) that
`ChecksProofs` and `RiskAnalysisProofs` cite.

Operators whose names end in `_Something` (`UnpackPtr_LowHalf`) are mutants: plausible bugs in the operator of the
same name. No definition uses them. For each property of each passing run `PROJECT.json` names one that TLC shows to
violate it.

### AbiMemory and PrivateBuffers

`ptrs`, `totalAllocated`, `maxTotalAllocations` are the fields of `memoryManagerState`; `lock` is its embedded mutex;
`mem` is linear memory, where a byte is the name of the goroutine that wrote it. `pc`, `arg`, `packed` and `got` are
the locals of the goroutine's call. `Lock` is an action of its own; each critical section is one action that ends with
the deferred unlock. `PtrFromBytes` is three steps (call, `allocate` under the mutex, `copyToMemory` outside it), as in
the code, so a recovery or a free of another goroutine can come between the pinning and the copy. Packing is
arithmetic in the radix `Word` (2^32 in the code). Go's allocator and collector are external: `make` picks any
unpinned region, and `RuntimeReuses` overwrites what is not pinned. `recovered` and `lost` are history variables.

`PrivateBuffers` is a store in which a client puts a payload, gets its own bytes and takes it out, with no addresses,
no mutex and no separate copy; a client that fails clears the store, which ends every promise but the limit. The
refinement mapping reads the payloads off `pc` and `arg`, and the limit and the use off the manager's fields: the
allocation under the mutex is the `Put`, and the copy is a stutter that the later `Get` must not be able to tell.
A free that left its bytes counted, or a read of another goroutine's bytes, is no step of the store.

### ExportedCall and CallProtocol

A buffer takes one slot and one unit of the limit; its content says what it is and whose, so that "freed and reused"
differs from "intact". `hpc` is the host's control (idle, configured, calling, returned, read, trapped), `gpc` the
guest's inside `handleExportedCall`. `SendRequest`, `HostReplies`, `AdapterReturns` and `AdapterPanics` are one host
call; `Deferred` and `FreedByAdapter` say which of the two buffers each adapter frees on which path. `ReportError`,
`FreeAllTracked`, `ReportPanic`, `ReturnResult`, `ReturnPanics` and `RecoveryTraps` are the rest of `handleExportedCall`
and its deferred function, each with its own log message and its own way to hit the limit. What the host frees besides
results is chosen at the start (`frees`), for the documentation says two things; a config may be a buffer, empty, or a
length without a pointer, on which `EnterPlugin` panics, and a response zero, malformed or a buffer. The fallback of
`packEvidenceWithError` (`plugin.go:124-130`) is left out: JSON refuses none of the error Results it is called with. A
panic in the export `allocate`, or in the recovery, traps the instance, and the host makes a fresh one.

`CallProtocol` is one question and one answer, the worst of what happened, or the death of the instance. What it is
told is read off the *buffer* in the slot the host was given, not off the variable `answer`, so that the mapping
includes that the result has not been freed or overwritten.

### ContextPropagation

A context is a deadline, whether it is done, and a request id. `ContextToWire` is two actions, since it reads the
deadline and the done channel one after the other; the clock, the timer and a cancel can come in between and while the
wire is in flight. `Receive` is `WireToContext` under a parent of the receiver's. The first wire may be one that the
host makes with a timeout and no deadline (`HostWires`, `readAt = ByHost`), which `ContextToWire` never does; its
timeout counts from its arrival (`HostsDeadline`). `bound`, `wasDone` and `readAt` are history variables.

### Registration

`opRegistry` is the map of the same name; `services` is `PluginDefinition.services`. `call` is where each caller is
inside `RegisterService`: `ExtractOperation` handles one field (one read lock), `RegisterOperation` one turn of the
loop (method lookup, signature check, `RegisterHandler` under the write lock). A service struct is what reflection
sees of it. `SnakeCase` stands for `toSnakeCase`, which need not be injective. `NoType` is the nil `reflect.Type` that
`RegisterOp` stores for an interface; a typed field with an output of that kind panics halfway (`WrapPanics`). The
operations of a field that is a pointer to `Op`, or of a type that embeds one, pass `isOpType` but not `isTypedOp`
and take the legacy path. Two fields of one operation name replace each other silently, which nothing forbids;
`RegisteredStays` says that what is served then is still one registration of that name as a whole (`AsksFor`).

### Checks

`Parse`, one or two `HostReplies` (an address lookup is A, then AAAA), `Observe`. A value of a config is a Go value of
some type; numbers are counted in halves, so that a float may have a fraction, which `GetInt` truncates. What
becomes of a float beyond an int64 Go leaves to the build: the least int64, or for one above it the greatest
(`TooLarge`, a constant).
`ThroughDuration` is the way of a timeout through `time.Duration`, an int64 of nanoseconds that wraps at `HalfRange`.
`Request` is what the adapter sends, `Undialable` the hosts that `net.SplitHostPort` refuses; `HTTPResult`, `Page`,
`DNSResult`, `OfFamily` (the loop over the
records, a fold of `Filtered`) and `ConnectionResult` are what each check makes of the answers, `AdapterFails` what the
adapters report as an error.

### HostClients, ErrorChains, Handlers, ExampleOutput, Logging, RiskAnalysis

None of these reads what another one writes; `MCPluginSide` runs each by itself, the others at rest (`part`).
`HostClients`: `Give` applies one option to what the ones before it left; `Adapter` is what a constructor passes on;
`Run` and `HostAnswers` are a command, with durations in half seconds; an injected runner returns any combination of
output and error; `Bound` is what the option, its default and the context ask for, kept in the history variable `asked`,
in the milliseconds of the wire. `ErrorChains`: an error is a sequence of layers that grows outwards; `ToErrorDetail` is
evaluated after each wrap. `Handlers`: `Dispatch` parses the config, a method returns anything its signature allows or
panics, `TypedResult` converts it, `Observed` is what `_observe` makes of it and `Exported` what the host then reads:
JSON's version of the data, or, if JSON refuses something in the Result (`refused`: a NaN, a channel), an error of type
`internal`; `ErrorExamplePasses` and `OutputExamplePasses` are `runExampleTest`. `ExampleOutput`: `DeepEqual` and
`VerifyOutput` compare JSON with Go values of other types, nil slices and maps among them; an expected null is an empty
map (`Demanded`). `ThroughJSON` is what the host gets of such values (of a nil one, null), and `Excerpts`, the
reference, is a JSON value less some keys of its objects, in which, for a legacy method only, a null may stand for an
empty list or object. `Logging`: handlers are values that derive from one another; `Log` asks `Enabled` and hands on to
`Handle`; `Means` says which kinds of attribute a type on the wire tells of, independently of `WireType`.
`RiskAnalysis`: `Factors` in the order they are added, folded by `Raised`.

## 3. Runs

| Run | Instance | Shows |
|---|---|---|
| `memory_manager` | 2 goroutines, 3 bytes, payloads to 2 bytes, default limit 2, limits -1 (ignored) and 1 | exact accounting, limit, intact buffers, round trip; every call returns; the manager implements `PrivateBuffers` |
| `memory_pinning` (violation) | 2 goroutines, 2 bytes, payloads of 1 | finding 1 |
| `calls_safety` | 6 slots, limit 5, 3 host calls per exported call, all four host policies | in-flight buffers intact, right answers, reclamation, only known leaks, only `allocate` traps |
| `calls_liveness` | 4 slots, limit 3, 2 host calls, panics of any size | the calls implement `CallProtocol`, answered or dead in the end |
| `context_crossings` | clock 0..5, 2 ticks per millisecond, 2 request ids, wires of the host's | deadlines, timeouts (exact to the millisecond), done and ids over any number of crossings; a deadline ends its holders for good |
| `registration_catalog` | 2 callers, 4 services, 5 `RegisterOp` calls, two with interfaces | the manifest agrees with the methods; the registered stays served, by one registration as a whole |
| `checks_outcomes` | `MCChecks`: every config around every edge, every reply | success means answered; bad configs stay home; requests as configured; address families; previews |
| `checks_timeout` (violation) | fewer values | finding 2 |
| `checks_address` (violation) | fewer values | finding 3 |
| `plugin_side` | chains of up to 4 layers; all of `Handlers`, values two deep; 2 options and one command; 3 handlers and 3 records; 2 rules each for network and files | errors, outcomes, examples, options, commands, logs, risk |
| `exec_timeout` (violation) | 1 option | finding 4 |
| `log_attributes` (violation) | 3 handlers, 2 records | finding 5 |

Why the bounds are enough. Memory: two buffers next to each other or one of two bytes, reuse of an address by another
length, a limit lowered below what is pinned and a limit hit all occur within three bytes, and the interference of a
third goroutine is that of the second; the rest is proved. Calls: leaks fill five buffers over several exported calls,
so the limit is hit at every point (config, request, response, error log, result), and slots are reused after every kind
of free; one slot more than the limit suffices for reuse, since pinned buffers never exceed it. Context: five ticks hold
a deadline that passes before, during and after a crossing, with a remainder below a millisecond. Registration: the four
structs meet in service name, in operation name, in field name across services, and one fails half-way. Checks: ports at
both ends of their range with and without a fraction, timeouts that fit a Duration and that do not, floats beyond an
int64 on both sides, previews of none, all and all but one byte; an int64 is scaled to 2^21 nanoseconds and a
millisecond to ten of them, which keeps a wrap within TLC's integers; the proofs are for any scale. Error chains: a
detail, a type that asks its `Err`, a wrap and a cause fit in four layers; more repeat them. Options: an invalid one
after a valid one needs two. Logging: a record before, between and after a derivation (the record of `init` is one of
the three). Risk: a wildcard in one rule and none in the other needs two rules, in both orders.

Symmetry is used in safety runs only, over slots or callers, which no definition distinguishes. Deadlock is checked
except in `Checks` and the plugin side, which model one request, one error or one list of options that ends.

Fairness. `AbiMemory`: weak fairness of a goroutine inside a call (Go runs it), strong fairness of its `Lock` (Go's
mutex hands over to a waiter that has starved for a millisecond); none of starting a call, of plugin code or of the
collector. `ExportedCall`: weak fairness of the guest, which is single-threaded code whose plugin functions are
assumed to terminate (`MaxHostCalls` bounds their host calls), and of the host function it waits for; none of the
host's next call. `ContextPropagation`: the clock goes on and a timer that is due fires, both of the Go runtime;
nobody has to cancel, to send or to receive.

## 4. Findings

1. **A stale free after a recovery unpins a live buffer** (`memory_pinning`, `abi.go:168`, against `abi.go:75-76`).
   `FreeAllTracked` unpins the buffers of every goroutine. One that had a buffer frees it later by its address, which a
   new buffer of another goroutine may have by then. On a single-threaded instance this needs a goroutine that outlives
   the call that panicked.
2. **`timeout_ms` never reaches the host** for HTTP and DNS (`checks_timeout`, `http_adapter.go:56-62`,
   `dns_adapter.go:106-116`, against `net/http.go:43` and `net/dns.go:40`).
3. **A TCP check of an IPv6 address never reaches the host** (`checks_address`, `net/tcp.go:80`, against
   `net/tcp.go:42`): host and port are joined with `%s:%d` and split again.
4. **The timeout of a command is enforced by nobody** (`exec_timeout`, `exec_adapter.go:30`, against
   `exec/README.md:77` and `exec.go:95`): the wire request has no field for it, and under a context without a deadline
   says 0, no bound. `TimeoutEnforced` asks for the bound in the wire's milliseconds, so that the seconds `exec.Run`
   computes would fail it as well.
5. **Attributes given to `With` are dropped** (`log_attributes`, `log/handler.go:59`, against `log/handler.go:58`).

Noted while modelling, visible in the definitions, without a run of their own:

- `_observe` never frees the config and `CallHost` never frees the response, although `internal/abi/README.md:194` shows
  the guest freeing what it is passed, and the HTTP and DNS adapters never free their requests, against `abi.go:223-224`
  (all members of `ExportedCall!Leaks`);
- an error of `Check` reaches the host as a failure without an `ErrorDetail` (`plugin.go:64`), where the comment at
  `plugin.go:78` speaks of structured evidence "on any error"; a panic has one;
- the context that `_observe` puts back is the one it has read, so that the store holds the background throughout;
  `WireToContext` is called by tests only, although `wasmcontext.go:22` says that the host sets the context;
- two fields of one snake-case name overwrite each other and `RegisterService` returns nil (`definition.go:147`,
  `service.go:36`);
- an A check fails if only the AAAA lookup does (`dns_adapter.go:49-52`, `net/dns.go:43`);
- `exec.Run` sets whole seconds (`exec.go:116`), which `exec/README.md:99` says the field has and `command_runner.go:20`
  denies ("milliseconds"), and an empty environment is sent as none (`HostClients!Wire`);
- an example of a legacy method passes with a nil slice or map where `[]` or `{}` is expected, and the host reads `null`
  (`testing.go:130-154`); it passes with a NaN or a channel beside the keys that are compared, and the host reads an
  error of type `internal` (`plugin.go:107-114`); `ExamplesAgreeWithHost` allows a legacy method these two differences
  and no other, and a typed one, whose output has been through JSON before, none;
- `log/serialization.go:25` lists the types of an attribute without `json`, `uint64`, `duration` and `group`, which
  `toLogAttrWire` sends (`Logging!WireType`);
- the transport and resolver adapters drop redirects, retries and TLS settings (`HostClients!Adapter`);
- grants for a key-value store are no risk (`RiskAnalysis!Factors`);
- an example of a legacy method with a `[]string`, or with an unsigned number, in its data fails although the host
  sees what was expected (`ExampleOutput!DeepEqual`); `ExamplesAgreeWithHost` claims the converse for typed ones only.

## 5. Proofs

Assumptions: those of the modules (`SizesAssumption`, `NamesAssumption`, `ConstantsAssumption`, `TimeAssumption`,
`RegistrationAssumption`, `ChecksAssumption`, `ClientAssumption`, `DepthAssumption`, `NoneAssumption`,
`LogAssumption`, `RiskAssumption`), which TLC evaluates on each run. Nothing else is assumed; goroutines, bytes,
slots, services, callers, ticks, ports, records of an answer, options, layers, messages, handlers of a log and rules
of a grant are arbitrary in number.

`AbiMemoryProofs`. `TypeOK` is inductive only together with `LocalsOK`: a stale packed value must still denote a region
of linear memory, or a free could not be typed (`TypeCorrect`). `Accounting` needs `NoOverlap`: the counter is a
cardinality, `PinAdds` and `PinRemoves` compute it for one buffer, and a free subtracts the length of its buffer only
because no other overlaps it, so the clamp at zero never acts (`AccountingCorrect`). `LimitHolds` is an action property
and follows from `Accounting` before and after the step. `HandlesIntact` and `RoundTripCorrect` need the strengthening
that the buffers held by two goroutines are different until a recovery (`HandleInv`): then a free touches only the
holder's, and a copy, which runs outside the mutex, writes only its own bytes. `PackUnpack` and `Unpacked` give the
arithmetic of packed values. `ManagerImplementsBuffers`, in the same module, maps every action to a step of the store or
a stutter. The invariant (`RefInv`) is `HandleInv` with what the mapping reads (`MapInv`): only a goroutine that has
read holds bytes, and the limit came from a `Configure`. A free must take off exactly what the payload counted
(`DeallocateSubtracts`), which is where the absence of overlaps is used again.

`ExportedCallProofs`. One control invariant types the pair of program counters (`TypeInv`); on it stand `InFlightInv`
(what is about to be read is pinned: only the buffers in flight matter, so nothing need be known of the leaked ones),
`AnswerInv` (a panic is recorded exactly while the guest unwinds), `RecoveryInv` (nothing but one log message is pinned
until the result is), and `LeakInv`: every pinned buffer is accounted for, a known leak or in the hands of the call
(`Accounted`; `Settled` away from an exchange). `TrapsCorrect` uses that two messages fit the limit, by
`RecoveryFits`. `CallsFollowProtocol` maps each step to one of `CallProtocol`.

`ContextPropagationProofs`. The inductive invariant adds what the wire says of the context it was made from (`WireInv`):
its timeout is none without a deadline, and otherwise the whole milliseconds that were left (`TimeoutMsFits`, by
`DivTimes`), unless the host made it. From it `DeadlinesKept` and `TimeoutsFit`; `DoneCrosses` and `RequestIDsKept` are
the action properties that follow for a `Receive` step.

`RegistrationProofs`. The inductive invariant ties each `OpInfo` a call holds to its field, the number of operations it
has registered to the catalog, and each catalog entry to a struct and a field of it (method, typed or not) whose method
has the types the entry shows; `Handlers` computes what `RegisterHandler` leaves of the others. `CatalogCorrect` and
`ServedStays` are its two readings.

`Induction`. The library's theorems of induction take an operator as a parameter, which the provers cannot instantiate,
but that a well-founded relation has minimal elements (`WFMin`) is a fact about sets, and so is that the strict
inclusion of finite sets is well-founded. From the two, `Least`: a set of numbers has a least one; from it induction
over a *set* of numbers (`Induct`, `InductTo`), and that a function defined step by step exists (`Recursion`). The folds
of the community modules are recursive functions over the subsets of a domain: `FoldExists` shows that there is such a
function, hence that the `CHOOSE` in a fold picks one, and `FoldSteps` that its values are those of a loop over the
sequence. `FlattenSteps`, `FlattenAppend` and `FlattenRange` say the same of `FlattenSeq`, and `MarkedConcat` and
`MarkedAppend` count the positions that have a property.

`ChecksProofs`. `Shaped` types a check in progress, `Progress` ties its result to the replies so far and says how it
may have ended (`Ended`). `SuccessCorrect` and `BadConfigCorrect` follow when `_observe` has run;
`RequestsCorrect` needs that a Duration is the identity within its range (`ThroughDurationExact`), and a float that
does not fit an int64 must not become a valid port, whichever way the build converts it (`Converted`).
`AddressesCorrect` speaks of the loop over the records of an answer: `FilteredSteps` is that loop, and `KeepsFamily`,
by induction along it, says that what is kept has each form of address of the family as often as the answer has it.

`RiskAnalysisProofs`. The invariant (`RiskInv`) is that the report is that of the grants. `LevelIsMax` unfolds the
loop of `addFactor`: the level is at least every factor and is one of them, or none; `FactorsAre` says which factors a
grant set has, whatever the order of its rules. `LevelCorrect` puts the two together. `RiskOnlyGrows` is an action
property: a grant adds factors and takes none away, counted with repetitions (`PartsGrow`, `FactorsGrow`), wherever
in the list of factors they come.

`PluginSideProofs`, part by part:

- `ErrorChains`. `ChainInv` says that the detail is that of the chain and that the outermost layer of each kind that is
  looked for exists (`HasFirst`), so that a wrap, which adds a layer further out, finds the same one (`EntitiesSurvive`,
  `WrapsKeepDetail`). That a timeout is reported only where a layer says so needs more: layers wrap, down to a cause,
  and no error is deeper than the bound, so the detail is always that of a layer there is (`SomethingReported`, with the
  three ways `Reported`) and `Timeout` asks one further in (`TimeoutsCorrect`).
- `Handlers`. `HandlerInv` says what is set at which point of a request: nothing is returned before the method is
  done, and a typed handler never has an error of its own. `TypedResultIs` computes what `wrapTypedMethod` makes of an
  output and an error, and has nothing JSON refuses, so that `Exported` keeps its status and type; `OutcomesCorrect` is
  that the host sees it.
- `HostClients`. `ConfigInv` says of each setting that it is what its last valid option says (`Meant`, by cases on
  whether the newest option is valid); `RunInv` follows a command.
- `Logging`. `ToldInOrder` asks for an order-preserving bijection between messages and the records to be told. `LogInv`
  adds that every derived handler has its configured level; a new message extends the bijection by the newest record
  (`OneMore`), and a record that is not told leaves it alone; that each attribute has a type that means its kind is
  `WireTypeMeans` (`LogsCorrect`).
- Together. `PartsRun`: a behaviour of `MCPluginSide` is one of each part, so what is proved of a part by itself holds
  in the run that checks it. `PluginSideTyped` is its type invariant.

Only model-checked: `CallsReturn`, `DeadlineEndsForGood` and the `Responsive` part of `ImplementsProtocol`, since
liveness under fairness is out of the prover's reach; and `ExamplesAgreeWithHost`. That one has no parameter but
`None`: its values are fixed and finite, and TLC visits all of them, so a proof would add only the message set to what the
run shows. The properties of the runs that end in a violation are refuted, not proved.

## 6. Not modelled

Contents of JSON, messages, codes and metadata; headers, TLS data and the `is_timeout` and `is_not_found` flags of the
checks; injected clients and dialers; which examples are run or skipped; adapter stubs of native builds; schema
generation and field names of the manifest; the formats of log values; `WithSource`, which sets a field that nothing
reads; build scripts and test doubles. `UnpackBytes` aliases the response only until `json.Unmarshal` has copied it,
and nothing runs in between. `GetFloat`, `GetStringSlice` and `GetBool` read a value without a decision that a
property could be about. Rounding of numbers beyond 2^53 through JSON is not modelled.

## 7. Plan

Done: memory, calls, contexts, registration, checks, clients, errors, handlers, logging and risk, two abstract
specifications with their refinements, and the theorems above, which leave one safety property to TLC. Left, in this
order:

1. Headers of a request (`parseHeaders`) and the flags of a failed lookup, each against what the documentation of its
   check says.
2. The store of the current context as state of `ExportedCall`, composed with `ContextPropagation`. Today it would show
   nothing: no code outside tests puts anything but the background into it.
3. The selection of examples (`SkipExamples`, `MockClientFactory`) with the handlers they run against.
4. A proof of `ExamplesAgreeWithHost` over values of any depth: `DeepEqual` and `ThroughJSON` as recursive functions on
   the depth of a value, with `Recursion` for their existence.
