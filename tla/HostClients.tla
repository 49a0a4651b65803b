----------------------------- MODULE HostClients -----------------------------
(***************************************************************************)
(* The clients of host functions that plugin code sets up with functional  *)
(* options: a command (exec/exec.go), an HTTP transport (net/http.go), a   *)
(* DNS resolver (net/dns.go) and the SDK's own settings                    *)
(* (domain/entities/config.go).  Options are applied in the order they are *)
(* given, each on what the ones before it left.  Of a command the whole    *)
(* Run is modelled, with the host function its adapter calls               *)
(* (infrastructure/wasm/exec_adapter.go).                                  *)
(*                                                                         *)
(* Durations are counted in half seconds, so that less than a second is    *)
(* something; a file, an environment, a TLS configuration or a level is    *)
(* given or not.                                                           *)
(***************************************************************************)
EXTENDS Integers, Sequences

CONSTANTS
  Unset,        \* nil, the empty string, or false
  Durations,    \* the durations an option may be given
  Counts,       \* the numbers of redirects or retries
  MaxOptions    \* bounds the options given to one client

ASSUME ClientAssumption ==
  /\ Durations \subseteq Int /\ Counts \subseteq Int /\ MaxOptions \in Nat
  /\ Unset \notin {"mock", "host", "null", "malformed", "marshal", "output"}

Second == 2

VARIABLES
  kind,      \* whose options these are: "exec", "http", "dns" or "sdk"
  given,     \* history: the options given so far
  config,    \* what they have been applied to
  stage,     \* "options", "calling" or "returned"
  asked,     \* history: the bound in milliseconds that options and context put on
             \* the command, or Unset: the request has its own, or none was run
  sent,      \* the ExecRequest sent to the host, or Unset
  answer,    \* history: what the host answered, or Unset
  outcome    \* what Run returned, or Unset

call == <<stage, asked, sent, answer, outcome>>
clientVars == <<kind, given, config, call>>

-----------------------------------------------------------------------------
Default(k) ==
  CASE k = "exec" -> [runner |-> "host", workdir |-> Unset, env |-> Unset,
                      timeout |-> 30 * Second]
    [] k = "http" -> [timeout |-> 30 * Second, maxRedirects |-> 10, tlsConfig |-> Unset]
    [] k = "dns"  -> [nameserver |-> Unset, timeout |-> 5 * Second, retries |-> 3]
    [] k = "sdk"  -> [timeout |-> 30 * Second, retries |-> 3,
                      enableLogging |-> "set", logLevel |-> "set"]

ValuesOf(field) ==
  CASE field = "timeout" -> Durations
    [] field \in {"maxRedirects", "retries"} -> Counts
    [] field = "runner" -> {Unset, "mock"}
    [] field = "env" -> {Unset, "empty", "set"}
    [] OTHER -> {Unset, "set"}

\* The mutant takes a zero timeout for one.
Accepted_Zero(field, value) ==
  CASE field \in {"timeout", "maxRedirects", "retries"} -> value >= 0
    [] field = "runner" -> value # Unset
    [] OTHER -> TRUE
Accepted(field, value) ==
  CASE field = "timeout" -> value > 0
    [] field \in {"maxRedirects", "retries"} -> value >= 0
    [] field = "runner" -> value # Unset
    [] OTHER -> TRUE

ClientInit ==
  /\ kind \in {"exec", "http", "dns", "sdk"}
  /\ given = <<>> /\ config = Default(kind)
  /\ stage = "options"
  /\ asked = Unset /\ sent = Unset /\ answer = Unset /\ outcome = Unset

(* One more With* option.                                                  *)
Give(field, value) ==
  /\ stage = "options" /\ Len(given) < MaxOptions
  /\ given' = Append(given, [field |-> field, value |-> value])
  /\ config' = IF Accepted(field, value)
               THEN [config EXCEPT ![field] = value] ELSE config
  /\ UNCHANGED <<kind, call>>

\* What NewTransport and NewResolver pass to the adapter they return: retries,
\* redirects and TLS are lost; NewConfig and applyRunOptions return all of it.
\* The constructors put their own default in the place of a zero timeout.
Adapter(k, settings) ==
  LET timeout == IF settings.timeout = 0 THEN Default(k).timeout ELSE settings.timeout
  IN  CASE k = "http" -> [timeout |-> timeout]
        [] k = "dns"  -> [nameserver |-> settings.nameserver, timeout |-> timeout]
        [] OTHER      -> settings

-----------------------------------------------------------------------------
\* Contexts of Run: one without a deadline, one with, BoundedMs from now, and
\* one whose deadline is in a year JSON has no form for.
Contexts == {"background", "bounded", "unencodable"}
BoundedMs == 2000

Requests == [dir : {Unset, "asked"}, env : {Unset, "empty", "asked"}, timeout : {0, 7}]

\* The options fill in what the request leaves open, its timeout in seconds.
Filled(req) ==
  [dir |-> IF req.dir = Unset THEN config.workdir ELSE req.dir,
   env |-> IF req.env = Unset THEN config.env ELSE req.env,
   timeout |-> IF req.timeout = 0 THEN config.timeout \div Second ELSE req.timeout]

\* The wire has no timeout but the context's, in milliseconds or 0 for none,
\* and leaves out an empty list.
Wire(req, ctx) ==
  [dir |-> req.dir,
   env |-> IF req.env = "empty" THEN Unset ELSE req.env,
   timeoutMs |-> IF ctx = "bounded" THEN BoundedMs ELSE 0]

\* What a request that has no timeout is asked to be bounded by: the option or
\* its default, or the context where that ends earlier.
Bound(req, ctx) ==
  LET timeoutMs == (config.timeout * 1000) \div Second
  IN  IF req.timeout # 0 THEN Unset
      ELSE IF ctx = "bounded" /\ BoundedMs < timeoutMs THEN BoundedMs ELSE timeoutMs

Failed(error) == [output |-> Unset, error |-> error]

(* Run up to the host function; another runner than the adapter does as it *)
(* likes, both an output and an error or neither of them included, and is  *)
(* asked instead of the host.                                              *)
Run(req, ctx) ==
  /\ kind = "exec" /\ stage = "options"
  /\ asked' = Bound(req, ctx)
  /\ \/ /\ config.runner = "mock"
        /\ stage' = "returned" /\ sent' = Unset
        /\ outcome' \in [output : {Unset, "mock"}, error : {Unset, "mock"}]
     \/ /\ config.runner = "host" /\ ctx = "unencodable"
        /\ stage' = "returned" /\ sent' = Unset /\ outcome' = Failed("marshal")
     \/ /\ config.runner = "host" /\ ctx # "unencodable"
        /\ stage' = "calling" /\ sent' = Wire(Filled(req), ctx) /\ outcome' = Unset
  /\ UNCHANGED <<kind, given, config, answer>>

\* What the host may answer: nothing, something that is no ExecResponse, or
\* an ExecResponse with an error or not, whatever output comes with it.
Answers == {"null", "malformed", "output", "error", "output and error"}

\* The mutant returns the output of a command that the host says has failed.
Returned_OutputFirst(reply) ==
  CASE reply \in {"null", "malformed"} -> Failed(reply)
    [] reply = "error" -> Failed("host")
    [] OTHER -> [output |-> "host", error |-> Unset]
Returned(reply) ==
  CASE reply \in {"null", "malformed"} -> Failed(reply)
    [] reply \in {"error", "output and error"} -> Failed("host")
    [] OTHER -> [output |-> "host", error |-> Unset]

HostAnswers(reply) ==
  /\ stage = "calling"
  /\ stage' = "returned" /\ answer' = reply /\ outcome' = Returned(reply)
  /\ UNCHANGED <<kind, given, config, asked, sent>>

ClientNext ==
  \/ \E field \in DOMAIN config : \E value \in ValuesOf(field) : Give(field, value)
  \/ \E req \in Requests, ctx \in Contexts : Run(req, ctx)
  \/ \E reply \in Answers : HostAnswers(reply)

ClientSpec == ClientInit /\ [][ClientNext]_clientVars

-----------------------------------------------------------------------------
(* The options the documentation calls valid: "a zero or negative duration *)
(* is ignored", "a negative value is ignored", a nil runner is ignored.    *)
Valid(option) ==
  CASE option.field = "timeout" -> option.value \notin {d \in Durations : d <= 0}
    [] option.field \in {"maxRedirects", "retries"} -> option.value \in Nat
    [] option.field = "runner" -> option.value = "mock"
    [] OTHER -> TRUE

(* Whatever the order of the options, each setting is what its last valid  *)
(* option says, its default if it has none; and what reaches the adapter   *)
(* of it is that: an option that was ignored undoes nothing, and no client *)
(* is left without a timeout.                                              *)
LastValidWins ==
  \A field \in DOMAIN config :
    LET valid == {i \in DOMAIN given : given[i].field = field /\ Valid(given[i])}
        meant == IF valid = {} THEN Default(kind)[field]
                 ELSE given[CHOOSE i \in valid : \A j \in valid : j <= i].value
        adapter == Adapter(kind, config)
    IN  /\ config[field] = meant
        /\ field \in DOMAIN adapter => adapter[field] = meant
        /\ field = "timeout" => adapter[field] > 0

(* Without an injected runner Run returns an output or an error, never both*)
(* or none, and the host's output only if the host was called and told of  *)
(* no error; with one it returns what that does, and the host is not called*)
CommandOutcome ==
  stage = "returned" =>
    /\ config.runner = "host" => (outcome.output = Unset) # (outcome.error = Unset)
    /\ outcome.output = "host" <=> answer = "output"
    /\ "mock" \in {outcome.output, outcome.error} => config.runner = "mock"
    /\ config.runner = "mock" => sent = Unset /\ answer = Unset

(* "Use Go's context or the WithExecTimeout option to enforce timeouts":   *)
(* the host is told of the bound they put on a command, whichever ends     *)
(* first, in the milliseconds of the wire; there always is one, the        *)
(* option's default.  The code sends the context's and no other.           *)
TimeoutEnforced == sent # Unset /\ asked # Unset => sent.timeoutMs = asked
=============================================================================
