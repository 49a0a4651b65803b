------------------------------- MODULE Checks -------------------------------
(***************************************************************************)
(* The ready-made checks, from the plugin's config to the evidence:        *)
(* RunHTTPCheck, RunDNSCheck, RunTCPCheck, RunSMTPCheck (net), which parse *)
(* the config (application/config), call the host through an adapter       *)
(* (infrastructure/wasm), once or, for addresses, twice, and turn what it  *)
(* replies into a Result and an error; a Check that returns both unchanged *)
(* and _observe (application/plugin/plugin.go), which has the last word.   *)
(*                                                                         *)
(* A field of a config is a Go value of some type: numbers are counted in  *)
(* halves, so that a float may have a fraction.  A text is kept only as    *)
(* what the checks ask of it.  The host is external and may reply anything *)
(* to any call.                                                            *)
(***************************************************************************)
EXTENDS Integers, Sequences, SequencesExt

CONSTANTS
  Ports, Timeouts,      \* values a config may have for port and timeout_ms,
  Statuses, Previews,   \* for expected_status and body_preview_length
  PageStatuses,         \* status codes of HTTP answers
  Sizes,                \* lengths of their bodies
  MaxRecords,           \* bound on the records of a DNS answer
  HalfRange,            \* 2^63: where an int64 turns negative
  TooLarge,             \* what the build converts a float above an int64 to
  NanosPerMs,           \* nanoseconds in a millisecond
  None                  \* no error, no timeout on the wire

Value == [type : {"absent", "other", "int", "float"}, halves : Int]

\* Whether a number is in the range of an int64, as every int is, once it has
\* no fraction.
Fits(v) == -2 * HalfRange - 2 < v.halves /\ v.halves < 2 * HalfRange

ASSUME ChecksAssumption ==
  /\ Ports \subseteq Value /\ Timeouts \subseteq Value
  /\ Statuses \subseteq Value /\ Previews \subseteq Value
  /\ \A v \in Ports \cup Timeouts \cup Statuses \cup Previews : v.type = "int" => Fits(v)
  /\ PageStatuses \subseteq 0..999 /\ Sizes \subseteq 0..HalfRange /\ MaxRecords \in Nat
  /\ HalfRange \in Nat /\ HalfRange > 65536 /\ TooLarge \in {HalfRange - 1, -HalfRange}
  /\ NanosPerMs \in Nat \ {0} /\ None \notin Int

Absent == [type |-> "absent", halves |-> 0]

Kinds == {"http", "dns", "tcp", "smtp"}

RecordTypes == {"A", "AAAA", "CNAME", "MX", "TXT", "NS", "other"}

\* What a DNS record looks like to net.ParseIP: "mapped" is an IPv4 address
\* written in IPv6, "text" no address.
RecordForms == {"v4", "mapped", "v6", "text"}

\* The form of a host: a name or IPv4 address, or an IPv6 one as it is or in
\* brackets.
Hosts == {"plain", "ipv6", "[ipv6]"}

\* A part of a config or an answer that the check of a kind does not read is
\* left at its default.
Read(isRead, values, default) == IF isRead THEN values ELSE {default}

\* present: the required string (url, hostname, host) is there; needle:
\* expected_body_contains is.
Configs(k) ==
  LET dials == k \in {"tcp", "smtp"}
  IN  [present : BOOLEAN, timeout : Timeouts,
       port    : Read(dials, Ports, Absent),
       host    : Read(dials, Hosts, "plain"),
       record  : Read(k = "dns", RecordTypes, "A"),
       status  : Read(k = "http", Statuses, Absent),
       needle  : Read(k = "http", BOOLEAN, FALSE),
       preview : Read(k = "http", Previews, Absent)]

\* A host's reply: "nothing" the adapter can parse, an "error" it reports, a
\* "truncated" or undecodable body, or an "answer".  needleAt is where the
\* expected text ends in the body, 0 when it is not there.
NoAnswer(tag) ==
  [tag |-> tag, status |-> 0, size |-> 0, needleAt |-> 0,
   records |-> <<>>, connected |-> FALSE]

Replies(k) ==
  {NoAnswer(tag) : tag \in {"nothing", "error"} \cup Read(k = "http", {"truncated"}, "error")}
  \cup [tag       : {"answer"},
        status    : Read(k = "http", PageStatuses, 0),
        size      : Read(k = "http", Sizes, 0),
        needleAt  : Read(k = "http", Sizes, 0),
        records   : Read(k = "dns", UNION {[1..n -> RecordForms] : n \in 0..MaxRecords}, <<>>),
        connected : Read(k \in {"tcp", "smtp"}, BOOLEAN, FALSE)]

VARIABLES
  pc,         \* "parse", "call", "checked" or "observed"
  kind,       \* which check runs
  cfg,        \* its config
  replies,    \* what the host has replied so far
  request,    \* the host, port and timeout in the last request
  result,     \* the Result of the check
  err,        \* the error it returns beside it, or None
  evidence    \* what _observe returns

vars == <<pc, kind, cfg, replies, request, result, err, evidence>>

\* The data of a Result: records, and how much of a body is shown.
NoData == [records |-> <<>>, size |-> 0, shown |-> 0, truncated |-> FALSE]

Outcome(status, type, data) == [status |-> status, type |-> type, data |-> data]
Success(data) == Outcome("success", None, data)
Failure(data) == Outcome("failure", None, data)
Error(type) == Outcome("error", type, NoData)

NoRequest == [host |-> "plain", port |-> 0, timeout |-> None]

Init ==
  /\ pc = "parse"
  /\ kind \in Kinds /\ cfg \in Configs(kind)
  /\ replies = <<>> /\ request = NoRequest
  /\ result = Success(NoData) /\ err = None /\ evidence = Success(NoData)

-----------------------------------------------------------------------------
(* Getters of the config. *)

IsNumber(v) == v.type \in {"int", "float"}

\* Division toward zero.
Quotient(a, b) == IF a >= 0 THEN a \div b ELSE -((-a) \div b)

\* GetInt drops the fraction of a float.  Of a float beyond an int64 Go only
\* says that the build decides: one below becomes the least int64, one above
\* the greatest, or the least as well.
GetInt(v) ==
  IF Fits(v) THEN Quotient(v.halves, 2)
  ELSE IF v.halves > 0 THEN TooLarge ELSE -HalfRange

GetIntDefault(v, default) == IF IsNumber(v) THEN GetInt(v) ELSE default

\* The checks of the port; the mutant allows one too many.
ValidPort_OffByOne(port) == 1 <= port /\ port <= 65536
ValidPort(port) == 1 <= port /\ port <= 65535

\* MustGetString and MustGetInt, and the range of a port.
ValidConfig ==
  /\ cfg.present
  /\ kind \in {"tcp", "smtp"} => IsNumber(cfg.port) /\ ValidPort(GetInt(cfg.port))

-----------------------------------------------------------------------------
(* The requests. *)

\* The lookups of a DNS check: LookupHost asks for A, then for AAAA.
Lookups ==
  IF kind # "dns" THEN 1
  ELSE IF cfg.record = "other" THEN 0
  ELSE IF cfg.record \in {"A", "AAAA"} THEN 2 ELSE 1

\* time.Duration(ms) * time.Millisecond, an int64, back in milliseconds; the
\* mutant takes the nanoseconds for milliseconds.
ThroughDuration_Nanos(ms) == ms * NanosPerMs
ThroughDuration(ms) ==
  Quotient(((ms * NanosPerMs + HalfRange) % (2 * HalfRange)) - HalfRange, NanosPerMs)

\* The timeout_ms on the wire: the adapters of http and dns have one and do
\* not send it.
SentTimeout ==
  CASE kind = "tcp" -> GetIntDefault(cfg.timeout, 5000)
    [] kind = "smtp" -> ThroughDuration(GetIntDefault(cfg.timeout, 30000))
    [] OTHER -> None

\* TCP puts host and port into one address and takes it apart again, which
\* an IPv6 address without brackets does not survive.
Undialable == kind = "tcp" /\ cfg.host = "ipv6"

SentHost == IF kind = "tcp" /\ cfg.host = "[ipv6]" THEN "ipv6" ELSE cfg.host

Request ==
  [host |-> SentHost, port |-> GetIntDefault(cfg.port, 0), timeout |-> SentTimeout]

Finish(outcome, error) ==
  /\ pc' = "checked" /\ result' = outcome /\ err' = error
  /\ UNCHANGED <<kind, cfg, evidence>>

\* The type of a failed request's error, also when the host gave another.
\* The checks return it as an error too, but for that of dns.
RequestFails ==
  Finish(Error("network"), IF kind = "dns" THEN None ELSE "network")

(* The config is parsed.  An unsupported record type and an address that   *)
(* cannot be dialled fail like a request.                                  *)
Parse ==
  /\ pc = "parse"
  /\ \/ /\ ~ValidConfig
        /\ Finish(Error("config"), None)
        /\ UNCHANGED request
     \/ /\ ValidConfig /\ (Lookups = 0 \/ Undialable)
        /\ RequestFails
        /\ UNCHANGED request
     \/ /\ ValidConfig /\ Lookups > 0 /\ ~Undialable
        /\ pc' = "call" /\ request' = Request
        /\ UNCHANGED <<kind, cfg, result, err, evidence>>
  /\ UNCHANGED replies

-----------------------------------------------------------------------------
(* The answers. *)

\* Whether an adapter returns an error for a reply: http for a truncated
\* body, LookupCNAME for no records.
AdapterFails(reply) ==
  \/ reply.tag # "answer"
  \/ kind = "dns" /\ cfg.record = "CNAME" /\ reply.records = <<>>

\* addBodyInfo: the data of a body that is not empty; a negative length of
\* the preview shows all of it.  The mutant takes 0 for negative.
Page_ZeroShowsAll(reply) ==
  LET length == GetIntDefault(cfg.preview, 200)
      cut == length > 0 /\ reply.size > length
  IN [NoData EXCEPT !.size = reply.size, !.truncated = cut,
                    !.shown = IF cut THEN length ELSE reply.size]
Page(reply) ==
  LET length == GetIntDefault(cfg.preview, 200)
      cut == length >= 0 /\ reply.size > length
  IN [NoData EXCEPT !.size = reply.size, !.truncated = cut,
                    !.shown = IF cut THEN length ELSE reply.size]

\* A mismatch with what is expected is a failure.  The mutant looks for the
\* text in the preview.
HTTPResult_PreviewOnly(reply) ==
  IF \/ IsNumber(cfg.status) /\ reply.status # GetInt(cfg.status)
     \/ cfg.needle /\ reply.needleAt \notin 1..Page(reply).shown
  THEN Failure(Page(reply)) ELSE Success(Page(reply))
HTTPResult(reply) ==
  IF \/ IsNumber(cfg.status) /\ reply.status # GetInt(cfg.status)
     \/ cfg.needle /\ reply.needleAt = 0
  THEN Failure(Page(reply)) ELSE Success(Page(reply))

\* A connection that is not one is an error; the mutant takes any answer.
ConnectionResult_Any(reply) == Success(NoData)
ConnectionResult(reply) ==
  IF reply.connected THEN Success(NoData) ELSE Error("network")

\* performDNSLookup: of the addresses those of the family, of a CNAME answer
\* the first record.  The mutant takes what is not IPv4 for IPv6.
OfFamily_NotV4(form) ==
  IF cfg.record = "A" THEN form \in {"v4", "mapped"} ELSE form \notin {"v4", "mapped"}
OfFamily(form) ==
  IF cfg.record = "A" THEN form \in {"v4", "mapped"} ELSE form = "v6"

Filtered(records, form) == IF OfFamily(form) THEN Append(records, form) ELSE records

DNSResult(answers) ==
  Success([NoData EXCEPT !.records =
    CASE cfg.record \in {"A", "AAAA"} ->
           FoldLeft(Filtered, <<>>, answers[1].records \o answers[2].records)
      [] cfg.record = "CNAME" -> <<answers[1].records[1]>>
      [] OTHER -> answers[1].records])

Answered(answers) ==
  CASE kind = "http" -> HTTPResult(answers[1])
    [] kind = "dns" -> DNSResult(answers)
    [] kind \in {"tcp", "smtp"} -> ConnectionResult(answers[1])

(* The host replies to one call, after which the adapter calls again, or   *)
(* the check has its Result.                                               *)
HostReplies(reply) ==
  /\ pc = "call" /\ reply.needleAt <= reply.size
  /\ replies' = Append(replies, reply)
  /\ \/ AdapterFails(reply) /\ RequestFails
     \/ /\ ~AdapterFails(reply) /\ Len(replies') < Lookups
        /\ UNCHANGED <<pc, kind, cfg, result, err, evidence>>
     \/ /\ ~AdapterFails(reply) /\ Len(replies') = Lookups
        /\ Finish(Answered(replies'), None)
  /\ UNCHANGED request

\* _observe: an error replaces the Result, data and all.  The mutant reports
\* the error's text in place of a Result.
Observed_Raw == IF err # None THEN Outcome("failure", err, NoData) ELSE result
Observed == IF err # None THEN Failure(NoData) ELSE result

Observe ==
  /\ pc = "checked"
  /\ pc' = "observed" /\ evidence' = Observed
  /\ UNCHANGED <<kind, cfg, replies, request, result, err>>

Next == Parse \/ (\E reply \in Replies(kind) : HostReplies(reply)) \/ Observe

Spec == Init /\ [][Next]_vars

-----------------------------------------------------------------------------
Outcomes(data) == {Success(data), Failure(data), Error("config"), Error("network")}

(* Every variable has its type, and a Result its shape.                    *)
TypeOK ==
  /\ pc \in {"parse", "call", "checked", "observed"}
  /\ kind \in Kinds /\ cfg \in Configs(kind)
  /\ \A i \in DOMAIN replies : replies[i] \in Replies(kind)
  /\ request.host \in Hosts /\ request.port \in Int /\ request.timeout \in Int \cup {None}
  /\ result \in Outcomes(result.data) /\ err \in {None, "network"}
  /\ evidence \in Outcomes(evidence.data)

\* The value of a port is at least 1 and less than 65536.
PortInRange == IsNumber(cfg.port) /\ 2 <= cfg.port.halves /\ cfg.port.halves <= 131071

\* The answer is what the check was asked for.
Meets(reply) ==
  CASE kind = "http" -> /\ IsNumber(cfg.status) =>
                             cfg.status.halves - 2 * reply.status
                               \in (IF cfg.status.halves >= 0 THEN {0, 1} ELSE {-1, 0})
                        /\ cfg.needle => reply.needleAt > 0
    [] kind = "dns" -> cfg.record = "CNAME" => reply.records # <<>>
    [] kind \in {"tcp", "smtp"} -> reply.connected

(* The host sees "success" if and only if the config was valid, every call *)
(* was answered, and the last answer is what the check is for: no error on *)
(* the way (of the parser, the adapter, the host, the check) turns into a  *)
(* success, nor is a good answer reported as anything else.  A preview     *)
(* never decides, and an expected_status that is no number is none.        *)
SuccessMeansAnswered ==
  pc = "observed" =>
    (evidence.status = "success" <=>
       /\ cfg.present /\ (kind \in {"tcp", "smtp"} => PortInRange)
       /\ ~(kind = "dns" /\ cfg.record = "other")
       /\ Len(replies) = Lookups
       /\ \A i \in DOMAIN replies : replies[i].tag = "answer"
       /\ Meets(replies[Len(replies)]))

(* A config that is missing something, has a value of another type for it  *)
(* or a port that is none, comes back as a "config" error, and the host is *)
(* never called for it.                                                    *)
BadConfigStaysHome ==
  pc = "observed" =>
    (~cfg.present \/ (kind \in {"tcp", "smtp"} /\ ~PortInRange)
       <=> evidence = Error("config"))
    /\ (evidence = Error("config") => replies = <<>>)

(* What the host is asked for is what the config says, whatever Go types   *)
(* the numbers in it have: the port, and for tcp and smtp the timeout or   *)
(* its default - so long as it is an int for tcp, a Duration for smtp.     *)
RequestAsConfigured ==
  pc = "call" /\ kind \in {"tcp", "smtp"} =>
    LET ms == IF ~IsNumber(cfg.timeout) THEN (IF kind = "tcp" THEN 5000 ELSE 30000)
              ELSE IF cfg.timeout.halves < 0 THEN -((-cfg.timeout.halves) \div 2)
              ELSE cfg.timeout.halves \div 2
    IN /\ 1 <= request.port /\ request.port <= 65535
       /\ 2 * request.port - cfg.port.halves \in {0, -1}
       /\ (IF kind = "tcp" THEN ms ELSE ms * NanosPerMs) \in (-HalfRange)..(HalfRange - 1)
            => request.timeout = ms

Count(seq, S) == Cardinality({i \in DOMAIN seq : seq[i] \in S})

(* Of all the addresses the host gave, to either lookup, an A check        *)
(* reports every IPv4 one and an AAAA check every other one, once each;    *)
(* what is no address is reported by neither.                              *)
AddressesOfFamily ==
  pc = "observed" /\ kind = "dns" /\ cfg.record \in {"A", "AAAA"}
      /\ evidence.status = "success" =>
    LET given == replies[1].records \o replies[2].records
        records == evidence.data.records
        family == IF cfg.record = "A" THEN {"v4", "mapped"} ELSE {"v6"}
    IN /\ Len(records) = Count(given, family)
       /\ \A form \in family : Count(records, {form}) = Count(given, {form})

(* A body is cut where body_preview_length says, at its very end and at 0  *)
(* too, and is said to be cut exactly when some of it is missing.          *)
TruncationTold ==
  pc = "observed" /\ kind = "http" =>
    LET data == evidence.data
    IN /\ data.truncated <=> data.shown < data.size
       /\ IsNumber(cfg.preview) /\ cfg.preview.halves >= 0
            => 2 * data.shown <= cfg.preview.halves
       /\ IsNumber(cfg.preview) /\ cfg.preview.halves <= -2 => ~data.truncated

-----------------------------------------------------------------------------
(* http.go:43 and dns.go:40 document timeout_ms as the timeout of the      *)
(* request: the host, which runs it, gets it.                              *)
TimeoutReachesHost ==
  pc = "call" /\ IsNumber(cfg.timeout) /\ cfg.timeout.halves >= 2
    => request.timeout = GetInt(cfg.timeout)

(* tcp.go:42 documents host as "Target hostname or IP address": a valid    *)
(* config that names its target by address is tried by the host.           *)
AddressIsTried == pc = "observed" /\ ValidConfig /\ kind = "tcp" => replies # <<>>
=============================================================================
