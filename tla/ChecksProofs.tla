----------------------------- MODULE ChecksProofs -----------------------------
(***************************************************************************)
(* Theorems about Checks, for every set of configs and of answers, and for *)
(* every width of a Duration.                                              *)
(***************************************************************************)
EXTENDS Checks, Induction, TLAPS

\* Division and remainder.
LEMMA Dividing ==
  ASSUME NEW x \in Int, NEW d \in Nat \ {0}
  PROVE  /\ x \div d \in Int /\ x % d \in 0..(d - 1)
         /\ x = d * (x \div d) + (x % d)
OBVIOUS

\* A value that is in range of what it is divided by is its own remainder.
LEMMA InRange ==
  ASSUME NEW x \in Nat, NEW d \in Nat \ {0}, x < d
  PROVE  x % d = x
<1>1. /\ x \div d \in Int /\ x % d \in 0..(d - 1)
      /\ x = d * (x \div d) + (x % d)
  BY Dividing
<1> DEFINE q == x \div d
           m == x % d
<1> HIDE DEF q, m
<1>2. q \in Int /\ m \in 0..(d - 1) /\ x = d * q + m
  BY <1>1 DEF q, m
<1>3. ~(q >= 1)
  <2> SUFFICES ASSUME q >= 1 PROVE FALSE
    OBVIOUS
  <2>1. d * q >= d BY <1>2
  <2> QED BY <1>2, <2>1
<1>4. ~(q <= -1)
  <2> SUFFICES ASSUME q <= -1 PROVE FALSE
    OBVIOUS
  <2>1. d * q <= -d BY <1>2
  <2> QED BY <1>2, <2>1
<1>5. q = 0 BY <1>2, <1>3, <1>4
<1>6. m = x BY <1>2, <1>5
<1> QED BY <1>6 DEF m

\* Dividing undoes a multiplication.
LEMMA ExactQuotient ==
  ASSUME NEW x \in Nat, NEW d \in Nat \ {0}
  PROVE  (x * d) \div d = x
<1> DEFINE y == x * d
           q == y \div d
           m == y % d
<1>1. y \in Nat OBVIOUS
<1> HIDE DEF y
<1>2. q \in Int /\ m \in 0..(d - 1) /\ y = d * q + m
  BY <1>1, Dividing
<1> HIDE DEF q, m
<1>3. y = d * x BY DEF y
<1>4. d * (x - q) = m BY <1>2, <1>3
<1>5. ~(x - q >= 1)
  <2> SUFFICES ASSUME x - q >= 1 PROVE FALSE
    OBVIOUS
  <2>1. d * (x - q) >= d BY <1>2
  <2> QED BY <1>2, <1>4, <2>1
<1>6. ~(x - q <= -1)
  <2> SUFFICES ASSUME x - q <= -1 PROVE FALSE
    OBVIOUS
  <2>1. d * (x - q) <= -d BY <1>2
  <2> QED BY <1>2, <1>4, <2>1
<1>7. q = x BY <1>2, <1>5, <1>6
<1> QED BY <1>7 DEF q, y

\* A quotient is an integer.
LEMMA QuotientType ==
  ASSUME NEW a \in Int, NEW d \in Nat \ {0} PROVE Quotient(a, d) \in Int
BY Dividing DEF Quotient

\* A Duration is back what it was made of, so long as it fits.
LEMMA ThroughDurationExact ==
  ASSUME NEW ms \in Int, ms * NanosPerMs \in (-HalfRange)..(HalfRange - 1)
  PROVE  ThroughDuration(ms) = ms
<1> USE ChecksAssumption
<1> DEFINE ns == ms * NanosPerMs
<1>1. ns \in Int OBVIOUS
<1>2. (ns + HalfRange) % (2 * HalfRange) = ns + HalfRange
  <2> HIDE DEF ns
  <2>1. ns \in (-HalfRange)..(HalfRange - 1) BY DEF ns
  <2>2. ns + HalfRange \in Nat /\ 2 * HalfRange \in Nat \ {0}
        /\ ns + HalfRange < 2 * HalfRange
    BY <1>1, <2>1
  <2> QED BY <2>2, InRange
<1>3. ThroughDuration(ms) = Quotient(ns, NanosPerMs)
  <2>1. (ns + HalfRange) - HalfRange = ns BY <1>1
  <2> QED BY <1>2, <2>1 DEF ThroughDuration
<1>4. CASE ms >= 0
  <2>1. ns >= 0 BY <1>4
  <2>2. ns \div NanosPerMs = ms BY <1>4, ExactQuotient
  <2> QED BY <1>3, <2>1, <2>2 DEF Quotient
<1>5. CASE ms < 0
  <2>1. -ns = (-ms) * NanosPerMs BY <1>5
  <2>2. ~(ns >= 0)
    <3>1. ns <= -1 BY <1>5
    <3> QED BY <1>1, <3>1
  <2>3. (-ns) \div NanosPerMs = -ms
    BY <1>5, <2>1, ExactQuotient
  <2> QED BY <1>3, <1>5, <2>2, <2>3 DEF Quotient
<1> QED BY <1>4, <1>5

\* What fits a Duration fits an int64.
LEMMA Within ==
  ASSUME NEW ms \in Int, ms * NanosPerMs \in (-HalfRange)..(HalfRange - 1)
  PROVE  ms \in (-HalfRange)..(HalfRange - 1)
<1> DEFINE ns == ms * NanosPerMs
<1>1. ns \in Int /\ -HalfRange <= ns /\ ns <= HalfRange - 1
  BY ChecksAssumption
<1>2. ms >= 0 => ms <= ns
  BY ChecksAssumption
<1>3. ms < 0 => ns <= ms
  BY ChecksAssumption
<1> HIDE DEF ns
<1> QED BY <1>1, <1>2, <1>3, ChecksAssumption

\* A timeout through a Duration is an integer, wrapped or not.
LEMMA ThroughDurationType ==
  ASSUME NEW ms \in Int PROVE ThroughDuration(ms) \in Int
<1> USE ChecksAssumption
<1> DEFINE x == ms * NanosPerMs + HalfRange
<1>1. x \in Int /\ 2 * HalfRange \in Nat \ {0} OBVIOUS
<1> HIDE DEF x
<1>2. x % (2 * HalfRange) \in Int BY <1>1, Dividing
<1>3. (x % (2 * HalfRange)) - HalfRange \in Int BY <1>2
<1> QED BY <1>3, QuotientType DEF ThroughDuration, x

-----------------------------------------------------------------------------
\* What every config has, whichever check it is for.
ConfigShape(c) ==
  /\ c.present \in BOOLEAN /\ c.needle \in BOOLEAN
  /\ c.timeout \in Value /\ c.port \in Value /\ c.status \in Value /\ c.preview \in Value
  /\ c.host \in Hosts /\ c.record \in RecordTypes

\* Every config has its shape.
LEMMA ConfigsShaped ==
  ASSUME NEW k \in Kinds, NEW c \in Configs(k) PROVE ConfigShape(c)
<1>1. Absent \in Value /\ "plain" \in Hosts /\ "A" \in RecordTypes
  BY DEF Absent, Value, Hosts, RecordTypes
<1>2. /\ Ports \subseteq Value /\ Timeouts \subseteq Value
      /\ Statuses \subseteq Value /\ Previews \subseteq Value
  BY ChecksAssumption
<1> QED BY <1>1, <1>2 DEF Configs, Read, ConfigShape

\* Numbers in a reply are numbers.
LEMMA RepliesShaped ==
  ASSUME NEW k \in Kinds, NEW reply \in Replies(k)
  PROVE  /\ reply.status \in 0..999 /\ reply.needleAt \in Nat
         /\ reply.size \in 0..HalfRange
<1> DEFINE
      statuses == Read(k = "http", PageStatuses, 0)
      sizes    == Read(k = "http", Sizes, 0)
      lists    == Read(k = "dns", UNION {[1..n -> RecordForms] : n \in 0..MaxRecords}, <<>>)
      dialled  == Read(k \in {"tcp", "smtp"}, BOOLEAN, FALSE)
      tags     == {"nothing", "error"} \cup Read(k = "http", {"truncated"}, "error")
      answers  == [tag : {"answer"}, status : statuses, size : sizes, needleAt : sizes,
                   records : lists, connected : dialled]
<1>1. reply \in {NoAnswer(tag) : tag \in tags} \/ reply \in answers
  BY DEF Replies
<1>2. HalfRange \in Nat
  BY ChecksAssumption
<1>3. \A status \in statuses : status \in 0..999
  BY ChecksAssumption DEF Read
<1>4. \A size \in sizes : size \in 0..HalfRange
  BY ChecksAssumption DEF Read
<1> HIDE DEF statuses, sizes, lists, dialled, tags
<1>5. CASE reply \in {NoAnswer(tag) : tag \in tags}
  <2>1. reply.status = 0 /\ reply.size = 0 /\ reply.needleAt = 0
    BY <1>5 DEF NoAnswer
  <2> QED BY <1>2, <2>1
<1>6. CASE reply \in answers
  <2>1. reply.status \in statuses /\ reply.size \in sizes /\ reply.needleAt \in sizes
    BY <1>6
  <2> HIDE DEF answers
  <2>2. reply.status \in 0..999
    BY <1>3, <2>1
  <2>3. reply.size \in 0..HalfRange /\ reply.needleAt \in 0..HalfRange
    BY <1>4, <2>1
  <2> QED BY <1>2, <2>2, <2>3
<1> QED BY <1>1, <1>5, <1>6

\* GetInt gives an integer.
LEMMA GetIntType ==
  ASSUME NEW v \in Value PROVE GetInt(v) \in Int
BY QuotientType, ChecksAssumption DEF GetInt, Value

\* A number is cut toward zero: n is h halves without the fraction.
Cut(h, n) ==
  /\ h \in Int /\ n \in Int
  /\ h >= 0 => h = 2 * n \/ h = 2 * n + 1
  /\ h < 0 => h = 2 * n \/ h = 2 * n - 1

\* Dividing halves by two cuts.
LEMMA QuotientCuts == ASSUME NEW h \in Int PROVE Cut(h, Quotient(h, 2))
<1>1. CASE h >= 0
  <2> DEFINE q == h \div 2
             m == h % 2
  <2>1. q \in Int /\ m \in 0..1 /\ h = 2 * q + m
    BY Dividing
  <2>2. Quotient(h, 2) = q
    BY <1>1 DEF Quotient
  <2> HIDE DEF q, m
  <2>3. h = 2 * q \/ h = 2 * q + 1
    BY <2>1
  <2> QED BY <1>1, <2>1, <2>2, <2>3 DEF Cut
<1>2. CASE h < 0
  <2> DEFINE q == (-h) \div 2
             m == (-h) % 2
  <2>1. q \in Int /\ m \in 0..1 /\ -h = 2 * q + m
    BY Dividing
  <2>2. Quotient(h, 2) = -q
    BY <1>2 DEF Quotient
  <2> HIDE DEF q, m
  <2>3. -q \in Int /\ (h = 2 * (-q) \/ h = 2 * (-q) - 1)
    BY <2>1
  <2>4. ~(h >= 0)
    BY <1>2
  <2> QED BY <2>2, <2>3, <2>4 DEF Cut
<1> QED BY <1>1, <1>2

\* GetInt cuts what is in the range of an int64.
LEMMA GetIntCuts ==
  ASSUME NEW v \in Value, Fits(v) PROVE Cut(v.halves, GetInt(v))
<1>1. v.halves \in Int BY DEF Value
<1> QED BY <1>1, QuotientCuts DEF GetInt

\* A number in the range of an int64 is cut, and one beyond it goes to an end.
Converted(h, n) ==
  /\ h \in Int /\ n \in Int
  /\ \/ Cut(h, n)
     \/ h >= 2 * HalfRange /\ n \in {HalfRange - 1, -HalfRange}
     \/ h <= -2 * HalfRange - 2 /\ n = -HalfRange

\* That is what GetInt does.
LEMMA GetIntConverts ==
  ASSUME NEW v \in Value PROVE Converted(v.halves, GetInt(v))
<1>1. v.halves \in Int /\ GetInt(v) \in Int BY GetIntType DEF Value
<1>2. CASE Fits(v)
  BY <1>1, <1>2, GetIntCuts DEF Converted
<1>3. CASE ~Fits(v)
  BY <1>1, <1>3, ChecksAssumption DEF Converted, GetInt, Fits
<1> QED BY <1>2, <1>3

\* A port is valid if the number it was given as is, fraction and all.
LEMMA CutInRange ==
  ASSUME NEW h, NEW n, Converted(h, n)
  PROVE  /\ 1 <= n /\ n <= 65535 <=> 2 <= h /\ h <= 131071
         /\ 1 <= n /\ n <= 65535 => 2 * n - h \in {0, -1}
BY ChecksAssumption DEF Converted, Cut

\* The check of a port looks at the number, its fraction cut.
LEMMA PortsInRange ==
  ASSUME NEW v \in Value
  PROVE  ValidPort(GetInt(v)) <=> 2 <= v.halves /\ v.halves <= 131071
BY GetIntConverts, CutInRange DEF ValidPort

-----------------------------------------------------------------------------
\* A config that makes the check call the host.
Sendable == ValidConfig /\ Lookups > 0 /\ ~Undialable

\* Every reply so far was usable.
NoneFails == \A i \in DOMAIN replies : ~AdapterFails(replies[i])

\* No request was made, or an adapter could not use a reply.
Refused ==
  \/ replies = <<>> /\ (Lookups = 0 \/ Undialable)
  \/ \E i \in DOMAIN replies : AdapterFails(replies[i])

\* How a check ends: without a valid config, without a usable reply to every
\* call, or with all of them.
Ended ==
  \/ ~ValidConfig /\ replies = <<>> /\ result = Error("config") /\ err = None
  \/ ValidConfig /\ Refused /\ result = Error("network")
  \/ /\ Sendable /\ Len(replies) = Lookups /\ NoneFails
     /\ result = Answered(replies) /\ err = None

\* Every variable has its type, and a Result its shape.
Shaped ==
  /\ pc \in {"parse", "call", "checked", "observed"}
  /\ kind \in Kinds /\ cfg \in Configs(kind)
  /\ replies \in Seq(Replies(kind))
  /\ request.host \in Hosts /\ request.port \in Int /\ request.timeout \in Int \cup {None}
  /\ result \in Outcomes(result.data) /\ err \in {None, "network"}
  /\ evidence \in Outcomes(evidence.data)

\* What is known where the check stands.
Progress ==
  /\ pc = "parse" => replies = <<>>
  /\ pc = "call" => Sendable /\ Len(replies) < Lookups /\ NoneFails /\ request = Request
  /\ pc \in {"checked", "observed"} => Ended
  /\ pc = "observed" => evidence = Observed

\* What the constructors of a Result build.
LEMMA OutcomesShaped ==
  ASSUME NEW data
  PROVE  /\ Success(data) \in Outcomes(Success(data).data)
         /\ Failure(data) \in Outcomes(Failure(data).data)
         /\ Error("config") \in Outcomes(Error("config").data)
         /\ Error("network") \in Outcomes(Error("network").data)
BY DEF Outcomes, Success, Failure, Error, Outcome

\* What a check makes of its answers is a Result.
LEMMA AnsweredShaped ==
  ASSUME kind \in Kinds, NEW answers
  PROVE  Answered(answers) \in Outcomes(Answered(answers).data)
<1>1. CASE kind = "http" BY <1>1, OutcomesShaped DEF Answered, HTTPResult
<1>2. CASE kind = "dns" BY <1>2, OutcomesShaped DEF Answered, DNSResult
<1>3. CASE kind \in {"tcp", "smtp"}
  BY <1>3, OutcomesShaped DEF Answered, ConnectionResult
<1> QED BY <1>1, <1>2, <1>3 DEF Kinds

\* A request has its type.
LEMMA RequestShaped ==
  ASSUME kind \in Kinds, ConfigShape(cfg)
  PROVE  Request.host \in Hosts /\ Request.port \in Int
         /\ Request.timeout \in Int \cup {None}
<1>1. SentHost \in Hosts BY DEF SentHost, ConfigShape, Hosts
<1>2. /\ GetIntDefault(cfg.port, 0) \in Int
      /\ GetIntDefault(cfg.timeout, 5000) \in Int
      /\ GetIntDefault(cfg.timeout, 30000) \in Int
  BY GetIntType DEF GetIntDefault, ConfigShape
<1>3. SentTimeout \in Int \cup {None}
  BY <1>2, ThroughDurationType DEF SentTimeout, Kinds
<1> QED BY <1>1, <1>2, <1>3 DEF Request

\* Before the config is parsed.
LEMMA Initially == Init => Shaped /\ Progress
<1> SUFFICES ASSUME Init PROVE Shaped /\ Progress
  OBVIOUS
<1>1. NoRequest.host \in Hosts /\ NoRequest.port \in Int
      /\ NoRequest.timeout \in Int \cup {None}
  BY DEF NoRequest, Hosts
<1> QED BY <1>1, OutcomesShaped DEF Init, Shaped, Progress

\* Parsing: a bad config, no request, or the first one.
LEMMA ParseKeeps == Shaped /\ Progress /\ Parse => Shaped' /\ Progress'
<1> SUFFICES ASSUME Shaped, Progress, Parse PROVE Shaped' /\ Progress'
  OBVIOUS
<1>1. /\ kind' = kind /\ cfg' = cfg /\ replies' = replies /\ replies = <<>>
      /\ evidence' = evidence
  BY DEF Parse, Finish, RequestFails, Progress
<1>2. ConfigShape(cfg)
  BY ConfigsShaped DEF Shaped
<1>3. /\ (ValidConfig <=> ValidConfig') /\ (Undialable <=> Undialable')
      /\ Lookups' = Lookups /\ Request' = Request
  BY <1>1 DEF ValidConfig, Undialable, Lookups, Request, SentHost, SentTimeout
<1>4. CASE ~ValidConfig /\ Finish(Error("config"), None) /\ UNCHANGED request
  <2>1. Shaped' BY <1>1, <1>4, OutcomesShaped DEF Shaped, Finish
  <2>2. Progress' BY <1>1, <1>3, <1>4 DEF Progress, Finish, Ended
  <2> QED BY <2>1, <2>2
<1>5. CASE /\ ValidConfig /\ (Lookups = 0 \/ Undialable)
           /\ RequestFails /\ UNCHANGED request
  <2>1. Shaped' BY <1>1, <1>5, OutcomesShaped DEF Shaped, Finish, RequestFails
  <2>2. Progress'
    BY <1>1, <1>3, <1>5 DEF Progress, Finish, RequestFails, Ended, Refused
  <2> QED BY <2>1, <2>2
<1>6. CASE /\ ValidConfig /\ Lookups > 0 /\ ~Undialable
           /\ pc' = "call" /\ request' = Request
           /\ UNCHANGED <<kind, cfg, result, err, evidence>>
  <2>1. Shaped' BY <1>1, <1>2, <1>6, RequestShaped DEF Shaped
  <2>2. Len(replies') = 0 /\ DOMAIN replies' = {}
    BY <1>1
  <2>3. Progress'
    BY <1>1, <1>3, <1>6, <2>2 DEF Progress, Sendable, NoneFails
  <2> QED BY <2>1, <2>3
<1> QED BY <1>4, <1>5, <1>6 DEF Parse

\* A reply: unusable, one of two, or the last.
LEMMA HostRepliesKeeps ==
  ASSUME Shaped, Progress, NEW reply \in Replies(kind), HostReplies(reply)
  PROVE  Shaped' /\ Progress'
<1> DEFINE n == Len(replies)
<1>1. /\ kind' = kind /\ cfg' = cfg /\ evidence' = evidence /\ request' = request
      /\ Sendable /\ n < Lookups /\ NoneFails /\ request = Request
  BY DEF HostReplies, Finish, RequestFails, Progress
<1>2. /\ replies' \in Seq(Replies(kind)) /\ n \in Nat /\ Len(replies') = n + 1
      /\ DOMAIN replies = 1..n /\ DOMAIN replies' = 1..(n + 1)
      /\ replies'[n + 1] = reply /\ \A i \in 1..n : replies'[i] = replies[i]
  BY DEF HostReplies, Shaped
<1>3. /\ (Sendable <=> Sendable') /\ (ValidConfig <=> ValidConfig')
      /\ Lookups' = Lookups /\ Request' = Request
  BY <1>1 DEF Sendable, ValidConfig, Undialable, Lookups, Request, SentHost, SentTimeout
<1>4. \A r : AdapterFails(r)' <=> AdapterFails(r)
  BY <1>1 DEF AdapterFails
<1> HIDE DEF n
<1>5. CASE AdapterFails(reply) /\ RequestFails
  <2>1. Shaped'
    BY <1>1, <1>2, <1>5, OutcomesShaped DEF Shaped, Finish, RequestFails
  <2>2. PICK i \in DOMAIN replies' : replies'[i] = reply
    BY <1>2
  <2>3. Refused'
    BY <1>1, <1>5, <2>2 DEF Refused, AdapterFails
  <2>4. Progress'
    BY <1>1, <1>3, <1>5, <2>3 DEF Progress, Ended, RequestFails, Finish, Sendable
  <2> QED BY <2>1, <2>4
<1>6. CASE ~AdapterFails(reply)
  <2>1. NoneFails'
    BY <1>1, <1>2, <1>6 DEF NoneFails, AdapterFails
  <2>2. CASE /\ Len(replies') < Lookups
             /\ UNCHANGED <<pc, kind, cfg, result, err, evidence>>
    <3>1. Shaped' BY <1>1, <1>2, <2>2 DEF Shaped
    <3>2. Progress'
      BY <1>1, <1>3, <2>1, <2>2 DEF Progress, HostReplies
    <3> QED BY <3>1, <3>2
  <2>3. CASE Len(replies') = Lookups /\ Finish(Answered(replies'), None)
    <3>1. Shaped'
      BY <1>1, <1>2, <2>3, AnsweredShaped DEF Shaped, Finish
    <3>2. Answered(replies)' = Answered(replies')
      BY <1>1 DEF Answered, HTTPResult, Page, DNSResult, ConnectionResult,
        FoldLeft, MapThenFoldSet, Filtered, OfFamily
    <3>3. Ended'
      BY <1>1, <1>3, <2>1, <2>3, <3>2 DEF Ended, Finish
    <3>4. Progress'
      BY <2>3, <3>3 DEF Progress, Finish
    <3> QED BY <3>1, <3>4
  <2> QED BY <1>6, <2>2, <2>3 DEF HostReplies
<1> QED BY <1>5, <1>6 DEF HostReplies

\* How a check has ended depends on nothing that changes later.
LEMMA EndedKept ==
  ASSUME UNCHANGED <<kind, cfg, replies, result, err>> PROVE Ended' <=> Ended
<1>1. Answered(replies)' = Answered(replies)
  BY DEF Answered, HTTPResult, Page, DNSResult, ConnectionResult,
    FoldLeft, MapThenFoldSet, Filtered, OfFamily
<1>2. Refused' <=> Refused
  BY DEF Refused, Lookups, Undialable, AdapterFails
<1>3. (Sendable' <=> Sendable) /\ (NoneFails' <=> NoneFails)
  BY DEF Sendable, NoneFails, ValidConfig, Undialable, Lookups, AdapterFails
<1>4. (ValidConfig' <=> ValidConfig) /\ Lookups' = Lookups
  BY DEF ValidConfig, Lookups
<1> QED BY <1>1, <1>2, <1>3, <1>4 DEF Ended

\* The last word of _observe.
LEMMA ObserveKeeps == Shaped /\ Progress /\ Observe => Shaped' /\ Progress'
<1> SUFFICES ASSUME Shaped, Progress, Observe PROVE Shaped' /\ Progress'
  OBVIOUS
<1>1. Observed \in Outcomes(Observed.data)
  BY OutcomesShaped DEF Observed, Shaped
<1>2. Shaped' BY <1>1 DEF Observe, Shaped
<1>3. Ended' <=> Ended
  BY EndedKept DEF Observe
<1>4. Observed' = Observed BY DEF Observe, Observed
<1> QED BY <1>2, <1>3, <1>4 DEF Observe, Progress

\* Every step keeps both parts of the invariant.
LEMMA Inductive == Shaped /\ Progress /\ [Next]_vars => Shaped' /\ Progress'
<1>1. ASSUME Shaped, Progress, UNCHANGED vars PROVE Shaped' /\ Progress'
  <2>1. Shaped' BY <1>1 DEF vars, Shaped
  <2>2. Ended' <=> Ended BY <1>1, EndedKept DEF vars
  <2>3. (Sendable' <=> Sendable) /\ Lookups' = Lookups /\ (NoneFails' <=> NoneFails)
    BY <1>1 DEF vars, Sendable, NoneFails, ValidConfig, Undialable, Lookups, AdapterFails
  <2>4. Request' = Request /\ Observed' = Observed
    BY <1>1 DEF vars, Request, SentHost, SentTimeout, Observed
  <2> QED BY <1>1, <2>1, <2>2, <2>3, <2>4 DEF vars, Progress
<1> QED BY <1>1, ParseKeeps, HostRepliesKeeps, ObserveKeeps DEF Next

-----------------------------------------------------------------------------
\* What ValidConfig means, as the properties say it.
LEMMA ValidMeansInRange ==
  ASSUME ConfigShape(cfg)
  PROVE  ValidConfig <=> cfg.present /\ (kind \in {"tcp", "smtp"} => PortInRange)
<1>1. ValidPort(GetInt(cfg.port)) <=> 2 <= cfg.port.halves /\ cfg.port.halves <= 131071
  BY PortsInRange DEF ConfigShape
<1> QED BY <1>1 DEF ConfigShape, ValidConfig, PortInRange

\* With every reply usable, the Result is a success if the last one is what
\* the check is for.
LEMMA AnsweredMeets ==
  ASSUME Shaped, Sendable, Len(replies) = Lookups, NoneFails
  PROVE  Answered(replies).status = "success" <=> Meets(replies[Len(replies)])
<1>1. ConfigShape(cfg) /\ kind \in Kinds
  BY ConfigsShaped DEF Shaped
<1>2. kind # "dns" => Len(replies) = 1
  BY DEF Lookups
<1>3. \A i \in DOMAIN replies : replies[i] \in Replies(kind)
  BY DEF Shaped
<1>4. DOMAIN replies = 1..Len(replies) /\ Len(replies) \in Nat
  BY DEF Shaped
<1>5. CASE kind = "http"
  <2>1. replies[1].status \in 0..999 /\ replies[1].needleAt \in Nat
    BY <1>1, <1>2, <1>3, <1>4, <1>5, RepliesShaped
  <2>2. (replies[1].status = GetInt(cfg.status)) <=>
          cfg.status.halves - 2 * replies[1].status
            \in (IF cfg.status.halves >= 0 THEN {0, 1} ELSE {-1, 0})
    <3> DEFINE h == cfg.status.halves
               n == GetInt(cfg.status)
               status == replies[1].status
    <3>1. Converted(h, n) /\ status \in 0..999
      BY <1>1, <2>1, GetIntConverts DEF ConfigShape
    <3> HIDE DEF h, n, status
    <3>2. status = n <=> h - 2 * status \in (IF h >= 0 THEN {0, 1} ELSE {-1, 0})
      BY <3>1, ChecksAssumption DEF Converted, Cut
    <3> QED BY <3>2 DEF h, n, status
  <2>3. Answered(replies) = HTTPResult(replies[1])
    BY <1>5 DEF Answered
  <2>4. Meets(replies[1]) <=>
          /\ IsNumber(cfg.status) => replies[1].status = GetInt(cfg.status)
          /\ cfg.needle => replies[1].needleAt # 0
    BY <1>5, <2>1, <2>2 DEF Meets
  <2>5. HTTPResult(replies[1]).status = "success" <=>
          /\ IsNumber(cfg.status) => replies[1].status = GetInt(cfg.status)
          /\ cfg.needle => replies[1].needleAt # 0
    BY DEF HTTPResult, Success, Failure, Outcome
  <2> QED BY <1>2, <1>5, <2>3, <2>4, <2>5
<1>6. CASE kind = "dns"
  <2>1. Answered(replies).status = "success"
    BY <1>6 DEF Answered, DNSResult, Success, Outcome
  <2>2. Lookups > 0
    BY DEF Sendable
  <2>3. ~AdapterFails(replies[Len(replies)])
    BY <1>4, <2>2 DEF NoneFails
  <2> QED BY <1>6, <2>1, <2>3 DEF Meets, AdapterFails
<1>7. CASE kind \in {"tcp", "smtp"}
  BY <1>2, <1>7
  DEF Answered, ConnectionResult, Meets, Success, Error, Outcome
<1> QED BY <1>1, <1>5, <1>6, <1>7 DEF Kinds

(* What a check keeps has its type (RunHTTPCheck, RunDNSCheck, RunTCPCheck,*)
(* RunSMTPCheck and _observe), for every config and every answer.          *)
THEOREM TypeCorrect == Spec => []TypeOK
<1>1. Shaped => TypeOK
  BY DEF Shaped, TypeOK
<1> QED BY Initially, Inductive, <1>1, PTL DEF Spec

(* _observe reports a success exactly when the config was valid, every     *)
(* call answered and the last answer what the check is for.                *)
THEOREM SuccessCorrect == Spec => []SuccessMeansAnswered
<1>1. Shaped /\ Progress => SuccessMeansAnswered
  <2> SUFFICES ASSUME Shaped, Progress, pc = "observed"
               PROVE
        evidence.status = "success" <=>
          /\ cfg.present /\ (kind \in {"tcp", "smtp"} => PortInRange)
          /\ ~(kind = "dns" /\ cfg.record = "other")
          /\ Len(replies) = Lookups
          /\ \A i \in DOMAIN replies : replies[i].tag = "answer"
          /\ Meets(replies[Len(replies)])
    BY DEF SuccessMeansAnswered
  <2>1. Ended /\ evidence = Observed
    BY DEF Progress
  <2>2. ValidConfig <=> cfg.present /\ (kind \in {"tcp", "smtp"} => PortInRange)
    BY ConfigsShaped, ValidMeansInRange DEF Shaped
  <2>3. result.status # "success" => evidence.status # "success"
    BY <2>1 DEF Observed, Failure, Outcome
  <2>4. CASE ~ValidConfig /\ result = Error("config")
    <3>1. result.status # "success"
      BY <2>4 DEF Error, Outcome
    <3> QED BY <2>2, <2>3, <2>4, <3>1
  <2>5. CASE Refused /\ result = Error("network")
    <3>1. result.status # "success"
      BY <2>5 DEF Error, Outcome
    <3>2. CASE replies = <<>> /\ (Lookups = 0 \/ Undialable)
      <4>1. Len(replies) = 0
        BY <3>2
      <4>2. Lookups = 0 => kind = "dns" /\ cfg.record = "other"
        BY DEF Lookups
      <4>3. Undialable => Lookups # 0
        BY DEF Undialable, Lookups
      <4> QED BY <2>3, <3>1, <3>2, <4>1, <4>2, <4>3
    <3>3. ASSUME NEW i \in DOMAIN replies, AdapterFails(replies[i])
          PROVE  ~(/\ Len(replies) = Lookups
                   /\ \A j \in DOMAIN replies : replies[j].tag = "answer"
                   /\ Meets(replies[Len(replies)]))
      <4>1. replies[i].tag # "answer"
            \/ (kind = "dns" /\ cfg.record = "CNAME" /\ replies[i].records = <<>>)
        BY <3>3 DEF AdapterFails
      <4>2. CASE kind = "dns" /\ cfg.record = "CNAME" /\ replies[i].records = <<>>
        <5>1. Lookups = 1
          BY <4>2 DEF Lookups
        <5>2. Len(replies) = 1 => i = 1
          BY DEF Shaped
        <5> QED BY <4>2, <5>1, <5>2 DEF Meets
      <4> QED BY <4>1, <4>2
    <3> QED BY <2>3, <2>5, <3>1, <3>2, <3>3 DEF Refused
  <2>6. CASE /\ Sendable /\ Len(replies) = Lookups /\ NoneFails
             /\ result = Answered(replies) /\ err = None
    <3>1. evidence = Answered(replies)
      BY <2>1, <2>6 DEF Observed
    <3>2. evidence.status = "success" <=> Meets(replies[Len(replies)])
      BY <2>6, <3>1, AnsweredMeets
    <3>3. \A i \in DOMAIN replies : replies[i].tag = "answer"
      BY <2>6 DEF NoneFails, AdapterFails
    <3>4. ValidConfig /\ ~(kind = "dns" /\ cfg.record = "other")
      BY <2>6 DEF Sendable, Lookups
    <3> QED BY <2>2, <2>6, <3>2, <3>3, <3>4
  <2> QED BY <2>1, <2>4, <2>5, <2>6 DEF Ended
<1> QED BY Initially, Inductive, <1>1, PTL DEF Spec

(* A config without what a check needs (MustGetString, MustGetInt, the     *)
(* range of a port) comes back as a "config" error, and no other does; the *)
(* host is never called for it.                                            *)
THEOREM BadConfigCorrect == Spec => []BadConfigStaysHome
<1>1. Shaped /\ Progress => BadConfigStaysHome
  <2> SUFFICES ASSUME Shaped, Progress, pc = "observed"
               PROVE  /\ ~ValidConfig <=> evidence = Error("config")
                      /\ evidence = Error("config") => replies = <<>>
    BY ConfigsShaped, ValidMeansInRange DEF Shaped, BadConfigStaysHome
  <2>1. Ended /\ evidence = Observed
    BY DEF Progress
  <2>2. \A data : /\ Success(data) # Error("config")
                  /\ Failure(data) # Error("config")
    BY DEF Success, Failure, Error, Outcome
  <2>3. Error("network") # Error("config")
    BY DEF Error, Outcome
  <2>4. kind \in Kinds => Answered(replies) # Error("config")
    BY <2>2, <2>3
    DEF Answered, HTTPResult, DNSResult, ConnectionResult, Kinds
  <2> QED BY <2>1, <2>2, <2>3, <2>4 DEF Ended, Observed, Shaped, Sendable
<1> QED BY Initially, Inductive, <1>1, PTL DEF Spec

(* tcp and smtp ask the host for the port of the config, without its       *)
(* fraction, and for its timeout or their default; a time.Duration changes *)
(* no timeout that fits it, however wide it is.                            *)
THEOREM RequestsCorrect == Spec => []RequestAsConfigured
<1>1. Shaped /\ Progress => RequestAsConfigured
  <2> SUFFICES ASSUME Shaped, Progress, pc = "call", kind \in {"tcp", "smtp"}
               PROVE
        LET ms == IF ~IsNumber(cfg.timeout) THEN (IF kind = "tcp" THEN 5000 ELSE 30000)
                  ELSE IF cfg.timeout.halves < 0 THEN -((-cfg.timeout.halves) \div 2)
                  ELSE cfg.timeout.halves \div 2
        IN /\ 1 <= request.port /\ request.port <= 65535
           /\ 2 * request.port - cfg.port.halves \in {0, -1}
           /\ (IF kind = "tcp" THEN ms ELSE ms * NanosPerMs)
                  \in (-HalfRange)..(HalfRange - 1)
                => request.timeout = ms
    BY DEF RequestAsConfigured
  <2> DEFINE
        ms == IF ~IsNumber(cfg.timeout) THEN (IF kind = "tcp" THEN 5000 ELSE 30000)
              ELSE IF cfg.timeout.halves < 0 THEN -((-cfg.timeout.halves) \div 2)
              ELSE cfg.timeout.halves \div 2
  <2>1. ValidConfig /\ request = Request /\ ConfigShape(cfg)
    BY ConfigsShaped DEF Progress, Sendable, Shaped
  <2>2. request.port = GetInt(cfg.port) /\ ValidPort(GetInt(cfg.port))
    <3>1. IsNumber(cfg.port) /\ ValidPort(GetInt(cfg.port))
      BY <2>1 DEF ValidConfig
    <3>2. GetInt(cfg.port) \in Int
      BY <2>1, GetIntType DEF ConfigShape
    <3> QED BY <2>1, <3>1, <3>2 DEF Request, GetIntDefault
  <2>3. 2 * request.port - cfg.port.halves \in {0, -1}
    <3> DEFINE h == cfg.port.halves
               n == GetInt(cfg.port)
    <3>1. Converted(h, n)
      BY <2>1, GetIntConverts DEF ConfigShape
    <3>2. 1 <= n /\ n <= 65535 /\ request.port = n
      BY <2>2 DEF ValidPort
    <3> HIDE DEF h, n
    <3>3. 2 * n - h \in {0, -1}
      BY <3>1, <3>2, CutInRange
    <3> QED BY <3>2, <3>3 DEF h
  <2>4. /\ ms \in Int
        /\ ms \in (-HalfRange)..(HalfRange - 1) =>
             ms = GetIntDefault(cfg.timeout, IF kind = "tcp" THEN 5000 ELSE 30000)
    <3> DEFINE h == cfg.timeout.halves
    <3>1. h \in Int /\ cfg.timeout \in Value
      BY <2>1 DEF ConfigShape, Value
    <3>2. CASE ~IsNumber(cfg.timeout)
      BY <3>2 DEF GetIntDefault
    <3>3. CASE IsNumber(cfg.timeout)
      <4>1. ms = Quotient(h, 2)
        BY <3>1, <3>3 DEF Quotient
      <4>2. Cut(h, ms)
        BY <3>1, <4>1, QuotientCuts
      <4>3. ms \in (-HalfRange)..(HalfRange - 1) => Fits(cfg.timeout)
        <5> HIDE DEF ms
        <5> QED BY <4>2, ChecksAssumption DEF Fits, Cut
      <4> QED BY <3>3, <4>1, <4>2, <4>3 DEF GetIntDefault, GetInt, Cut
    <3> QED BY <3>2, <3>3
  <2> HIDE DEF ms
  <2>6. CASE kind = "tcp"
    <3>1. ms \in (-HalfRange)..(HalfRange - 1) => request.timeout = ms
      BY <2>1, <2>4, <2>6 DEF Request, SentTimeout
    <3> QED BY <2>2, <2>3, <2>6, <3>1 DEF ms, ValidPort
  <2>7. CASE kind = "smtp"
    <3>2. ASSUME ms * NanosPerMs \in (-HalfRange)..(HalfRange - 1)
          PROVE  request.timeout = ms
      <4>1. ms \in (-HalfRange)..(HalfRange - 1)
        BY <2>4, <3>2, Within
      <4>2. request.timeout = ThroughDuration(ms)
        BY <2>1, <2>4, <2>7, <4>1 DEF Request, SentTimeout
      <4> QED BY <2>4, <3>2, <4>2, ThroughDurationExact
    <3> QED BY <2>2, <2>3, <2>7, <3>2 DEF ms, ValidPort
  <2> QED BY <2>6, <2>7
<1> QED BY Initially, Inductive, <1>1, PTL DEF Spec

(* A body of any length is cut where body_preview_length says (addBodyInfo)*)
(* and said to be cut exactly when some of it is missing.                  *)
THEOREM TruncationCorrect == Spec => []TruncationTold
<1>1. Shaped /\ Progress => TruncationTold
  <2> SUFFICES ASSUME Shaped, Progress, pc = "observed", kind = "http"
               PROVE
        LET data == evidence.data
        IN /\ data.truncated <=> data.shown < data.size
           /\ IsNumber(cfg.preview) /\ cfg.preview.halves >= 0
                => 2 * data.shown <= cfg.preview.halves
           /\ IsNumber(cfg.preview) /\ cfg.preview.halves <= -2 => ~data.truncated
    BY DEF TruncationTold
  <2>1. ConfigShape(cfg)
    BY ConfigsShaped DEF Shaped
  <2>2. evidence.data = NoData \/
          (Len(replies) = 1 /\ evidence.data = Page(replies[1]))
    <3>1. Ended /\ evidence = Observed
      BY DEF Progress
    <3>2. \A type : Error(type).data = NoData
      BY DEF Error, Outcome
    <3>3. \A data : Failure(data).data = data /\ Success(data).data = data
      BY DEF Failure, Success, Outcome
    <3>4. Answered(replies).data = Page(replies[1])
      BY <3>3 DEF Answered, HTTPResult
    <3>5. Lookups = 1
      BY DEF Lookups
    <3> QED BY <3>1, <3>2, <3>3, <3>4, <3>5 DEF Ended, Observed
  <2>3. CASE evidence.data = NoData
    BY <2>1, <2>3 DEF NoData, ConfigShape, Value
  <2>4. CASE Len(replies) = 1 /\ evidence.data = Page(replies[1])
    <3>1. replies[1].size \in 0..HalfRange
      <4>1. replies \in Seq(Replies(kind)) /\ kind \in Kinds
        BY DEF Shaped
      <4>2. replies[1] \in Replies(kind)
        BY <2>4, <4>1
      <4> QED BY <4>1, <4>2, RepliesShaped
    <3> DEFINE length == GetIntDefault(cfg.preview, 200)
               cut == length >= 0 /\ replies[1].size > length
    <3>2. length \in Int /\ cfg.preview \in Value /\ cfg.preview.halves \in Int
      BY <2>1, GetIntType DEF GetIntDefault, ConfigShape, Value
    <3>3. IsNumber(cfg.preview) => length = GetInt(cfg.preview)
      BY DEF GetIntDefault
    <3> DEFINE h == cfg.preview.halves
               size == replies[1].size
    <3>4. IsNumber(cfg.preview) => Converted(h, length)
      BY <3>2, <3>3, GetIntConverts
    <3>5. CASE cut
      <4>1. /\ evidence.data.size = size /\ evidence.data.shown = length
            /\ evidence.data.truncated = TRUE
        BY ZenonT(60), <2>4, <3>5 DEF Page, NoData
      <4> HIDE DEF length, h, size
      <4>2. length \in Int /\ h \in Int /\ size \in Int /\ length >= 0 /\ length < size
        BY <3>1, <3>2, <3>5 DEF h, size
      <4>3. IsNumber(cfg.preview) => (h >= 0 => 2 * length <= h) /\ ~(h <= -2)
        BY <3>4, <4>2, ChecksAssumption DEF Converted, Cut
      <4> QED BY <4>1, <4>2, <4>3 DEF h
    <3>6. CASE ~cut
      <4>1. /\ evidence.data.size = size /\ evidence.data.shown = size
            /\ evidence.data.truncated = FALSE
        BY <2>4, <3>6 DEF Page, NoData
      <4> HIDE DEF length, h, size
      <4>2. /\ length \in Int /\ h \in Int /\ size \in 0..HalfRange
            /\ length < 0 \/ size <= length
        BY <3>1, <3>2, <3>6 DEF h, size
      <4>3. IsNumber(cfg.preview) /\ h >= 0 => 2 * size <= h
        BY <3>4, <4>2, ChecksAssumption DEF Converted, Cut
      <4> QED BY <4>1, <4>2, <4>3 DEF h
    <3> QED BY <3>5, <3>6
  <2> QED BY <2>2, <2>3, <2>4
<1> QED BY Initially, Inductive, <1>1, PTL DEF Spec

-----------------------------------------------------------------------------
\* The forms of address an A or AAAA check keeps.
Family == IF cfg.record = "A" THEN {"v4", "mapped"} ELSE {"v6"}

\* What is kept of an answer is kept record by record.
LEMMA FilteredSteps ==
  ASSUME NEW given \in Seq(RecordForms)
  PROVE  \E kept \in [0..Len(given) -> Seq(RecordForms)] :
           /\ kept[0] = <<>>
           /\ \A i \in 1..Len(given) : kept[i] = Filtered(kept[i - 1], given[i])
           /\ FoldLeft(Filtered, <<>>, given) = kept[Len(given)]
<1> DEFINE n == Len(given)
           D == Seq(RecordForms)
           Folds(h) == h = [S \in SUBSET DOMAIN given |->
                              IF S = {} THEN <<>>
                              ELSE Filtered(h[S \ {Max(S)}], given[Max(S)])]
           fold == CHOOSE h : Folds(h)
           step == [at \in D \X (1..n) |-> Filtered(at[1], given[at[2]])]
<1>1. n \in Nat /\ DOMAIN given = 1..n /\ \A i \in 1..n : given[i] \in RecordForms
  OBVIOUS
<1>2. FoldLeft(Filtered, <<>>, given) = fold[DOMAIN given]
  BY DEF FoldLeft, MapThenFoldSet
<1>3. step \in [D \X (1..n) -> D] /\ <<>> \in D
  <2>1. \A s \in D, f \in RecordForms : Filtered(s, f) \in D
    BY DEF Filtered
  <2> QED BY <1>1, <2>1
<1>4. \A s \in D, i \in 1..n : step[<<s, i>>] = Filtered(s, given[i])
  OBVIOUS
<1> HIDE DEF n, step, fold, D
<1>5. PICK f \in [SUBSET (1..n) -> D] : FoldsWith(f, n, <<>>, step)
  BY <1>1, <1>3, FoldExists
<1>6. Folds(f)
  <2> SUFFICES ASSUME NEW S \in SUBSET (1..n), S # {}
               PROVE  f[S] = Filtered(f[S \ {Max(S)}], given[Max(S)])
    BY <1>1, <1>5 DEF FoldsWith
  <2>1. Max(S) \in 1..n /\ f[S \ {Max(S)}] \in D
    BY <1>1, MaxIn
  <2> QED BY <1>4, <1>5, <2>1 DEF FoldsWith
<1>7. Folds(fold)
  BY <1>6 DEF fold
<1>8. fold[{}] = <<>>
  BY <1>1, <1>7
<1>9. FoldsOver(fold, n, D, <<>>, step)
  <2> SUFFICES ASSUME NEW S \in SUBSET (1..n), S # {}, fold[S \ {Max(S)}] \in D
               PROVE  fold[S] = step[<<fold[S \ {Max(S)}], Max(S)>>]
    BY <1>8 DEF FoldsOver
  <2>1. Max(S) \in 1..n
    BY <1>1, MaxIn
  <2>2. fold[S] = Filtered(fold[S \ {Max(S)}], given[Max(S)])
    BY <1>1, <1>7
  <2> QED BY <1>4, <2>1, <2>2
<1> HIDE DEF Folds
<1>10. PICK kept \in [0..n -> D] : StepsTo(kept, n, <<>>, step, fold[1..n])
  BY <1>1, <1>3, <1>9, FoldSteps
<1>11. \A i \in 1..n : kept[i] = Filtered(kept[i - 1], given[i])
  <2> SUFFICES ASSUME NEW i \in 1..n PROVE kept[i] = Filtered(kept[i - 1], given[i])
    OBVIOUS
  <2>1. i - 1 \in 0..n
    BY <1>1
  <2> QED BY <1>4, <1>10, <2>1 DEF Steps, StepsTo
<1> QED BY <1>1, <1>2, <1>10, <1>11 DEF n, D, Steps, StepsTo

\* Of an answer, everything of the family is kept, and as often as it is
\* there.
LEMMA KeepsFamily ==
  ASSUME NEW given \in Seq(RecordForms)
  PROVE  LET kept == FoldLeft(Filtered, <<>>, given)
         IN  /\ Len(kept) = Count(given, Family)
             /\ \A form \in Family : Count(kept, {form}) = Count(given, {form})
<1> DEFINE n == Len(given)
           D == Seq(RecordForms)
<1>1. n \in Nat /\ DOMAIN given = 1..n /\ \A i \in 1..n : given[i] \in RecordForms
  OBVIOUS
<1>2. PICK kept \in [0..n -> D] :
        /\ kept[0] = <<>>
        /\ \A i \in 1..n : kept[i] = Filtered(kept[i - 1], given[i])
        /\ FoldLeft(Filtered, <<>>, given) = kept[n]
  BY FilteredSteps
<1>3. \A f : OfFamily(f) <=> f \in Family
  BY DEF OfFamily, Family
<1> HIDE DEF n
<1> DEFINE First(i, S) == {j \in 1..i : given[j] \in S}
           Counted(i) ==
             /\ Len(kept[i]) = Cardinality(First(i, Family))
             /\ \A form \in Family :
                  Cardinality(Marked(kept[i], {form})) = Cardinality(First(i, {form}))
           P == {i \in 0..n : Counted(i)}
<1>4. ASSUME NEW i \in 0..(n - 1), NEW S
      PROVE  /\ Cardinality(First(i, S)) \in Nat
             /\ Cardinality(First(i + 1, S)) =
                  IF given[i + 1] \in S THEN Cardinality(First(i, S)) + 1
                                        ELSE Cardinality(First(i, S))
  <2>1. i \in Nat
    BY <1>1
  <2>2. IsFiniteSet(1..i)
    BY <2>1, FS_Interval
  <2>3. IsFiniteSet(First(i, S)) /\ Cardinality(First(i, S)) \in Nat
    <3>1. First(i, S) \subseteq 1..i
      OBVIOUS
    <3> HIDE DEF First
    <3> QED BY <2>2, <3>1, FS_Subset, FS_CardinalityType
  <2>4. /\ \A j \in 1..(i + 1) : j \in 1..i \/ j = i + 1
        /\ i + 1 \in 1..(i + 1) /\ i + 1 \notin 1..i /\ \A j \in 1..i : j \in 1..(i + 1)
    BY <2>1
  <2>5. First(i + 1, S) =
          IF given[i + 1] \in S THEN First(i, S) \cup {i + 1} ELSE First(i, S)
    BY <2>4
  <2>6. i + 1 \notin First(i, S)
    BY <2>4
  <2> HIDE DEF First
  <2>7. CASE given[i + 1] \in S
    <3>1. Cardinality(First(i, S) \cup {i + 1}) = Cardinality(First(i, S)) + 1
      BY <2>3, <2>6, FS_AddElement
    <3> QED BY <2>3, <2>5, <2>7, <3>1
  <2>8. CASE given[i + 1] \notin S
    BY <2>3, <2>5, <2>8
  <2> QED BY <2>7, <2>8
<1>5. 0 \in P
  <2>1. 0 \in 0..n /\ 1..0 = {}
    BY <1>1
  <2>2. \A S : First(0, S) = {} /\ Marked(kept[0], S) = {}
    BY <1>2, <2>1 DEF Marked
  <2>3. Len(kept[0]) = 0 /\ Cardinality({}) = 0
    BY <1>2, FS_EmptySet
  <2> HIDE DEF First
  <2> QED BY <2>1, <2>2, <2>3
<1>6. ASSUME NEW i \in 0..(n - 1), i \in P PROVE i + 1 \in P
  <2>1. i \in 0..n /\ i + 1 \in 1..n /\ (i + 1) - 1 = i /\ i + 1 \in 0..n
    BY <1>1
  <2>2. kept[i + 1] = Filtered(kept[i], given[i + 1])
    BY <1>2, <2>1
  <2>3. kept[i] \in Seq(RecordForms) /\ given[i + 1] \in RecordForms
    BY <1>1, <1>2, <2>1
  <2>4. Counted(i)
    BY <1>6
  <2> HIDE DEF First
  <2>5. CASE given[i + 1] \in Family
    <3>1. kept[i + 1] = Append(kept[i], given[i + 1])
      BY <1>3, <2>2, <2>5 DEF Filtered
    <3>2. Len(kept[i + 1]) = Len(kept[i]) + 1
      BY <2>3, <3>1
    <3>3. Len(kept[i + 1]) = Cardinality(First(i + 1, Family))
      <4>1. Cardinality(First(i + 1, Family)) = Cardinality(First(i, Family)) + 1
        BY <1>4, <2>5
      <4> QED BY <2>4, <3>2, <4>1
    <3>4. ASSUME NEW form \in Family
          PROVE  Cardinality(Marked(kept[i + 1], {form})) = Cardinality(First(i + 1, {form}))
      <4>1. Cardinality(Marked(kept[i + 1], {form})) =
              IF given[i + 1] \in {form} THEN Cardinality(Marked(kept[i], {form})) + 1
                                         ELSE Cardinality(Marked(kept[i], {form}))
        <5> DEFINE s == kept[i]
                   e == given[i + 1]
                   S == {form}
        <5>1. s \in Seq(RecordForms) /\ e \in RecordForms
          BY <2>3
        <5> HIDE DEF s, e, S
        <5>2. Cardinality(Marked(Append(s, e), S)) =
                IF e \in S THEN Cardinality(Marked(s, S)) + 1 ELSE Cardinality(Marked(s, S))
          BY <5>1, MarkedAppend
        <5> QED BY <3>1, <5>2 DEF s, e, S
      <4>2. Cardinality(Marked(kept[i], {form})) = Cardinality(First(i, {form}))
        BY <2>4
      <4>3. Cardinality(First(i + 1, {form})) =
              IF given[i + 1] \in {form} THEN Cardinality(First(i, {form})) + 1
                                         ELSE Cardinality(First(i, {form}))
        BY <1>4
      <4> QED BY <4>1, <4>2, <4>3
    <3>5. Counted(i + 1)
      BY <3>3, <3>4
    <3> QED BY <2>1, <3>5
  <2>6. CASE given[i + 1] \notin Family
    <3>1. kept[i + 1] = kept[i]
      BY <1>3, <2>2, <2>6 DEF Filtered
    <3>2. Cardinality(First(i + 1, Family)) = Cardinality(First(i, Family))
      BY <1>4, <2>6
    <3>3. ASSUME NEW form \in Family
          PROVE  Cardinality(First(i + 1, {form})) = Cardinality(First(i, {form}))
      <4>1. given[i + 1] \notin {form}
        BY <2>6
      <4> QED BY <1>4, <4>1
    <3>4. Counted(i + 1)
      BY <2>4, <3>1, <3>2, <3>3
    <3> QED BY <2>1, <3>4
  <2> QED BY <2>5, <2>6
<1> HIDE DEF P
<1>7. 0..n \subseteq P
  BY <1>1, <1>5, <1>6, InductTo
<1>8. n \in 0..n
  BY <1>1
<1>9. Counted(n)
  BY <1>7, <1>8 DEF P
<1>10. \A S : First(n, S) = {i \in DOMAIN given : given[i] \in S}
  BY <1>1
<1> QED BY <1>2, <1>9, <1>10 DEF Count, Marked

\* The records of a reply.
LEMMA RecordsShaped ==
  ASSUME NEW reply \in Replies("dns") PROVE reply.records \in Seq(RecordForms)
<1> DEFINE
      statuses == Read(FALSE, PageStatuses, 0)
      sizes    == Read(FALSE, Sizes, 0)
      lists    == UNION {[1..n -> RecordForms] : n \in 0..MaxRecords}
      dialled  == Read(FALSE, BOOLEAN, FALSE)
      tags     == {"nothing", "error"} \cup Read(FALSE, {"truncated"}, "error")
      answers  == [tag : {"answer"}, status : statuses, size : sizes, needleAt : sizes,
                   records : lists, connected : dialled]
<1>1. reply \in {NoAnswer(tag) : tag \in tags} \/ reply \in answers
  BY DEF Replies, Read
<1>2. lists \subseteq Seq(RecordForms)
  <2> SUFFICES ASSUME NEW n \in 0..MaxRecords, NEW s \in [1..n -> RecordForms]
               PROVE  s \in Seq(RecordForms)
    OBVIOUS
  <2>1. n \in Nat
    BY ChecksAssumption
  <2> QED BY <2>1
<1> HIDE DEF statuses, sizes, lists, dialled, tags
<1>3. CASE reply \in {NoAnswer(tag) : tag \in tags}
  <2>1. reply.records = <<>>
    BY <1>3 DEF NoAnswer
  <2> QED BY <2>1
<1>4. CASE reply \in answers
  BY <1>2, <1>4
<1> QED BY <1>1, <1>3, <1>4

(* Of the addresses in the answers to both lookups, however many they are, *)
(* LookupHost and performDNSLookup leave an A check every IPv4 one and an  *)
(* AAAA check every other one, as often as it was given.                   *)
THEOREM AddressesCorrect == Spec => []AddressesOfFamily
<1>1. Shaped /\ Progress => AddressesOfFamily
  <2> SUFFICES ASSUME Shaped, Progress, pc = "observed", kind = "dns",
                      cfg.record \in {"A", "AAAA"}, evidence.status = "success"
               PROVE
        LET given == replies[1].records \o replies[2].records
            records == evidence.data.records
        IN /\ Len(records) = Count(given, Family)
           /\ \A form \in Family : Count(records, {form}) = Count(given, {form})
    BY DEF AddressesOfFamily, Family
  <2> DEFINE given == replies[1].records \o replies[2].records
             kept == FoldLeft(Filtered, <<>>, given)
  <2>1. Ended /\ evidence = Observed /\ Lookups = 2
    BY DEF Progress, Lookups
  <2>2. result.status # "success" => evidence.status # "success"
    BY <2>1 DEF Observed, Failure, Outcome
  <2>3. Error("config").status # "success" /\ Error("network").status # "success"
    BY DEF Error, Outcome
  <2>4. Len(replies) = 2 /\ result = Answered(replies) /\ err = None
    BY <2>1, <2>2, <2>3 DEF Ended
  <2>5. given \in Seq(RecordForms)
    <3>1. replies \in Seq(Replies("dns"))
      BY DEF Shaped
    <3>2. replies[1] \in Replies("dns") /\ replies[2] \in Replies("dns")
      BY SMTT(60), <2>4, <3>1
    <3>3. replies[1].records \in Seq(RecordForms) /\ replies[2].records \in Seq(RecordForms)
      BY <3>2, RecordsShaped
    <3> QED BY <3>3
  <2>6. evidence.data.records = kept
    <3>1. evidence = DNSResult(replies)
      BY <2>1, <2>4 DEF Observed, Answered
    <3> HIDE DEF kept
    <3>2. DNSResult(replies) = Success([NoData EXCEPT !.records = kept])
      BY DEF DNSResult, kept
    <3> QED BY <3>1, <3>2 DEF Success, Outcome, NoData
  <2> HIDE DEF given
  <2>7. /\ Len(kept) = Count(given, Family)
        /\ \A form \in Family : Count(kept, {form}) = Count(given, {form})
    BY <2>5, KeepsFamily
  <2> QED BY <2>6, <2>7 DEF given
<1> QED BY Initially, Inductive, <1>1, PTL DEF Spec
=============================================================================
