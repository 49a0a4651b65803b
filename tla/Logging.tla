------------------------------- MODULE Logging -------------------------------
(***************************************************************************)
(* The slog handler of the log package: handlers are created with options  *)
(* (NewHandler), derived from one another by slog's With and WithGroup     *)
(* (WithAttrs, WithGroup), and handle the records that pass their level    *)
(* (Enabled), each of which becomes one log_message to the host (Handle,   *)
(* toLogAttrWire).  A handler is immutable and outlives the call that made *)
(* it: a plugin keeps its loggers in package variables.                    *)
(*                                                                         *)
(* Levels are a few integers; of an attribute its kind is kept, of a       *)
(* message its attributes, and of its time whether JSON has a form for it. *)
(***************************************************************************)
EXTENDS Integers, Sequences

CONSTANTS
  Levels,        \* the levels of records and of handlers
  Info,          \* the default one
  Kinds,         \* the kinds of attributes that are logged
  MaxHandlers,   \* bounds the handlers
  MaxRecords     \* bounds the records

\* The kinds of a resolved slog.Value; those after "group" are of KindAny: an
\* error, a nil pointer of an error type that reads it, nil, and what JSON can
\* hold and what not.
SlogKinds == {"string", "int64", "uint64", "bool", "float64", "time", "duration",
              "group", "error", "nil error", "nil", "jsonable", "other"}

ASSUME LogAssumption ==
  /\ Levels \subseteq Int /\ Info \in Levels
  /\ Kinds \subseteq SlogKinds
  /\ MaxHandlers \in Nat \ {0} /\ MaxRecords \in Nat

VARIABLES
  handlers,   \* the handlers, oldest first: each [level]
  meant,      \* history: for each, the level it was configured with and the
              \* attributes its loggers were given with With
  logged,     \* history: the records that were logged, oldest first
  hostLog,    \* the messages the host got, oldest first
  console     \* the records printed instead

logVars == <<handlers, meant, logged, hostLog, console>>

\* init: the default handler, and one record through it.
Greeting == [handler |-> 1, level |-> Info, attrs |-> {}, encodable |-> TRUE]

LogInit ==
  /\ handlers = <<[level |-> Info]>>
  /\ meant = <<[level |-> Info, attrs |-> {}]>>
  /\ logged = <<Greeting>>
  /\ hostLog = <<[level |-> Info, attrs |-> {}]>>
  /\ console = <<>>

-----------------------------------------------------------------------------
(* NewHandler, with its level given by WithLevel or not.                   *)
NewHandler(level) ==
  /\ Len(handlers) < MaxHandlers
  /\ handlers' = Append(handlers, [level |-> level])
  /\ meant' = Append(meant, [level |-> level, attrs |-> {}])
  /\ UNCHANGED <<logged, hostLog, console>>

\* WithAttrs and WithGroup return a copy of the handler, and nothing of the
\* attributes or the group.
Derived(h) == h

WithAttrs(i, attrs) ==
  /\ Len(handlers) < MaxHandlers
  /\ handlers' = Append(handlers, Derived(handlers[i]))
  /\ meant' = Append(meant, [meant[i] EXCEPT !.attrs = @ \cup attrs])
  /\ UNCHANGED <<logged, hostLog, console>>

\* The mutant drops the records of the very level that was asked for.
Enabled_Above(h, level) == level > h.level
Enabled(h, level) == level >= h.level

\* toLogAttrWire: the type an attribute has on the wire; the mutant takes the
\* error of json.Marshal the other way round.
WireType_MarshalErr(kind) ==
  CASE kind = "other" -> "json"
    [] kind \in {"nil", "jsonable"} -> "any"
    [] OTHER -> kind
WireType(kind) ==
  CASE kind = "jsonable" -> "json"
    [] kind \in {"nil", "other"} -> "any"
    [] OTHER -> kind

\* Handle: err.Error() on a nil pointer panics, out of the logging call into
\* the plugin's method; a message that cannot be marshalled is printed.
Panics(record) == "nil error" \in record.attrs

Handle(record) ==
  IF Panics(record) THEN UNCHANGED <<hostLog, console>>
  ELSE IF record.encodable
  THEN /\ hostLog' = Append(hostLog, [level |-> record.level,
                                      attrs |-> {WireType(k) : k \in record.attrs}])
       /\ UNCHANGED console
  ELSE console' = Append(console, record.level) /\ UNCHANGED hostLog

(* A record is logged: slog asks Enabled and calls Handle.                 *)
Log(record) ==
  /\ Len(logged) < MaxRecords
  /\ logged' = Append(logged, record)
  /\ IF Enabled(handlers[record.handler], record.level) THEN Handle(record)
     ELSE UNCHANGED <<hostLog, console>>
  /\ UNCHANGED <<handlers, meant>>

Records == [handler : DOMAIN handlers, level : Levels,
            attrs : {{}} \cup {{k} : k \in Kinds}, encodable : BOOLEAN]

LogNext ==
  \/ \E level \in Levels : NewHandler(level)
  \/ \E i \in DOMAIN handlers, k \in Kinds : WithAttrs(i, {k})
  \/ \E record \in Records : Log(record)

LogSpec == LogInit /\ [][LogNext]_logVars

-----------------------------------------------------------------------------
\* The level a record's handler was configured with, by the plugin, however
\* many loggers it was derived through.
Passes(record) == record.level >= meant[record.handler].level

\* Where those were logged that are told, with a JSON form or without.
Told(encodable) ==
  {i \in DOMAIN logged : /\ Passes(logged[i]) /\ ~Panics(logged[i])
                         /\ logged[i].encodable = encodable}

\* The ways n messages can be the records at some positions, all of them and
\* in their order: at most one.
Orders(n, positions) ==
  {of \in [1..n -> positions] :
     /\ \A i \in positions : \E k \in 1..n : of[k] = i
     /\ \A j, k \in 1..n : j < k => of[j] < of[k]}

\* The kinds of attributes that a type on the wire tells of.
Means(type) ==
  {kind \in SlogKinds :
     CASE type = "json" -> kind = "jsonable"
       [] type = "any" -> kind \in {"nil", "other"}
       [] OTHER -> kind = type}

\* A message tells of a record: at its level, of each of its attributes, and
\* of nothing else.
Tells(message, record) ==
  /\ message.level = record.level
  /\ \A kind \in record.attrs : \E type \in message.attrs : kind \in Means(type)
  /\ \A type \in message.attrs : \E kind \in record.attrs : kind \in Means(type)

(* Every record that reaches the level its handler's first ancestor was    *)
(* configured with is told exactly once, in the order of logging, with a   *)
(* type for each attribute that means its kind (an error as an error, be it*)
(* one JSON can hold): to the host, or on the console if the message has no*)
(* JSON form, unless the logging call panics; no other record is.          *)
ToldInOrder ==
  /\ \E of \in Orders(Len(hostLog), Told(TRUE)) :
       \A k \in DOMAIN hostLog : Tells(hostLog[k], logged[of[k]])
  /\ \E of \in Orders(Len(console), Told(FALSE)) :
       \A k \in DOMAIN console : console[k] = logged[of[k]].level

(* "WithAttrs returns a new WasmLogHandler that includes the given         *)
(* attributes": what With was given is in every message the logger sends.  *)
AttrsIncluded ==
  [][Len(hostLog') > Len(hostLog) =>
       LET record == logged'[Len(logged')]
       IN  {WireType(k) : k \in record.attrs \cup meant[record.handler].attrs}
             \subseteq hostLog'[Len(hostLog')].attrs]_logVars
=============================================================================
