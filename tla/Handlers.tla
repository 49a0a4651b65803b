------------------------------ MODULE Handlers ------------------------------
(***************************************************************************)
(* One request to one registered operation: the HandlerFunc that           *)
(* wrapTypedMethod or wrapLegacyMethod made of a service's method          *)
(* (application/plugin/service.go), and the two that call it: a plugin's   *)
(* Check, which returns what the handler did to _observe (plugin.go), and  *)
(* runExampleTest (testing.go), which decides whether an example passes.   *)
(* An operation is legacy if its field is a pointer to Op, or embeds it.   *)
(*                                                                         *)
(* The method is the plugin's: it may return anything its signature allows *)
(* or panic.  Of a message is kept whether it has the text an example      *)
(* expects ("expected" or "other"), of data what ExampleOutput keeps, and  *)
(* of a Result whether json.Marshal refuses it (refused), for something in *)
(* its data or its error's details.                                        *)
(***************************************************************************)
EXTENDS ExampleOutput

CONSTANT None   \* nil

Messages == {"expected", "other"}

Outputs == Objects(GoValues)

\* A Result that JSON takes; its data may be nil or without keys.
Built(status, type, message, data) ==
  [status |-> status, type |-> type, message |-> message, data |-> data, refused |-> FALSE]

Result(status, type, message) == Built(status, type, message, NoData)
Fine(data) == Built("success", None, "other", data)

\* The Results a method may build: an error Result has a detail or not, the
\* others any data, and each may have something that JSON refuses.
Results ==
       {Result(status, None, message) : status \in {"failure", "error"}, message \in Messages}
  \cup {Result("error", "own", message) : message \in Messages}
  \cup {Built(status, None, "other", data) : data \in Outputs, status \in {"success", "failure"}}

MethodResults == Results \cup {[result EXCEPT !.refused = TRUE] : result \in Results}

VARIABLES
  pc,        \* "dispatch", "running", "returned", "panicked" or "observed"
  op,        \* "typed" or "legacy"
  raw,       \* the request's config: "empty", "valid" or "invalid" JSON
  output,    \* history: what a typed method returned beside its error
  failed,    \* history: the message of the error a method returned, or None
  returned,  \* the handler's Result, or None
  err,       \* the message of the handler's error, or None
  evidence   \* the Result the host reads

request == <<op, raw>>
handlerVars == <<pc, request, output, failed, returned, err, evidence>>

HandlerInit ==
  /\ pc = "dispatch"
  /\ op \in {"typed", "legacy"}
  /\ raw \in {"empty", "valid", "invalid"}
  /\ output = None /\ failed = None
  /\ returned = None /\ err = None /\ evidence = None

-----------------------------------------------------------------------------
HandlerReturns(result, error) ==
  /\ pc' = "returned" /\ returned' = result /\ err' = error
  /\ UNCHANGED <<request, evidence>>

(* A typed handler parses the config; a legacy one gets it as it is.       *)
Dispatch ==
  /\ pc = "dispatch"
  /\ \/ /\ op = "typed" /\ raw = "invalid"
        /\ \E message \in Messages :
             HandlerReturns(Result("error", "config", message), None)
     \/ /\ ~(op = "typed" /\ raw = "invalid")
        /\ pc' = "running"
        /\ UNCHANGED <<request, returned, err, evidence>>
  /\ UNCHANGED <<output, failed>>

(* The method panics, as GetClient does if the request's client has not    *)
(* the type that is asked for.                                             *)
MethodPanics ==
  /\ pc = "running"
  /\ pc' = "panicked"
  /\ UNCHANGED <<request, output, failed, returned, err, evidence>>

\* The Result of a typed method's output and error: an error comes first, no
\* output is a success without data, and an output need not be a JSON object.
\* The mutant looks for an output first.
TypedResult_OutputFirst(out, data, error, message) ==
  IF out = "object" THEN Fine(ThroughJSON[data])
  ELSE IF error # None THEN Result("error", "execution", error)
  ELSE IF out = None THEN Fine(NoData)
  ELSE Result("error", "output", message)
TypedResult(out, data, error, message) ==
  IF error # None THEN Result("error", "execution", error)
  ELSE IF out = None THEN Fine(NoData)
  ELSE IF out = "object" THEN Fine(ThroughJSON[data])
  ELSE Result("error", "output", message)

\* data are what the method puts into its output.
TypedMethodReturns(out, data, error) ==
  /\ pc = "running" /\ op = "typed"
  /\ output' = out /\ failed' = error
  /\ \E message \in Messages : HandlerReturns(TypedResult(out, data, error, message), None)

LegacyMethodReturns(result, error) ==
  /\ pc = "running" /\ op = "legacy"
  /\ failed' = error
  /\ HandlerReturns(result, error)
  /\ UNCHANGED output

(* Check returns what the handler did; _observe sets the timestamp of the  *)
(* Result, so that a nil one panics, and a panic is recovered.             *)
Observed ==
  IF err # None THEN Result("failure", None, err)
  ELSE IF returned = None THEN Result("error", "panic", "other") ELSE returned

\* handleExportedCall: the host reads what JSON makes of the Result, or the
\* error of having refused it, with any message.
Exported(result, message) ==
  IF result.refused THEN Result("error", "internal", message)
  ELSE [result EXCEPT !.data = ThroughJSON[@]]

Observe ==
  /\ pc' = "observed"
  /\ \E message \in Messages :
       \/ pc = "returned" /\ evidence' = Exported(Observed, message)
       \/ pc = "panicked" /\ evidence' = Exported(Result("error", "panic", message), message)
  /\ UNCHANGED <<request, output, failed, returned, err>>

HandlerNext ==
  \/ Dispatch \/ MethodPanics
  \/ \E out \in {None, "object", "other"}, error \in Messages \cup {None} :
       \E data \in IF out = "object" THEN Outputs ELSE {NoData} :
         TypedMethodReturns(out, data, error)
  \/ \E result \in MethodResults \cup {None}, error \in Messages \cup {None} :
       LegacyMethodReturns(result, error)
  \/ Observe

HandlerSpec == HandlerInit /\ [][HandlerNext]_handlerVars

-----------------------------------------------------------------------------
(* runExampleTest: an example that expects an error passes if the error,   *)
(* or else the detail of an error Result, has the text.                    *)
ErrorExamplePasses ==
  /\ pc = "returned"
  /\ IF err # None THEN err = "expected"
     ELSE /\ returned # None /\ returned.status = "error"
          /\ returned.type # None /\ returned.message = "expected"

(* One that does not, if there is no error, and a Result that is none,     *)
(* whose data are as expected.                                             *)
OutputExamplePasses(expected) ==
  /\ pc = "returned" /\ err = None
  /\ returned # None /\ returned.status # "error"
  /\ VerifyOutput(expected, returned.data)

\* An expected output: an object, null, or a list, which no data have.  One
\* that is not given at all is as null.
Expectations == Objects(JSONValues) \cup {Null, Holding("[]any", <<>>)}

-----------------------------------------------------------------------------
\* What a handler returns or _observe makes of it, and what the host reads.
Returns ==
  MethodResults \cup {Fine(ThroughJSON[data]) : data \in Outputs} \cup
    {Result("error", type, message) :
       type \in {"config", "execution", "output", "panic", "internal"}, message \in Messages}

Evidences == Returns \cup {[result EXCEPT !.data = ThroughJSON[@]] : result \in Returns}

\* nil is no message, no output, no type of a detail and no Result.
ASSUME NoneAssumption ==
  /\ None \notin Messages
  /\ None \notin {"object", "own", "config", "execution", "output", "panic", "internal"}
  /\ None \notin Evidences

(* Every variable has its type.                                            *)
HandlerTypeOK ==
  /\ pc \in {"dispatch", "running", "returned", "panicked", "observed"}
  /\ op \in {"typed", "legacy"} /\ raw \in {"empty", "valid", "invalid"}
  /\ output \in {None, "object", "other"} /\ failed \in Messages \cup {None}
  /\ returned \in Returns \cup {None} /\ err \in Messages \cup {None}
  /\ evidence \in Evidences \cup {None}

(* An example that passes says what the host will read: the error with the *)
(* expected text, as an error or a failure, or the status and message of   *)
(* the Result whose data were compared, with all the data that were        *)
(* expected and maybe more.  Of a typed operation it is the very Result    *)
(* that was compared, and every such example passes.  Of a legacy one it   *)
(* may have null for a list or object that was expected empty, and an error*)
(* of the SDK's own if JSON refuses something that was not compared.  The  *)
(* test and _observe decide in different orders, the test on Go values.    *)
ExamplesAgreeWithHost ==
  [][pc = "returned" /\ pc' = "observed" =>
       LET refused == op = "legacy" /\ returned # None /\ returned.refused
           shown == Excerpts[evidence'.data, op = "legacy"]
       IN  /\ ErrorExamplePasses =>
                /\ evidence'.status \in {"error", "failure"}
                /\ \/ evidence'.message = "expected"
                   \/ refused /\ evidence'.type = "internal"
           /\ op = "typed" => evidence' = returned
           /\ \A expected \in Expectations :
                /\ OutputExamplePasses(expected) =>
                     IF refused THEN evidence'.status = "error" /\ evidence'.type = "internal"
                     ELSE /\ evidence'.status = returned.status
                          /\ evidence'.message = returned.message
                          /\ Demanded(expected) \in shown
                /\ op = "typed" /\ evidence'.status = "success" /\ Demanded(expected) \in shown
                     => OutputExamplePasses(expected)]_handlerVars

(* A typed operation is a success if and only if its config parsed, its    *)
(* method returned no error (beside an output or not) and its output could *)
(* be serialized; what else it does is an error with a detail, never a     *)
(* failure, and a panic only if the method panicked.                       *)
TypedOutcome ==
  op = "typed" /\ pc \in {"returned", "observed"} =>
    LET answer == IF pc = "observed" THEN evidence ELSE returned
    IN /\ answer.status = "success" <=>
            /\ raw # "invalid" /\ returned # None
            /\ failed = None /\ output # "other"
       /\ answer.status # "success" => answer.status = "error" /\ answer.type # None
       /\ answer.type = "panic" <=> returned = None
=============================================================================
