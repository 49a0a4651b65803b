---------------------------- MODULE Registration ----------------------------
(***************************************************************************)
(* How a plugin's operations get into its catalog                          *)
(* (application/plugin: op.go, service.go, definition.go).                 *)
(*                                                                         *)
(* RegisterOp puts the types of an Op field into a registry that all       *)
(* services share, by field name.  RegisterService reads that registry     *)
(* field by field, then registers the operations one by one; it holds the  *)
(* locks of the registry and of the catalog only for one access at a time, *)
(* and stops at the first operation it cannot wrap.  GetHandler and        *)
(* Manifest read the catalog.                                              *)
(*                                                                         *)
(* A service struct is what reflection sees of it: its Service tags, its   *)
(* Op fields in order, and the signatures of its methods.  A field of type *)
(* Op[I, O] is typed; a pointer to one, or a type that embeds one, is not. *)
(* A method that does not take and return two values of the right sort is  *)
(* as good as none; reflection has no type for an interface given to       *)
(* RegisterOp, but NoType.                                                 *)
(***************************************************************************)
EXTENDS Naturals, Sequences

CONSTANTS
  Callers,      \* goroutines that call the package
  Structs,      \* service structs
  RegisterOps,  \* the calls of RegisterOp: <<field, input, output>>
  Fields,       \* names of Op fields
  Methods,      \* names of methods
  SnakeCase,    \* the operation name of a field name: toSnakeCase
  Types,        \* input and output types
  NoType,       \* nil
  Missing       \* no such entry

OpField == [field : Fields, method : Methods, typed : BOOLEAN]

\* A struct is [name, desc, fields, methods]: the methods it has are those
\* in the domain of methods, which maps them to their <<input, output>>.
ASSUME RegistrationAssumption ==
  /\ NoType \notin Types
  /\ RegisterOps \subseteq Fields \X (Types \cup {NoType}) \X (Types \cup {NoType})
  /\ \A s \in Structs : s.fields \in Seq(OpField)

VARIABLES
  opRegistry,   \* the types registered for each field, or Missing
  services,     \* the catalog: a description and operations per service
  call          \* the RegisterService call each caller is in

vars == <<opRegistry, services, call>>

\* A call: where it is, its struct, the OpInfos it has extracted, and how
\* many operations it has registered.
In(pc, s, ops, registered) ==
  [pc |-> pc, svc |-> s, ops |-> ops, registered |-> registered]

(* An OpInfo is what extractOperations found out about a field.            *)
Extract(f) ==
  [name |-> SnakeCase[f.field], field |-> f.field, method |-> f.method,
   typed |-> f.typed,
   types |-> IF f.typed THEN opRegistry[f.field] ELSE <<NoType, NoType>>]

Init ==
  /\ opRegistry = [f \in Fields |-> Missing]
  /\ services = [n \in {} |-> Missing]
  /\ call = [c \in Callers |-> In("idle", Missing, <<>>, 0)]

Continue(c, pc, ops, registered) ==
  call' = [call EXCEPT ![c] = In(pc, call[c].svc, ops, registered)]

(* A call of RegisterService returns nil ("ok") or an error ("failed"), or *)
(* panics, after it has registered the first operations of its struct.     *)
Return(c, pc, registered) == Continue(c, pc, <<>>, registered)

\* A caller is in no call: it has not called yet, or its call returned, or it
\* recovered from the panic.
Free(c) == call[c].pc \in {"idle", "ok", "failed", "panicked"}

-----------------------------------------------------------------------------
(* RegisterOp overwrites what a field of that name registered before.      *)
RegisterOp(c, field, in, out) ==
  /\ Free(c)
  /\ opRegistry' = [opRegistry EXCEPT ![field] = <<in, out>>]
  /\ UNCHANGED <<services, call>>

(* RegisterService of a struct without a name or without operations fails  *)
(* before it has done anything: only the others are called here.           *)
RegisterService(c, s) ==
  /\ Free(c) /\ s.fields # <<>>
  /\ call' = [call EXCEPT ![c] = In("extract", s, <<>>, 0)]
  /\ UNCHANGED <<opRegistry, services>>

\* A typed field must have been registered.  The mutant does not check.
Unregistered_Never(f) == FALSE
Unregistered(f) == f.typed /\ opRegistry[f.field] = Missing

(* extractOperations, one field.                                           *)
ExtractOperation(c) ==
  /\ call[c].pc = "extract"
  /\ LET f   == call[c].svc.fields[Len(call[c].ops) + 1]
         ops == Append(call[c].ops, Extract(f))
     IN \/ Unregistered(f) /\ Return(c, "failed", 0)
        \/ /\ ~Unregistered(f)
           /\ Continue(c, IF Len(ops) < Len(call[c].svc.fields)
                          THEN "extract" ELSE "register", ops, 0)
  /\ UNCHANGED <<opRegistry, services>>

Request == "Request"
Result  == "Result"

\* Whether a method can be wrapped for an operation.  The mutant does not
\* compare the output type.
Wraps_AnyOutput(op, signature) ==
  IF op.typed THEN signature[1] = op.types[1] ELSE signature = <<Request, Result>>
Wraps(op, signature) ==
  IF op.typed THEN signature = op.types ELSE signature = <<Request, Result>>

\* wrapTypedMethod panics if it comes to a type that is nil: that of the input,
\* or that of the output once the input has been found to match.
WrapPanics(op, signature) ==
  op.typed /\ \/ op.types[1] = NoType
              \/ op.types[1] = signature[1] /\ op.types[2] = NoType

\* RegisterHandler in a catalog: the first description of a service stays,
\* an operation of the same name is replaced.  The mutant makes a
\* new service each time.
RegisterHandler_NewService(catalog, s, op) ==
  [n \in DOMAIN catalog \cup {s.name} |->
     IF n = s.name
     THEN [desc |-> IF n \in DOMAIN catalog THEN catalog[n].desc ELSE s.desc,
           operations |-> [o \in {op.name} |->
             [types |-> op.types, service |-> s, method |-> op.method]]]
     ELSE catalog[n]]
RegisterHandler(catalog, s, op) ==
  LET known == s.name \in DOMAIN catalog
      old   == IF known THEN catalog[s.name].operations ELSE [o \in {} |-> Missing]
      entry == [types |-> op.types, service |-> s, method |-> op.method]
  IN [n \in DOMAIN catalog \cup {s.name} |->
        IF n = s.name
        THEN [desc |-> IF known THEN catalog[n].desc ELSE s.desc,
              operations |-> [o \in DOMAIN old \cup {op.name} |->
                                IF o = op.name THEN entry ELSE old[o]]]
        ELSE catalog[n]]

(* One turn of the loop in RegisterService: the method is looked up and    *)
(* wrapped, and the operation registered, or the call ends with an error   *)
(* or a panic.                                                             *)
RegisterOperation(c) ==
  /\ call[c].pc = "register"
  /\ LET s    == call[c].svc
         next == call[c].registered + 1
         op   == call[c].ops[next]
         found  == op.method \in DOMAIN s.methods
         panics == found /\ WrapPanics(op, s.methods[op.method])
         ok     == found /\ ~panics /\ Wraps(op, s.methods[op.method])
     IN \/ /\ ~ok
           /\ Return(c, IF panics THEN "panicked" ELSE "failed", call[c].registered)
           /\ UNCHANGED services
        \/ /\ ok
           /\ services' = RegisterHandler(services, s, op)
           /\ IF next < Len(call[c].ops)
              THEN Continue(c, "register", call[c].ops, next)
              ELSE Return(c, "ok", next)
  /\ UNCHANGED opRegistry

Next ==
  \E c \in Callers :
    \/ \E op \in RegisterOps : RegisterOp(c, op[1], op[2], op[3])
    \/ \E s \in Structs : RegisterService(c, s)
    \/ ExtractOperation(c)
    \/ RegisterOperation(c)

Spec == Init /\ [][Next]_vars

-----------------------------------------------------------------------------
(* GetHandler: whether there is a handler. *)
Serves(catalog, name, op) ==
  name \in DOMAIN catalog /\ op \in DOMAIN catalog[name].operations

\* What RegisterOp captures.
OpTypes == (Types \cup {NoType}) \X (Types \cup {NoType})

OpInfo ==
  [name : {SnakeCase[f] : f \in Fields}, field : Fields, method : Methods,
   typed : BOOLEAN, types : OpTypes]

Call ==
  [pc : {"idle", "extract", "register", "ok", "failed", "panicked"},
   svc : Structs \cup {Missing}, ops : Seq(OpInfo), registered : Nat]

OpInfoOK(f, op) ==
  /\ op.name = SnakeCase[f.field] /\ op.field = f.field
  /\ op.method = f.method /\ op.typed = f.typed
  /\ ~f.typed => op.types = <<NoType, NoType>>

(* Every variable has its type: an OpInfo is that of its field, and has    *)
(* types only if it is typed.                                              *)
TypeOK ==
  /\ opRegistry \in [Fields -> OpTypes \cup {Missing}]
  /\ \A n \in DOMAIN services : \A o \in DOMAIN services[n].operations :
       LET e == services[n].operations[o]
       IN e.service \in Structs /\ e.service.name = n
  /\ call \in [Callers -> Call]
  /\ \A c \in Callers :
       /\ call[c].pc # "idle" => call[c].svc \in Structs
       /\ \A i \in 1..Len(call[c].ops) : OpInfoOK(call[c].svc.fields[i], call[c].ops[i])

(* The types the manifest shows for an operation are those of the method   *)
(* its handler calls, whatever was registered under the field's name by    *)
(* the time the operation was extracted, wrapped or registered; and none   *)
(* of them is the nil type of an interface.                                *)
ManifestMatchesMethod ==
  \A n \in DOMAIN services : \A o \in DOMAIN services[n].operations :
    LET e == services[n].operations[o]
    IN e.service.methods[e.method] =
         IF e.types = <<NoType, NoType>> THEN <<Request, Result>> ELSE e.types

\* Whether an entry is, as a whole, what a struct of that service name asks
\* for with one of the fields that stand for the operation o.
AsksFor(e, name, o) ==
  /\ e.service \in Structs /\ e.service.name = name
  /\ \E j \in 1..Len(e.service.fields) :
       LET f == e.service.fields[j]
       IN /\ SnakeCase[f.field] = o /\ f.method = e.method
          /\ f.typed <=> e.types # <<NoType, NoType>>

(* The operations that a call of RegisterService has registered are served *)
(* from then on, whether the call goes on, succeeds or fails, and whoever  *)
(* else registers: by its own field, or, once another field of the same    *)
(* operation name has silently replaced it, by that field alone, never by  *)
(* the method of one registration with the types or struct of another.     *)
RegisteredStays ==
  \A c \in Callers : \A i \in 1..call[c].registered :
    LET name == call[c].svc.name
        o    == SnakeCase[call[c].svc.fields[i].field]
    IN /\ Serves(services, name, o)
       /\ AsksFor(services[name].operations[o], name, o)
=============================================================================
