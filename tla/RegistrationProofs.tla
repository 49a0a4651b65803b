------------------------- MODULE RegistrationProofs -------------------------
(***************************************************************************)
(* Theorems about Registration, for every set of callers, service structs, *)
(* fields and types, and every naming of operations.                       *)
(***************************************************************************)
EXTENDS Registration, TLAPS

Entry(s, op) == [types |-> op.types, service |-> s, method |-> op.method]

\* The catalog new serves what the catalog old does, and one operation more.
Adds(new, old, s, op) ==
  /\ Serves(new, s.name, op.name)
  /\ \A n, o : Serves(old, n, o) => Serves(new, n, o)
  /\ \A n, o : Serves(new, n, o) =>
       \/ n = s.name /\ o = op.name /\ new[n].operations[o] = Entry(s, op)
       \/ /\ Serves(old, n, o)
          /\ new[n].operations[o] = old[n].operations[o]

\* What RegisterHandler adds to the catalog, and that it changes nothing else.
LEMMA Handlers ==
  ASSUME NEW catalog, NEW s, NEW op
  PROVE  Adds(RegisterHandler(catalog, s, op), catalog, s, op)
<1> DEFINE new   == RegisterHandler(catalog, s, op)
           known == s.name \in DOMAIN catalog
           old   == IF known THEN catalog[s.name].operations ELSE [o \in {} |-> Missing]
<1>1. /\ DOMAIN new = DOMAIN catalog \cup {s.name}
      /\ \A n \in DOMAIN catalog : n # s.name => new[n] = catalog[n]
  BY DEF RegisterHandler
<1>2. new[s.name].operations =
        [o \in DOMAIN old \cup {op.name} |->
           IF o = op.name THEN Entry(s, op) ELSE old[o]]
  BY DEF RegisterHandler, Entry
<1>3. \A o : Serves(new, s.name, o) <=> o \in DOMAIN old \cup {op.name}
  BY <1>1, <1>2 DEF Serves
<1>4. \A o : o \in DOMAIN old <=> Serves(catalog, s.name, o)
  BY DEF Serves
<1>5. \A o : Serves(catalog, s.name, o) => catalog[s.name].operations[o] = old[o]
  BY DEF Serves
<1>6. \A n, o : n # s.name => (Serves(new, n, o) <=> Serves(catalog, n, o))
  BY <1>1 DEF Serves
<1>7. \A n, o : n # s.name /\ Serves(catalog, n, o) =>
        new[n].operations[o] = catalog[n].operations[o]
  BY <1>1 DEF Serves
<1>8. \A o : Serves(new, s.name, o) =>
        \/ o = op.name /\ new[s.name].operations[o] = Entry(s, op)
        \/ Serves(catalog, s.name, o) /\ new[s.name].operations[o] = old[o]
  <2> HIDE DEF old
  <2> QED BY <1>2, <1>3, <1>4
<1> HIDE DEF old, known, new
<1>9. Serves(new, s.name, op.name) /\ \A n, o : Serves(catalog, n, o) => Serves(new, n, o)
  BY <1>3, <1>4, <1>6
<1>10. \A n, o : Serves(new, n, o) =>
         \/ n = s.name /\ o = op.name /\ new[n].operations[o] = Entry(s, op)
         \/ /\ Serves(catalog, n, o)
            /\ new[n].operations[o] = catalog[n].operations[o]
  BY <1>5, <1>6, <1>7, <1>8
<1>11. Adds(new, catalog, s, op)
  BY <1>9, <1>10 DEF Adds
<1> QED BY <1>11 DEF new

-----------------------------------------------------------------------------
\* What is true of an entry of the service n for the operation o, and of a
\* call by itself.
EntryOK(n, o, e) ==
  /\ AsksFor(e, n, o)
  /\ e.service.methods[e.method] =
       IF e.types = <<NoType, NoType>> THEN <<Request, Result>> ELSE e.types

CallOK(k) ==
  /\ k \in Call
  /\ k.pc # "idle" => k.svc \in Structs
  /\ \A i \in 1..Len(k.ops) :
       i \in 1..Len(k.svc.fields) /\ OpInfoOK(k.svc.fields[i], k.ops[i])
  /\ k.pc = "extract" => Len(k.ops) < Len(k.svc.fields)
  /\ k.pc = "register" => k.registered < Len(k.ops)

\* The operations a call has registered are served.
Registered(catalog, k) ==
  \A i \in 1..k.registered :
    Serves(catalog, k.svc.name, SnakeCase[k.svc.fields[i].field])

IInv ==
  /\ opRegistry \in [Fields -> OpTypes \cup {Missing}]
  /\ \A n, o : Serves(services, n, o) => EntryOK(n, o, services[n].operations[o])
  /\ call \in [Callers -> Call]
  /\ \A c \in Callers : CallOK(call[c]) /\ Registered(services, call[c])

\* The invariant has the properties in it.
LEMMA Implied == IInv => TypeOK /\ ManifestMatchesMethod /\ RegisteredStays
<1> SUFFICES ASSUME IInv PROVE TypeOK /\ ManifestMatchesMethod /\ RegisteredStays
  OBVIOUS
<1>1. \A n \in DOMAIN services : \A o \in DOMAIN services[n].operations :
        EntryOK(n, o, services[n].operations[o])
  BY DEF IInv, Serves
<1>2. TypeOK
  BY <1>1 DEF IInv, TypeOK, EntryOK, AsksFor, CallOK
<1>3. ManifestMatchesMethod
  BY <1>1 DEF ManifestMatchesMethod, EntryOK
<1>4. RegisteredStays
  <2> SUFFICES ASSUME NEW c \in Callers, NEW i \in 1..call[c].registered
               PROVE  LET name == call[c].svc.name
                          o    == SnakeCase[call[c].svc.fields[i].field]
                      IN /\ Serves(services, name, o)
                         /\ AsksFor(services[name].operations[o], name, o)
    BY DEF RegisteredStays
  <2> DEFINE name == call[c].svc.name
             o    == SnakeCase[call[c].svc.fields[i].field]
  <2>1. Serves(services, name, o)
    BY DEF IInv, Registered
  <2>2. EntryOK(name, o, services[name].operations[o])
    BY <2>1 DEF IInv
  <2> QED BY <2>1, <2>2 DEF EntryOK
<1> QED BY <1>2, <1>3, <1>4

\* Nothing is registered at first.
LEMMA Initially == Init => IInv
<1> SUFFICES ASSUME Init PROVE IInv
  OBVIOUS
<1> DEFINE k == In("idle", Missing, <<>>, 0)
<1>1. k \in Call
  BY DEF In, Call
<1>2. CallOK(k) /\ Registered(services, k)
  <2>1. 1..Len(k.ops) = {} /\ 1..k.registered = {} /\ k.pc = "idle"
    BY DEF In
  <2> QED BY <1>1, <2>1 DEF CallOK, Registered
<1> HIDE DEF k
<1>3. call = [c \in Callers |-> k]
  BY DEF Init, k
<1>4. \A n, o : ~Serves(services, n, o)
  BY DEF Init, Serves
<1>5. opRegistry \in [Fields -> OpTypes \cup {Missing}]
  BY DEF Init
<1> QED BY <1>1, <1>2, <1>3, <1>4, <1>5 DEF IInv

\* A step that changes one call, and serves what was served before.
LEMMA OneCall ==
  ASSUME IInv, NEW c \in Callers, NEW k,
         call' = [call EXCEPT ![c] = k],
         CallOK(k), Registered(services', k),
         \A n, o : Serves(services, n, o) => Serves(services', n, o)
  PROVE  /\ call' \in [Callers -> Call]
         /\ \A d \in Callers : CallOK(call'[d]) /\ Registered(services', call'[d])
<1>1. k \in Call
  BY DEF CallOK
<1>2. call' \in [Callers -> Call]
  BY <1>1 DEF IInv
<1>3. ASSUME NEW d \in Callers
      PROVE  CallOK(call'[d]) /\ Registered(services', call'[d])
  <2>1. CASE d = c
    BY <2>1 DEF IInv
  <2>2. CASE d # c
    <3>1. call'[d] = call[d]
      BY <2>2 DEF IInv
    <3>2. CallOK(call[d]) /\ Registered(services, call[d])
      BY DEF IInv
    <3> QED BY <3>1, <3>2 DEF Registered
  <2> QED BY <2>1, <2>2
<1> QED BY <1>2, <1>3

\* A call that returns is as it should be.
LEMMA Returned ==
  ASSUME NEW k, CallOK(k), k.pc # "idle", NEW registered \in Nat,
         NEW pc \in {"ok", "failed", "panicked"}
  PROVE  CallOK(In(pc, k.svc, <<>>, registered))
<1> DEFINE r == In(pc, k.svc, <<>>, registered)
<1>1. r.pc = pc /\ r.svc = k.svc /\ r.ops = <<>> /\ r.registered = registered
  BY DEF In
<1>2. r \in Call
  BY DEF In, Call, CallOK
<1>3. 1..Len(r.ops) = {}
  BY <1>1
<1> QED BY <1>1, <1>2, <1>3 DEF CallOK

\* Extracting an operation keeps the invariant.
LEMMA ExtractStep ==
  ASSUME IInv, NEW c \in Callers, ExtractOperation(c)
  PROVE  IInv'
<1> DEFINE s   == call[c].svc
           n   == Len(call[c].ops) + 1
           f   == s.fields[n]
           op  == Extract(f)
           ops == Append(call[c].ops, op)
<1>1. /\ CallOK(call[c]) /\ call[c].pc = "extract" /\ call[c].ops \in Seq(OpInfo)
      /\ s \in Structs /\ Len(call[c].ops) < Len(s.fields)
  BY DEF IInv, CallOK, ExtractOperation, Call
<1>2. s.fields \in Seq(OpField) /\ n \in 1..Len(s.fields) /\ f \in OpField
  BY SMTT(60), <1>1, RegistrationAssumption
<1>3. CASE Unregistered(f) /\ Return(c, "failed", 0)
  <2> DEFINE k == In("failed", s, <<>>, 0)
  <2>1. CallOK(k)
    BY <1>1, Returned
  <2>2. Registered(services', k)
    <3>1. 1..k.registered = {}
      BY DEF In
    <3> QED BY <3>1 DEF Registered
  <2>3. call' = [call EXCEPT ![c] = k] /\ UNCHANGED <<opRegistry, services>>
    BY <1>3 DEF Return, Continue, ExtractOperation
  <2> HIDE DEF k
  <2> QED BY <2>1, <2>2, <2>3, OneCall DEF IInv
<1>4. CASE ~Unregistered(f) /\
           Continue(c, IF Len(ops) < Len(s.fields) THEN "extract" ELSE "register", ops, 0)
  <2> DEFINE pc == IF Len(ops) < Len(s.fields) THEN "extract" ELSE "register"
             k  == In(pc, s, ops, 0)
  <2>1. op \in OpInfo /\ OpInfoOK(f, op)
    <3>1. f.field \in Fields /\ f.typed \in BOOLEAN /\ f.method \in Methods
      BY SMTT(60), <1>2 DEF OpField
    <3>2. f.typed => opRegistry[f.field] \in OpTypes
      BY <1>4, <3>1 DEF IInv, Unregistered
    <3>3. <<NoType, NoType>> \in OpTypes
      BY DEF OpTypes
    <3> QED BY ZenonT(60), <3>1, <3>2, <3>3 DEF Extract, OpInfo, OpInfoOK
  <2>2. /\ ops \in Seq(OpInfo) /\ Len(ops) = n
        /\ \A i \in 1..n : ops[i] = IF i = n THEN op ELSE call[c].ops[i]
    BY <1>1, <2>1
  <2> HIDE DEF ops, op
  <2>3. k.pc = pc /\ k.svc = s /\ k.ops = ops /\ k.registered = 0
    BY DEF In
  <2>4. k \in Call
    BY <1>1, <2>2 DEF In, Call
  <2>5. \A i \in 1..Len(k.ops) :
          i \in 1..Len(k.svc.fields) /\ OpInfoOK(k.svc.fields[i], k.ops[i])
    <3> HIDE DEF k
    <3>0. n \in 1..Len(s.fields) /\ Len(s.fields) \in Nat /\ n \in Nat
      BY <1>2
    <3>4. \A i \in 1..n : i \in 1..Len(s.fields)
      <4> HIDE DEF n, s
      <4> QED BY <3>0
    <3> SUFFICES ASSUME NEW i \in 1..n PROVE OpInfoOK(s.fields[i], ops[i])
      BY <2>2, <2>3, <3>4
    <3>1. CASE i = n
      BY <2>1, <2>2, <3>1
    <3>2. CASE i # n
      <4>1. i \in 1..Len(call[c].ops) /\ ops[i] = call[c].ops[i]
        BY SMTT(60), <1>1, <2>2, <3>2
      <4> QED BY <1>1, <4>1 DEF CallOK
    <3> QED BY <3>1, <3>2
  <2>6. CallOK(k)
    BY <1>1, <2>2, <2>3, <2>4, <2>5 DEF CallOK
  <2>7. Registered(services', k)
    <3>1. 1..k.registered = {}
      BY <2>3
    <3> QED BY <3>1 DEF Registered
  <2>8. call' = [call EXCEPT ![c] = k] /\ UNCHANGED <<opRegistry, services>>
    BY SMTT(60), <1>4 DEF Continue, ExtractOperation
  <2> HIDE DEF k
  <2> QED BY <2>6, <2>7, <2>8, OneCall DEF IInv
<1> QED BY <1>3, <1>4 DEF ExtractOperation

\* Registering an operation keeps the invariant.
LEMMA RegisterStep ==
  ASSUME IInv, NEW c \in Callers, RegisterOperation(c)
  PROVE  IInv'
<1> DEFINE s    == call[c].svc
           next == call[c].registered + 1
           op   == call[c].ops[next]
           found  == op.method \in DOMAIN s.methods
           panics == found /\ WrapPanics(op, s.methods[op.method])
           ok     == found /\ ~panics /\ Wraps(op, s.methods[op.method])
           ended  == IF panics THEN "panicked" ELSE "failed"
<1>1. /\ CallOK(call[c]) /\ Registered(services, call[c])
      /\ call[c].pc = "register" /\ call[c].ops \in Seq(OpInfo)
      /\ s \in Structs /\ call[c].registered \in Nat
      /\ call[c].registered < Len(call[c].ops)
  BY ZenonT(60) DEF IInv, CallOK, RegisterOperation, Call
<1>2. /\ next \in 1..Len(call[c].ops) /\ next \in Nat
      /\ op \in OpInfo /\ OpInfoOK(s.fields[next], op)
      /\ next \in 1..Len(s.fields)
  <2>1. Len(call[c].ops) \in Nat /\ next \in 1..Len(call[c].ops) /\ next \in Nat
    BY <1>1
  <2>2. op \in OpInfo
    BY <1>1, <2>1
  <2>3. next \in 1..Len(s.fields) /\ OpInfoOK(s.fields[next], op)
    <3>1. \A i \in 1..Len(call[c].ops) :
            i \in 1..Len(s.fields) /\ OpInfoOK(s.fields[i], call[c].ops[i])
      BY <1>1 DEF CallOK
    <3> QED BY <2>1, <3>1
  <2> QED BY <2>1, <2>2, <2>3
<1>3. CASE ~ok /\ Return(c, ended, call[c].registered) /\ UNCHANGED services
  <2> DEFINE k == In(ended, s, <<>>, call[c].registered)
  <2>1. CallOK(k)
    BY SMTT(60), <1>1, Returned
  <2>2. k.registered = call[c].registered /\ k.svc = s
    BY DEF In
  <2>3. Registered(services', k)
    BY ZenonT(60), <1>1, <1>3, <2>2 DEF Registered
  <2>4. call' = [call EXCEPT ![c] = k] /\ UNCHANGED <<opRegistry, services>>
    BY ZenonT(60), <1>3 DEF Return, Continue, RegisterOperation
  <2> HIDE DEF k
  <2> QED BY <2>1, <2>3, <2>4, OneCall DEF IInv
<1>4. CASE /\ ok
           /\ services' = RegisterHandler(services, s, op)
           /\ IF next < Len(call[c].ops)
              THEN Continue(c, "register", call[c].ops, next)
              ELSE Return(c, "ok", next)
  <2> DEFINE k == IF next < Len(call[c].ops) THEN In("register", s, call[c].ops, next)
                  ELSE In("ok", s, <<>>, next)
  <2>1. /\ Serves(services', s.name, op.name)
        /\ \A n, o : Serves(services, n, o) => Serves(services', n, o)
        /\ \A n, o : Serves(services', n, o) =>
             \/ n = s.name /\ o = op.name /\ services'[n].operations[o] = Entry(s, op)
             \/ /\ Serves(services, n, o)
                /\ services'[n].operations[o] = services[n].operations[o]
    <3>1. services' = RegisterHandler(services, s, op)
      BY ZenonT(60), <1>4
    <3>2. Adds(RegisterHandler(services, s, op), services, s, op)
      BY SMTT(60), Handlers
    <3> HIDE DEF s, op
    <3> QED BY <3>1, <3>2 DEF Adds
  <2>2. EntryOK(s.name, op.name, Entry(s, op))
    <3>1. s.methods[op.method] =
            IF op.types = <<NoType, NoType>> THEN <<Request, Result>> ELSE op.types
      <4>1. CASE op.typed
        <5>1. s.methods[op.method] = op.types /\ op.types[1] # NoType
          BY ZenonT(60), <1>4, <4>1 DEF Wraps, WrapPanics
        <5> QED BY SMTT(60), <5>1
      <4>2. CASE ~op.typed
        BY ZenonT(60), <1>2, <1>4, <4>2 DEF Wraps, OpInfoOK
      <4> QED BY SMTT(60), <4>1, <4>2
    <3>2. op.typed <=> op.types # <<NoType, NoType>>
      <4>1. CASE op.typed
        <5>1. op.types[1] # NoType
          BY ZenonT(60), <1>4, <4>1 DEF WrapPanics
        <5> QED BY SMTT(60), <4>1, <5>1
      <4>2. CASE ~op.typed
        BY ZenonT(60), <1>2, <4>2 DEF OpInfoOK
      <4> QED BY SMTT(60), <4>1, <4>2
    <3>3. AsksFor(Entry(s, op), s.name, op.name)
      <4>1. /\ SnakeCase[s.fields[next].field] = op.name
            /\ s.fields[next].method = op.method /\ s.fields[next].typed = op.typed
            /\ next \in 1..Len(s.fields) /\ s \in Structs
        BY ZenonT(60), <1>1, <1>2 DEF OpInfoOK
      <4> HIDE DEF s, op, next
      <4> QED BY SMTT(60), <3>2, <4>1 DEF Entry, AsksFor
    <3> QED BY ZenonT(60), <1>1, <3>1, <3>3 DEF Entry, EntryOK
  <2>3. \A n, o : Serves(services', n, o) => EntryOK(n, o, services'[n].operations[o])
    BY <2>1, <2>2 DEF IInv
  <2>4. CallOK(k)
    <3>1. CASE next < Len(call[c].ops)
      <4>1. k = In("register", s, call[c].ops, next)
        BY <3>1
      <4>2. /\ k.pc = "register" /\ k.svc = s /\ k.ops = call[c].ops
            /\ k.registered = next
        BY <4>1 DEF In
      <4>3. k \in Call
        BY <1>1, <1>2, <4>1 DEF In, Call
      <4> QED BY <1>1, <3>1, <4>2, <4>3 DEF CallOK
    <3>2. CASE ~(next < Len(call[c].ops))
      BY <1>1, <1>2, <3>2, Returned
    <3> QED BY <3>1, <3>2
  <2>5. k.registered = next /\ k.svc = s
    BY DEF In
  <2>6. Registered(services', k)
    <3> SUFFICES ASSUME NEW i \in 1..next
                 PROVE  Serves(services', s.name, SnakeCase[s.fields[i].field])
      BY SMTT(60), <2>5 DEF Registered
    <3>1. CASE i = next
      BY ZenonT(60), <1>2, <2>1, <3>1 DEF OpInfoOK
    <3>2. CASE i # next
      <4>1. i \in 1..call[c].registered
        BY SMTT(60), <1>1, <3>2
      <4> QED BY <1>1, <2>1, <4>1 DEF Registered
    <3> QED BY SMTT(60), <3>1, <3>2
  <2>7. call' = [call EXCEPT ![c] = k] /\ UNCHANGED opRegistry
    BY ZenonT(60), <1>4 DEF Return, Continue, RegisterOperation
  <2> HIDE DEF k
  <2> QED BY ZenonT(60), <2>1, <2>3, <2>4, <2>6, <2>7, OneCall DEF IInv
<1> QED BY ZenonT(60), <1>3, <1>4 DEF RegisterOperation

\* Every step keeps the invariant.
LEMMA Inductive == IInv /\ [Next]_vars => IInv'
<1> SUFFICES ASSUME IInv, [Next]_vars PROVE IInv'
  OBVIOUS
<1>1. CASE UNCHANGED vars
  BY <1>1 DEF vars, IInv
<1>2. ASSUME NEW c \in Callers, NEW op \in RegisterOps,
             RegisterOp(c, op[1], op[2], op[3])
      PROVE  IInv'
  <2>1. op[1] \in Fields /\ <<op[2], op[3]>> \in OpTypes
    BY RegistrationAssumption DEF OpTypes
  <2>2. opRegistry' \in [Fields -> OpTypes \cup {Missing}]
    BY <1>2, <2>1 DEF RegisterOp, IInv
  <2> QED BY <1>2, <2>2 DEF RegisterOp, IInv
<1>3. ASSUME NEW c \in Callers, NEW s \in Structs, RegisterService(c, s)
      PROVE  IInv'
  <2> DEFINE k == In("extract", s, <<>>, 0)
  <2>1. s.fields \in Seq(OpField) /\ 0 < Len(s.fields)
    BY <1>3, RegistrationAssumption DEF RegisterService
  <2>2. k.pc = "extract" /\ k.svc = s /\ k.ops = <<>> /\ k.registered = 0
    BY DEF In
  <2>3. k \in Call
    BY DEF In, Call
  <2>4. 1..Len(k.ops) = {} /\ 1..k.registered = {}
    BY <2>2
  <2>5. CallOK(k) /\ Registered(services', k)
    BY <2>1, <2>2, <2>3, <2>4 DEF CallOK, Registered
  <2>6. call' = [call EXCEPT ![c] = k] /\ UNCHANGED <<opRegistry, services>>
    BY <1>3 DEF RegisterService
  <2> HIDE DEF k
  <2> QED BY <2>5, <2>6, OneCall DEF IInv
<1> QED BY <1>1, <1>2, <1>3, ExtractStep, RegisterStep DEF Next

(* Whatever interleaving of RegisterOp and RegisterService, of any structs *)
(* on any goroutines: registries and calls have their types.               *)
THEOREM TypeCorrect == Spec => []TypeOK
BY Initially, Inductive, Implied, PTL DEF Spec

(* The types in the manifest are those of the method the handler calls.    *)
THEOREM CatalogCorrect == Spec => []ManifestMatchesMethod
BY Initially, Inductive, Implied, PTL DEF Spec

(* What was registered stays served, by one whole registration of its name,*)
(* also when the call of RegisterService that registered it has failed     *)
(* since.                                                                  *)
THEOREM ServedStays == Spec => []RegisteredStays
BY Initially, Inductive, Implied, PTL DEF Spec
=============================================================================
