--------------------------- MODULE MCRegistration ---------------------------
(* Services for TLC: two of one name whose operations meet, one with two   *)
(* fields of the same snake case, and one whose second method is missing.  *)
EXTENDS Registration, TLC

CONSTANTS t1, t2

MCFields == {"GetURL", "GetUrl", "Put"}

MCMethods == {"Get", "Put", "Store", "Fetch"}

MCSnakeCase == [f \in MCFields |-> IF f = "Put" THEN "put" ELSE "get_url"]

Field(field, method, typed) == [field |-> field, method |-> method, typed |-> typed]

Web == [name |-> "web", desc |-> "first",
        fields |-> <<Field("GetURL", "Get", TRUE)>>,
        methods |-> [m \in {"Get"} |-> <<t1, t2>>]]

WebToo == [name |-> "web", desc |-> "second",
           fields |-> <<Field("Put", "Store", FALSE), Field("GetUrl", "Get", TRUE)>>,
           methods |-> [m \in {"Get", "Store"} |->
                          IF m = "Get" THEN <<t2, t2>> ELSE <<"Request", "Result">>]]

Twins == [name |-> "twins", desc |-> "third",
          fields |-> <<Field("GetURL", "Get", TRUE), Field("GetUrl", "Put", FALSE)>>,
          methods |-> [m \in {"Get", "Put"} |->
                         IF m = "Get" THEN <<t1, t1>> ELSE <<"Request", "Result">>]]

Broken == [name |-> "broken", desc |-> "fourth",
           fields |-> <<Field("Put", "Get", FALSE), Field("GetURL", "Fetch", TRUE)>>,
           methods |-> [m \in {"Get"} |-> <<"Request", "Result">>]]

\* An interface among them, as the output and as both.
MCRegisterOps ==
  {<<"GetURL", t1, t2>>, <<"GetURL", t1, t1>>, <<"GetUrl", t2, t2>>,
   <<"GetUrl", t2, NoType>>, <<"GetURL", NoType, NoType>>}

Symmetry == Permutations(Callers)

MCStructs == {Web, WebToo, Twins, Broken}
=============================================================================
