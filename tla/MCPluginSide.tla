---------------------------- MODULE MCPluginSide ----------------------------
(***************************************************************************)
(* The parts of the SDK that plugin code calls without crossing to the     *)
(* host, or with a single crossing: none reads what another one writes, so *)
(* that each is run by itself, with the others at rest.                    *)
(***************************************************************************)
EXTENDS ErrorChains, Handlers, HostClients, Logging, RiskAnalysis

VARIABLE part   \* the one that is run

MCDurations == {-1, 0, 1, 20}
MCCounts == {-1, 0, 2}

Init ==
  /\ ChainInit /\ HandlerInit /\ ClientInit /\ LogInit /\ RiskInit
  /\ part \in {"errors", "handlers", "clients", "logging", "risk"}
  /\ part # "errors" => chain = <<"plain">>
  /\ part # "handlers" => op = "typed" /\ raw = "empty"
  /\ part # "clients" => kind = "exec"

Next ==
  /\ part' = part
  /\ \/ /\ part = "errors" /\ ChainNext
        /\ UNCHANGED <<handlerVars, clientVars, logVars, riskVars>>
     \/ /\ part = "handlers" /\ HandlerNext
        /\ UNCHANGED <<chainVars, clientVars, logVars, riskVars>>
     \/ /\ part = "clients" /\ ClientNext
        /\ UNCHANGED <<chainVars, handlerVars, logVars, riskVars>>
     \/ /\ part = "logging" /\ LogNext
        /\ UNCHANGED <<chainVars, handlerVars, clientVars, riskVars>>
     \/ /\ part = "risk" /\ RiskNext
        /\ UNCHANGED <<chainVars, handlerVars, clientVars, logVars>>

(* Errors and operations are well typed (ToErrorDetail, wrapTypedMethod).  *)
TypeOK == ChainTypeOK /\ HandlerTypeOK

Spec == Init /\ [][Next]_<<part, chainVars, handlerVars, clientVars, logVars, riskVars>>
=============================================================================
