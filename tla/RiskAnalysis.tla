---------------------------- MODULE RiskAnalysis ----------------------------
(***************************************************************************)
(* SimpleRiskAnalyzer.Analyze (domain/entities/risk.go): what it reports   *)
(* of a GrantSet, while the grants of a plugin are collected one by one in *)
(* any order.  A host is a wildcard or named, and of the paths, commands   *)
(* and variables of a rule only whether there are any is kept.             *)
(***************************************************************************)
EXTENDS Integers, Sequences, SequencesExt

CONSTANTS
  NoGrants,   \* a nil GrantSet
  MaxRules    \* bounds the rules for the network, and those for files

RiskNone == 0
RiskLow == 1
RiskMedium == 2
RiskHigh == 3
RiskCritical == 4

HostForms == {"*", "0.0.0.0", "named"}
Accesses == {"read", "write"}

\* A GrantSet: a rule for the network is its hosts, one for files the accesses
\* it lists.
GrantSets == [network : Seq(SUBSET HostForms), fs : Seq(SUBSET Accesses),
              exec : BOOLEAN, env : BOOLEAN, kv : BOOLEAN]

ASSUME RiskAssumption == MaxRules \in Nat /\ NoGrants \notin GrantSets

VARIABLES
  grants,   \* the GrantSet, NoGrants before the first grant
  report    \* what Analyze reports of it

riskVars == <<grants, report>>

Empty == [network |-> <<>>, fs |-> <<>>, exec |-> FALSE, env |-> FALSE, kv |-> FALSE]

-----------------------------------------------------------------------------
\* One wildcard among a rule's hosts is enough; the mutant asks it of all.
IsWildcardHost_All(hosts) == hosts # {} /\ hosts \subseteq {"*", "0.0.0.0"}
IsWildcardHost(hosts) == hosts \cap {"*", "0.0.0.0"} # {}

NetworkFactor(hosts) == IF IsWildcardHost(hosts) THEN RiskCritical ELSE RiskMedium

FSFactors(accesses) ==
  (IF "write" \in accesses THEN <<RiskHigh>> ELSE <<>>) \o
  (IF "read" \in accesses THEN <<RiskMedium>> ELSE <<>>)

\* The levels of the risk factors, in the order they are added; those of a
\* key-value store are not looked at.
Factors(g) ==
  [i \in DOMAIN g.network |-> NetworkFactor(g.network[i])]
    \o FlattenSeq([i \in DOMAIN g.fs |-> FSFactors(g.fs[i])])
    \o (IF g.exec THEN <<RiskCritical>> ELSE <<>>)
    \o (IF g.env THEN <<RiskLow>> ELSE <<>>)

\* addFactor: the level is raised to a factor's.  The mutant takes the last.
Raised_Last(level, factor) == factor
Raised(level, factor) == IF factor > level THEN factor ELSE level

Analyze(g) ==
  LET factors == IF g = NoGrants THEN <<>> ELSE Factors(g)
  IN  [level |-> FoldLeft(Raised, RiskNone, factors), factors |-> factors]

-----------------------------------------------------------------------------
RiskInit == grants = NoGrants /\ report = Analyze(NoGrants)

Granted == IF grants = NoGrants THEN Empty ELSE grants

(* One more grant, and the analysis of all of them.                        *)
Grant(field, value) ==
  /\ grants' = [Granted EXCEPT ![field] = value]
  /\ report' = Analyze(grants')

RiskNext ==
  \/ \E hosts \in SUBSET HostForms :
       Len(Granted.network) < MaxRules /\ Grant("network", Append(Granted.network, hosts))
  \/ \E accesses \in SUBSET Accesses :
       Len(Granted.fs) < MaxRules /\ Grant("fs", Append(Granted.fs, accesses))
  \/ \E field \in {"exec", "env", "kv"} : Grant(field, TRUE)

RiskSpec == RiskInit /\ [][RiskNext]_riskVars

-----------------------------------------------------------------------------
Occurrences(factors, level) == Cardinality({i \in DOMAIN factors : factors[i] = level})

(* A plugin that is granted more is never reported as less of a risk, in   *)
(* whatever order the grants come, and no risk factor is lost.             *)
RiskNeverFalls ==
  [][/\ report'.level >= report.level
     /\ \A level \in RiskNone..RiskCritical :
          Occurrences(report'.factors, level) >= Occurrences(report.factors, level)]_riskVars

(* The level says what the worst thing granted is: commands, or a network  *)
(* rule with a host that stands for all, are critical, writing is high,    *)
(* reading or any other network rule, even one without hosts, is medium,   *)
(* variables are low; a key-value store, and a filesystem rule that lists  *)
(* nothing to read or write, are no risk at all.                           *)
LevelIsWorst ==
  LET all == Granted
      access(kind) == \E i \in DOMAIN all.fs : kind \in all.fs[i]
      open == \E i \in DOMAIN all.network, h \in {"*", "0.0.0.0"} : h \in all.network[i]
  IN  /\ report.level = RiskCritical <=> all.exec \/ open
      /\ report.level >= RiskHigh <=> all.exec \/ open \/ access("write")
      /\ report.level >= RiskMedium <=>
           all.exec \/ access("write") \/ access("read") \/ all.network # <<>>
      /\ report.level = RiskNone <=>
           /\ ~all.exec /\ ~all.env /\ all.network = <<>>
           /\ ~access("read") /\ ~access("write")
=============================================================================
