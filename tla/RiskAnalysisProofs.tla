------------------------- MODULE RiskAnalysisProofs -------------------------
(***************************************************************************)
(* Theorems about RiskAnalysis, for any number of rules.  Analyze is two   *)
(* loops, FoldLeft and FlattenSeq in the model; what they return is proved *)
(* with the lemmas of Induction.                                           *)
(***************************************************************************)
EXTENDS RiskAnalysis, Induction

\* addFactor, one factor at a time: FoldLeft as the loop it stands for.
LEMMA LevelSteps ==
  ASSUME NEW factors \in Seq(Int)
  PROVE  \E level \in [0..Len(factors) -> Int] :
           /\ level[0] = RiskNone
           /\ \A i \in 1..Len(factors) : level[i] = Raised(level[i - 1], factors[i])
           /\ FoldLeft(Raised, RiskNone, factors) = level[Len(factors)]
<1> DEFINE n == Len(factors)
           Folds(h) == h = [S \in SUBSET DOMAIN factors |->
                              IF S = {} THEN RiskNone
                              ELSE Raised(h[S \ {Max(S)}], factors[Max(S)])]
           fold == CHOOSE h : Folds(h)
           step == [at \in Int \X (1..n) |-> Raised(at[1], factors[at[2]])]
<1>1. n \in Nat /\ DOMAIN factors = 1..n /\ \A i \in 1..n : factors[i] \in Int
  OBVIOUS
<1>2. FoldLeft(Raised, RiskNone, factors) = fold[DOMAIN factors]
  BY DEF FoldLeft, MapThenFoldSet
<1>3. step \in [Int \X (1..n) -> Int] /\ RiskNone \in Int
  BY <1>1 DEF Raised, RiskNone
<1>4. \A l \in Int, i \in 1..n : step[<<l, i>>] = Raised(l, factors[i])
  OBVIOUS
<1> HIDE DEF n, step, fold
<1>5. PICK f \in [SUBSET (1..n) -> Int] : FoldsWith(f, n, RiskNone, step)
  BY <1>1, <1>3, FoldExists
<1>6. Folds(f)
  <2> SUFFICES ASSUME NEW S \in SUBSET (1..n), S # {}
               PROVE  f[S] = Raised(f[S \ {Max(S)}], factors[Max(S)])
    BY <1>1, <1>5 DEF FoldsWith
  <2>1. Max(S) \in 1..n /\ f[S \ {Max(S)}] \in Int
    BY <1>1, MaxIn
  <2> QED BY <1>4, <1>5, <2>1 DEF FoldsWith
<1>7. Folds(fold)
  BY <1>6 DEF fold
<1>8. fold[{}] = RiskNone
  BY <1>1, <1>7
<1>9. FoldsOver(fold, n, Int, RiskNone, step)
  <2> SUFFICES ASSUME NEW S \in SUBSET (1..n), S # {}, fold[S \ {Max(S)}] \in Int
               PROVE  fold[S] = step[<<fold[S \ {Max(S)}], Max(S)>>]
    BY <1>8 DEF FoldsOver
  <2>1. Max(S) \in 1..n
    BY <1>1, MaxIn
  <2>2. fold[S] = Raised(fold[S \ {Max(S)}], factors[Max(S)])
    BY <1>1, <1>7
  <2> QED BY <1>4, <2>1, <2>2
<1> HIDE DEF Folds
<1>10. PICK level \in [0..n -> Int] : StepsTo(level, n, RiskNone, step, fold[1..n])
  BY <1>1, <1>3, <1>9, FoldSteps
<1>11. \A i \in 1..n : level[i] = Raised(level[i - 1], factors[i])
  <2> SUFFICES ASSUME NEW i \in 1..n PROVE level[i] = Raised(level[i - 1], factors[i])
    OBVIOUS
  <2>1. i - 1 \in 0..n
    BY <1>1
  <2> QED BY <1>4, <1>10, <2>1 DEF Steps, StepsTo
<1> QED BY <1>1, <1>2, <1>10, <1>11 DEF n, Steps, StepsTo

\* The level is the highest of the factors, or none without any.
LEMMA LevelIsMax ==
  ASSUME NEW factors \in Seq(Int)
  PROVE  LET level == FoldLeft(Raised, RiskNone, factors)
         IN  /\ level \in Int /\ level >= RiskNone
             /\ \A f \in Range(factors) : f <= level
             /\ level = RiskNone \/ level \in Range(factors)
<1> DEFINE n == Len(factors)
<1>1. n \in Nat /\ \A i \in 1..n : factors[i] \in Int
  OBVIOUS
<1>2. Range(factors) = {factors[i] : i \in 1..n}
  BY RangeEquality
<1>3. PICK level \in [0..n -> Int] :
        /\ level[0] = RiskNone
        /\ \A i \in 1..n : level[i] = Raised(level[i - 1], factors[i])
        /\ FoldLeft(Raised, RiskNone, factors) = level[n]
  BY LevelSteps
<1> HIDE DEF n
<1> DEFINE Worst(i) ==
             /\ level[i] >= RiskNone
             /\ \A j \in 1..i : factors[j] <= level[i]
             /\ level[i] = RiskNone \/ \E j \in 1..i : level[i] = factors[j]
           P == {i \in 0..n : Worst(i)}
<1>4. 0 \in P
  <2>1. 0 \in 0..n /\ 1..0 = {}
    BY <1>1
  <2> QED BY <1>3, <2>1 DEF RiskNone
<1>5. ASSUME NEW i \in 0..(n - 1), i \in P PROVE i + 1 \in P
  <2>1. i + 1 \in 1..n /\ (i + 1) - 1 = i /\ i + 1 \in 0..n /\ i \in 0..n
    BY <1>1
  <2>2. level[i + 1] = Raised(level[i], factors[i + 1])
    BY <1>3, <2>1
  <2>3. /\ level[i] \in Int /\ level[i + 1] \in Int /\ factors[i + 1] \in Int
        /\ \A j \in 1..i : factors[j] \in Int
    BY <1>1, <2>1
  <2>4. \A j \in 1..(i + 1) : j \in 1..i \/ j = i + 1
    BY <2>1
  <2>5. i + 1 \in 1..(i + 1) /\ \A j \in 1..i : j \in 1..(i + 1)
    BY <2>1
  <2>6. Worst(i)
    BY <1>5
  <2>7. CASE factors[i + 1] > level[i]
    <3>1. level[i + 1] = factors[i + 1]
      BY <2>2, <2>7 DEF Raised
    <3>2. Worst(i + 1)
      BY SMTT(60), <2>3, <2>4, <2>5, <2>6, <2>7, <3>1 DEF RiskNone
    <3> QED BY <2>1, <3>2
  <2>8. CASE ~(factors[i + 1] > level[i])
    <3>1. level[i + 1] = level[i]
      BY <2>2, <2>8 DEF Raised
    <3>2. Worst(i + 1)
      BY <2>3, <2>4, <2>5, <2>6, <2>8, <3>1 DEF RiskNone
    <3> QED BY <2>1, <3>2
  <2> QED BY <2>7, <2>8
<1> HIDE DEF P
<1>6. 0..n \subseteq P
  BY <1>1, <1>4, <1>5, InductTo
<1>7. n \in 0..n
  BY <1>1
<1>8. Worst(n)
  BY <1>6, <1>7 DEF P
<1> QED BY <1>2, <1>3, <1>7, <1>8

\* The factors of each rule for files.
FileFactors(g) == [i \in DOMAIN g.fs |-> FSFactors(g.fs[i])]

\* A rule for files is high for writing and medium for reading.
LEMMA FileFactorsAre ==
  ASSUME NEW g \in GrantSets
  PROVE  /\ FileFactors(g) \in Seq(Seq(Int))
         /\ \A i \in DOMAIN g.fs :
              Range(FSFactors(g.fs[i])) =
                {f \in {RiskHigh, RiskMedium} :
                   \/ f = RiskHigh /\ "write" \in g.fs[i]
                   \/ f = RiskMedium /\ "read" \in g.fs[i]}
<1>1. g.fs \in Seq(SUBSET Accesses)
  BY DEF GrantSets
<1>2. ASSUME NEW accesses \in SUBSET Accesses
      PROVE  /\ FSFactors(accesses) \in Seq(Int)
             /\ Range(FSFactors(accesses)) =
                  {f \in {RiskHigh, RiskMedium} :
                     \/ f = RiskHigh /\ "write" \in accesses
                     \/ f = RiskMedium /\ "read" \in accesses}
  <2> DEFINE high == IF "write" \in accesses THEN <<RiskHigh>> ELSE <<>>
             medium == IF "read" \in accesses THEN <<RiskMedium>> ELSE <<>>
  <2>1. /\ high \in Seq(Int) /\ medium \in Seq(Int)
        /\ Range(high) = IF "write" \in accesses THEN {RiskHigh} ELSE {}
        /\ Range(medium) = IF "read" \in accesses THEN {RiskMedium} ELSE {}
    BY DEF Range, RiskHigh, RiskMedium
  <2>2. FSFactors(accesses) = high \o medium
    BY DEF FSFactors
  <2> HIDE DEF high, medium
  <2>3. Range(high \o medium) = Range(high) \cup Range(medium)
    BY <2>1, RangeConcatenation
  <2> QED BY <2>1, <2>2, <2>3
<1> QED BY <1>1, <1>2 DEF FileFactors

\* The factors come from the rules for the network and for files, and from
\* the grants of commands and variables.
LEMMA FactorsAre ==
  ASSUME NEW g \in GrantSets
  PROVE  /\ Factors(g) \in Seq(Int)
         /\ Range(Factors(g)) =
              {NetworkFactor(g.network[i]) : i \in DOMAIN g.network}
                \cup (UNION {Range(FSFactors(g.fs[i])) : i \in DOMAIN g.fs})
                \cup (IF g.exec THEN {RiskCritical} ELSE {})
                \cup (IF g.env THEN {RiskLow} ELSE {})
<1> DEFINE network == [i \in DOMAIN g.network |-> NetworkFactor(g.network[i])]
           files == FlattenSeq(FileFactors(g))
           exec == IF g.exec THEN <<RiskCritical>> ELSE <<>>
           env == IF g.env THEN <<RiskLow>> ELSE <<>>
<1>1. /\ exec \in Seq(Int) /\ env \in Seq(Int)
      /\ Range(exec) = IF g.exec THEN {RiskCritical} ELSE {}
      /\ Range(env) = IF g.env THEN {RiskLow} ELSE {}
  BY DEF Range, RiskCritical, RiskLow
<1>2. /\ network \in Seq(Int)
      /\ Range(network) = {NetworkFactor(g.network[i]) : i \in DOMAIN g.network}
  <2>1. g.network \in Seq(SUBSET HostForms)
    BY DEF GrantSets
  <2>2. \A hosts \in SUBSET HostForms : NetworkFactor(hosts) \in Int
    BY DEF NetworkFactor, RiskCritical, RiskMedium
  <2>3. network \in Seq(Int)
    BY <2>1, <2>2
  <2> QED BY <2>3 DEF Range
<1>3. /\ files \in Seq(Int)
      /\ Range(files) = UNION {Range(FSFactors(g.fs[i])) : i \in DOMAIN g.fs}
  <2>1. FileFactors(g) \in Seq(Seq(Int))
    BY FileFactorsAre
  <2>2. files \in Seq(Int)
    <3>1. <<>> \in Seq(Int)
      OBVIOUS
    <3> QED BY <2>1, <3>1, FlattenAppend
  <2>3. Range(files) = UNION {Range(FileFactors(g)[i]) : i \in DOMAIN FileFactors(g)}
    BY <2>1, FlattenRange
  <2> QED BY <2>2, <2>3 DEF FileFactors
<1> DEFINE two == network \o files
           three == two \o exec
<1>4. Factors(g) = three \o env
  BY DEF Factors, FileFactors
<1> HIDE DEF network, files, exec, env
<1>5. two \in Seq(Int) /\ Range(two) = Range(network) \cup Range(files)
  BY <1>2, <1>3, RangeConcatenation
<1> HIDE DEF two
<1>6. three \in Seq(Int) /\ Range(three) = Range(two) \cup Range(exec)
  BY <1>1, <1>5, RangeConcatenation
<1> HIDE DEF three
<1>7. Factors(g) \in Seq(Int) /\ Range(Factors(g)) = Range(three) \cup Range(env)
  BY <1>1, <1>4, <1>6, RangeConcatenation
<1> QED BY <1>1, <1>2, <1>3, <1>5, <1>6, <1>7

\* Factors of two lists are as many as in both together.
LEMMA OccurrencesJoin ==
  ASSUME NEW a \in Seq(Int), NEW b \in Seq(Int), NEW level \in Int
  PROVE  /\ Occurrences(a, level) \in Nat
         /\ Occurrences(a \o b, level) = Occurrences(a, level) + Occurrences(b, level)
<1>1. \A s \in Seq(Int) : Occurrences(s, level) = Cardinality(Marked(s, {level}))
  <2> SUFFICES ASSUME NEW s \in Seq(Int)
               PROVE  {i \in DOMAIN s : s[i] = level} = Marked(s, {level})
    BY DEF Occurrences
  <2> QED BY DEF Marked
<1>2. a \o b \in Seq(Int)
  OBVIOUS
<1>3. /\ Cardinality(Marked(a, {level})) \in Nat
      /\ Cardinality(Marked(a \o b, {level}))
           = Cardinality(Marked(a, {level})) + Cardinality(Marked(b, {level}))
  BY MarkedConcat
<1>4. /\ Occurrences(a, level) = Cardinality(Marked(a, {level}))
      /\ Occurrences(b, level) = Cardinality(Marked(b, {level}))
      /\ Occurrences(a \o b, level) = Cardinality(Marked(a \o b, {level}))
  BY <1>1, <1>2
<1> QED BY <1>3, <1>4

\* The report is of the grants there are: what makes LevelIsWorst inductive.
RiskInv == grants \in GrantSets \cup {NoGrants} /\ report = Analyze(grants)

\* Before the first grant.
LEMMA RiskInitially == RiskInit => RiskInv
BY DEF RiskInit, RiskInv

\* A GrantSet without grants is not a nil one.
LEMMA EmptyIs == Empty \in GrantSets /\ Empty # NoGrants
<1>1. <<>> \in Seq(SUBSET HostForms) /\ <<>> \in Seq(SUBSET Accesses)
  OBVIOUS
<1>2. Empty \in GrantSets
  <2> HIDE DEF HostForms, Accesses
  <2> QED BY <1>1 DEF Empty, GrantSets
<1> QED BY <1>2, RiskAssumption

\* What the first grant is added to is a GrantSet.
LEMMA GrantedIs ==
  ASSUME RiskInv
  PROVE  Granted \in GrantSets /\ Granted # NoGrants
BY RiskAssumption, EmptyIs DEF RiskInv, Granted

\* What one more grant adds, at the end of the part of the factors it is about.
LEMMA GrantIs ==
  ASSUME RiskInv, RiskNext
  PROVE  /\ grants' \in GrantSets /\ report' = Analyze(grants')
         /\ \/ /\ \E hosts \in SUBSET HostForms : grants'.network = Append(Granted.network, hosts)
               /\ grants'.fs = Granted.fs
            \/ /\ grants'.network = Granted.network
               /\ \E accesses \in SUBSET Accesses : grants'.fs = Append(Granted.fs, accesses)
            \/ grants'.network = Granted.network /\ grants'.fs = Granted.fs
         /\ (Granted.exec => grants'.exec) /\ (Granted.env => grants'.env)
<1>1. Granted \in GrantSets
  BY GrantedIs
<1>2. ASSUME NEW hosts \in SUBSET HostForms, Grant("network", Append(Granted.network, hosts))
      PROVE  /\ grants' \in GrantSets /\ report' = Analyze(grants')
             /\ grants'.network = Append(Granted.network, hosts)
             /\ grants'.fs = Granted.fs /\ grants'.exec = Granted.exec /\ grants'.env = Granted.env
  <2>1. Append(Granted.network, hosts) \in Seq(SUBSET HostForms)
    BY <1>1 DEF GrantSets
  <2>2. grants' = [Granted EXCEPT !["network"] = Append(Granted.network, hosts)]
        /\ report' = Analyze(grants')
    BY <1>2 DEF Grant
  <2> QED BY <1>1, <2>1, <2>2 DEF GrantSets
<1>3. ASSUME NEW accesses \in SUBSET Accesses, Grant("fs", Append(Granted.fs, accesses))
      PROVE  /\ grants' \in GrantSets /\ report' = Analyze(grants')
             /\ grants'.fs = Append(Granted.fs, accesses)
             /\ grants'.network = Granted.network
             /\ grants'.exec = Granted.exec /\ grants'.env = Granted.env
  <2>1. Append(Granted.fs, accesses) \in Seq(SUBSET Accesses)
    BY <1>1 DEF GrantSets
  <2>2. grants' = [Granted EXCEPT !["fs"] = Append(Granted.fs, accesses)]
        /\ report' = Analyze(grants')
    BY <1>3 DEF Grant
  <2> QED BY <1>1, <2>1, <2>2 DEF GrantSets
<1>4. ASSUME NEW field \in {"exec", "env", "kv"}, Grant(field, TRUE)
      PROVE  /\ grants' \in GrantSets /\ report' = Analyze(grants')
             /\ grants'.network = Granted.network /\ grants'.fs = Granted.fs
             /\ (Granted.exec => grants'.exec) /\ (Granted.env => grants'.env)
  BY <1>1, <1>4 DEF Grant, GrantSets
<1> QED BY <1>2, <1>3, <1>4 DEF RiskNext

\* Every grant is followed by a report of all.
LEMMA RiskInductive == RiskInv /\ [RiskNext]_riskVars => RiskInv'
<1> SUFFICES ASSUME RiskInv, [RiskNext]_riskVars PROVE RiskInv'
  OBVIOUS
<1>1. CASE RiskNext
  BY <1>1, GrantIs DEF RiskInv
<1>2. CASE UNCHANGED riskVars
  BY <1>2 DEF RiskInv, riskVars, Analyze, Factors
<1> QED BY <1>1, <1>2

\* A nil GrantSet is reported like an empty one.
LEMMA ReportIs ==
  ASSUME RiskInv
  PROVE  /\ report.factors = Factors(Granted)
         /\ report.level = FoldLeft(Raised, RiskNone, Factors(Granted))
<1>1. CASE grants = NoGrants
  <2>1. Factors(Empty) = <<>>
    <3>1. FlattenSeq(<<>>) = <<>>
      BY DEF FlattenSeq
    <3>2. [i \in DOMAIN <<>> |-> NetworkFactor(<<>>[i])] = <<>>
          /\ [i \in DOMAIN <<>> |-> FSFactors(<<>>[i])] = <<>>
      OBVIOUS
    <3>3. Factors(Empty) = <<>> \o <<>> \o <<>> \o <<>>
      BY <3>1, <3>2 DEF Factors, Empty
    <3> QED BY <3>3
  <2>2. Granted = Empty
    BY <1>1 DEF Granted
  <2>3. report = [level |-> FoldLeft(Raised, RiskNone, <<>>), factors |-> <<>>]
    BY <1>1 DEF RiskInv, Analyze
  <2> QED BY <2>1, <2>2, <2>3
<1>2. CASE grants # NoGrants
  BY <1>2 DEF RiskInv, Analyze, Granted
<1> QED BY <1>1, <1>2

\* What the level says of the grants.
LEMMA LevelWorst ==
  ASSUME RiskInv
  PROVE  LevelIsWorst
<1> DEFINE g == Granted
           level == report.level
           fs(kind) == \E i \in DOMAIN g.fs : kind \in g.fs[i]
           open == \E i \in DOMAIN g.network, h \in {"*", "0.0.0.0"} : h \in g.network[i]
           factors == Range(Factors(g))
<1>1. g \in GrantSets
  BY GrantedIs
<1>2. /\ level \in Int /\ level >= RiskNone
      /\ \A f \in factors : f <= level
      /\ level = RiskNone \/ level \in factors
  <2>1. Factors(g) \in Seq(Int)
    BY <1>1, FactorsAre
  <2>2. level = FoldLeft(Raised, RiskNone, Factors(g))
    BY ReportIs
  <2> HIDE DEF g
  <2> QED BY <2>1, <2>2, LevelIsMax
<1> HIDE DEF g, level
<1>3. factors = {NetworkFactor(g.network[i]) : i \in DOMAIN g.network}
                  \cup (UNION {Range(FSFactors(g.fs[i])) : i \in DOMAIN g.fs})
                  \cup (IF g.exec THEN {RiskCritical} ELSE {})
                  \cup (IF g.env THEN {RiskLow} ELSE {})
  BY <1>1, FactorsAre
<1>4. \A i \in DOMAIN g.fs :
        Range(FSFactors(g.fs[i])) =
          {f \in {RiskHigh, RiskMedium} :
             \/ f = RiskHigh /\ "write" \in g.fs[i]
             \/ f = RiskMedium /\ "read" \in g.fs[i]}
  BY <1>1, FileFactorsAre
<1>5. \A i \in DOMAIN g.network :
        NetworkFactor(g.network[i]) =
          IF \E h \in {"*", "0.0.0.0"} : h \in g.network[i] THEN RiskCritical ELSE RiskMedium
  BY DEF NetworkFactor, IsWildcardHost
<1> HIDE DEF factors
<1>6. factors \subseteq {RiskLow, RiskMedium, RiskHigh, RiskCritical}
  BY <1>3, <1>4, <1>5
<1>7. RiskCritical \in factors <=> g.exec \/ open
  <2>1. \A i \in DOMAIN g.fs : RiskCritical \notin Range(FSFactors(g.fs[i]))
    BY <1>4 DEF RiskCritical, RiskHigh, RiskMedium
  <2>2. RiskCritical # RiskLow /\ RiskCritical # RiskMedium
    BY DEF RiskCritical, RiskLow, RiskMedium
  <2> QED BY <1>3, <1>5, <2>1, <2>2
<1>8. RiskHigh \in factors <=> fs("write")
  <2>1. \A i \in DOMAIN g.fs : RiskHigh \in Range(FSFactors(g.fs[i])) <=> "write" \in g.fs[i]
    BY <1>4 DEF RiskHigh, RiskMedium
  <2>2. RiskHigh # RiskLow /\ RiskHigh # RiskMedium /\ RiskHigh # RiskCritical
    BY DEF RiskCritical, RiskLow, RiskMedium, RiskHigh
  <2> QED BY <1>3, <1>5, <2>1, <2>2
<1>9. RiskMedium \in factors
        <=> fs("read") \/ \E i \in DOMAIN g.network : ~ \E h \in {"*", "0.0.0.0"} : h \in g.network[i]
  <2>1. \A i \in DOMAIN g.fs : RiskMedium \in Range(FSFactors(g.fs[i])) <=> "read" \in g.fs[i]
    BY <1>4 DEF RiskHigh, RiskMedium
  <2>2. RiskMedium # RiskLow /\ RiskMedium # RiskCritical
    BY DEF RiskCritical, RiskLow, RiskMedium
  <2> QED BY <1>3, <1>5, <2>1, <2>2
<1>10. RiskLow \in factors <=> g.env
  <2>1. \A i \in DOMAIN g.fs : RiskLow \notin Range(FSFactors(g.fs[i]))
    BY <1>4 DEF RiskHigh, RiskMedium, RiskLow
  <2>2. RiskLow # RiskMedium /\ RiskLow # RiskCritical
    BY DEF RiskCritical, RiskLow, RiskMedium
  <2> QED BY <1>3, <1>5, <2>1, <2>2
<1>11. g.network = <<>> <=> DOMAIN g.network = {}
  <2>1. g.network \in Seq(SUBSET HostForms)
    BY <1>1 DEF GrantSets
  <2> SUFFICES \A s \in Seq(SUBSET HostForms) : s = <<>> <=> DOMAIN s = {}
    BY <2>1
  <2> QED BY EmptySeq, LenProperties
<1>12. /\ level = RiskCritical <=> RiskCritical \in factors
       /\ level >= RiskHigh <=> RiskCritical \in factors \/ RiskHigh \in factors
       /\ level >= RiskMedium <=>
            RiskCritical \in factors \/ RiskHigh \in factors \/ RiskMedium \in factors
       /\ level = RiskNone <=>
            /\ RiskCritical \notin factors /\ RiskHigh \notin factors
            /\ RiskMedium \notin factors /\ RiskLow \notin factors
  BY <1>2, <1>6 DEF RiskNone, RiskLow, RiskMedium, RiskHigh, RiskCritical
<1>13. open \/ (\E i \in DOMAIN g.network : ~ \E h \in {"*", "0.0.0.0"} : h \in g.network[i])
         <=> g.network # <<>>
  BY <1>11
<1>14. open => g.network # <<>>
  BY <1>11
<1>15. /\ level = RiskCritical <=> g.exec \/ open
       /\ level >= RiskHigh <=> g.exec \/ open \/ fs("write")
       /\ level >= RiskMedium <=> g.exec \/ fs("write") \/ fs("read") \/ g.network # <<>>
       /\ level = RiskNone <=>
            ~g.exec /\ ~g.env /\ g.network = <<>> /\ ~fs("read") /\ ~fs("write")
  <2> HIDE DEF fs, open
  <2> QED BY <1>7, <1>8, <1>9, <1>10, <1>12, <1>13, <1>14
<1> QED BY <1>15 DEF LevelIsWorst, g, level

(* Analyze puts the level at the worst thing granted and at nothing else,  *)
(* for any number of rules.                                                *)
THEOREM LevelCorrect == RiskSpec => []LevelIsWorst
<1>1. RiskInv => LevelIsWorst
  BY LevelWorst
<1> QED BY <1>1, RiskInitially, RiskInductive, PTL DEF RiskSpec

-----------------------------------------------------------------------------
\* The four parts of the factors, in the order Analyze adds them.
Parts(g) ==
  <<[i \in DOMAIN g.network |-> NetworkFactor(g.network[i])],
    FlattenSeq(FileFactors(g)),
    IF g.exec THEN <<RiskCritical>> ELSE <<>>,
    IF g.env THEN <<RiskLow>> ELSE <<>>>>

\* A level's factors are those of the parts.
LEMMA PartsAre ==
  ASSUME NEW g \in GrantSets
  PROVE  /\ \A i \in 1..4 : Parts(g)[i] \in Seq(Int)
         /\ Factors(g) = ((Parts(g)[1] \o Parts(g)[2]) \o Parts(g)[3]) \o Parts(g)[4]
         /\ \A level \in Int :
              Occurrences(Factors(g), level) =
                Occurrences(Parts(g)[1], level) + Occurrences(Parts(g)[2], level)
                  + Occurrences(Parts(g)[3], level) + Occurrences(Parts(g)[4], level)
<1> DEFINE p == Parts(g)
           two == p[1] \o p[2]
           three == two \o p[3]
<1>1. p[1] \in Seq(Int)
  <2>1. g.network \in Seq(SUBSET HostForms)
    BY DEF GrantSets
  <2>2. \A hosts \in SUBSET HostForms : NetworkFactor(hosts) \in Int
    BY DEF NetworkFactor, RiskCritical, RiskMedium
  <2>3. [i \in DOMAIN g.network |-> NetworkFactor(g.network[i])] \in Seq(Int)
    BY <2>1, <2>2
  <2> QED BY <2>3 DEF Parts
<1>2. p[2] \in Seq(Int)
  <2>1. FileFactors(g) \in Seq(Seq(Int)) /\ <<>> \in Seq(Int)
    BY FileFactorsAre
  <2>2. FlattenSeq(FileFactors(g)) \in Seq(Int)
    BY <2>1, FlattenAppend
  <2> QED BY <2>2 DEF Parts
<1>3. p[3] \in Seq(Int) /\ p[4] \in Seq(Int)
  BY DEF Parts, RiskCritical, RiskLow
<1>4. Factors(g) = three \o p[4]
  BY DEF Factors, FileFactors, Parts
<1> HIDE DEF p
<1>5. two \in Seq(Int) /\ three \in Seq(Int)
  BY <1>1, <1>2, <1>3
<1>6. \A i \in 1..4 : p[i] \in Seq(Int)
  BY <1>1, <1>2, <1>3
<1>7. ASSUME NEW level \in Int
      PROVE  Occurrences(Factors(g), level) =
               Occurrences(p[1], level) + Occurrences(p[2], level)
                 + Occurrences(p[3], level) + Occurrences(p[4], level)
  <2>1. Occurrences(two, level) = Occurrences(p[1], level) + Occurrences(p[2], level)
    BY <1>1, <1>2, OccurrencesJoin
  <2> HIDE DEF two
  <2>2. Occurrences(three, level) = Occurrences(two, level) + Occurrences(p[3], level)
    BY <1>3, <1>5, OccurrencesJoin
  <2> HIDE DEF three
  <2>3. Occurrences(Factors(g), level) = Occurrences(three, level) + Occurrences(p[4], level)
    <3>1. Occurrences(three \o p[4], level) = Occurrences(three, level) + Occurrences(p[4], level)
      BY <1>3, <1>5, OccurrencesJoin
    <3> QED BY <1>4, <3>1
  <2> QED BY <2>1, <2>2, <2>3
<1> QED BY <1>4, <1>6, <1>7 DEF p

\* A level is among the factors if it occurs.
LEMMA Occurs ==
  ASSUME NEW s \in Seq(Int), NEW level \in Int
  PROVE  level \in Range(s) <=> Occurrences(s, level) > 0
<1> DEFINE at == {i \in DOMAIN s : s[i] = level}
<1>1. level \in Range(s) <=> at # {}
  BY DEF Range
<1>2. IsFiniteSet(at)
  <2>1. DOMAIN s = 1..Len(s) /\ Len(s) \in Nat
    OBVIOUS
  <2>2. IsFiniteSet(1..Len(s))
    BY <2>1, FS_Interval
  <2> QED BY <2>1, <2>2, FS_Subset
<1>3. Occurrences(s, level) = Cardinality(at)
  BY DEF Occurrences
<1> HIDE DEF at
<1>4. Cardinality(at) \in Nat /\ (Cardinality(at) = 0 <=> at = {})
  BY <1>2, FS_CardinalityType, FS_EmptySet
<1> QED BY <1>1, <1>3, <1>4

\* A grant adds at the end of a part.
LEMMA PartsGrow ==
  ASSUME RiskInv, RiskNext
  PROVE  \A i \in 1..4 : \E more \in Seq(Int) : Parts(grants')[i] = Parts(Granted)[i] \o more
<1> DEFINE g == Granted
           new == grants'
<1>1. /\ new \in GrantSets
      /\ \/ /\ \E hosts \in SUBSET HostForms : new.network = Append(g.network, hosts)
            /\ new.fs = g.fs
         \/ /\ new.network = g.network
            /\ \E accesses \in SUBSET Accesses : new.fs = Append(g.fs, accesses)
         \/ new.network = g.network /\ new.fs = g.fs
      /\ (g.exec => new.exec) /\ (g.env => new.env)
  BY GrantIs
<1>2. g \in GrantSets
  BY GrantedIs
<1> HIDE DEF g, new
<1>3. <<>> \in Seq(Int) /\ \A i \in 1..4 : Parts(g)[i] \in Seq(Int) /\ Parts(g)[i] \o <<>> = Parts(g)[i]
  <2>1. \A i \in 1..4 : Parts(g)[i] \in Seq(Int)
    BY <1>2, PartsAre
  <2> QED BY <2>1, ConcatEmptySeq
<1>4. new.network = g.network => Parts(new)[1] = Parts(g)[1]
  BY DEF Parts
<1>5. new.fs = g.fs => Parts(new)[2] = Parts(g)[2]
  BY DEF Parts, FileFactors
<1>6. ASSUME NEW hosts \in SUBSET HostForms, new.network = Append(g.network, hosts)
      PROVE  \E more \in Seq(Int) : Parts(new)[1] = Parts(g)[1] \o more
  <2>1. g.network \in Seq(SUBSET HostForms)
    BY <1>2 DEF GrantSets
  <2>2. \A h \in SUBSET HostForms : NetworkFactor(h) \in Int
    BY DEF NetworkFactor, RiskCritical, RiskMedium
  <2> DEFINE factor == [h \in SUBSET HostForms |-> NetworkFactor(h)]
             Is(network) == [i \in DOMAIN network |-> factor[network[i]]]
  <2>3. \A network \in Seq(SUBSET HostForms) :
          [i \in DOMAIN network |-> NetworkFactor(network[i])] = Is(network)
    OBVIOUS
  <2>4. new.network \in Seq(SUBSET HostForms)
    BY <1>1 DEF GrantSets
  <2>5. Parts(new)[1] = Is(new.network) /\ Parts(g)[1] = Is(g.network)
    BY <2>1, <2>3, <2>4 DEF Parts
  <2>6. factor \in [SUBSET HostForms -> Int]
    BY <2>2
  <2> HIDE DEF factor
  <2>7. \A network \in Seq(SUBSET HostForms) : Is(Append(network, hosts)) = Is(network) \o <<factor[hosts]>>
    <3> SUFFICES ASSUME NEW network \in Seq(SUBSET HostForms)
                 PROVE  Is(Append(network, hosts)) = Is(network) \o <<factor[hosts]>>
      OBVIOUS
    <3> QED BY <2>6
  <2>8. <<factor[hosts]>> \in Seq(Int)
    BY <2>6
  <2> HIDE DEF Is
  <2> QED BY <1>6, <2>1, <2>5, <2>7, <2>8
<1>7. ASSUME NEW accesses \in SUBSET Accesses, new.fs = Append(g.fs, accesses)
      PROVE  \E more \in Seq(Int) : Parts(new)[2] = Parts(g)[2] \o more
  <2>1. g.fs \in Seq(SUBSET Accesses)
    BY <1>2 DEF GrantSets
  <2>2. FSFactors(accesses) \in Seq(Int)
    BY DEF FSFactors, RiskHigh, RiskMedium
  <2>3. FileFactors(g) \in Seq(Seq(Int))
    BY <1>2, FileFactorsAre
  <2>4. FileFactors(new) = Append(FileFactors(g), FSFactors(accesses))
    BY <1>7, <2>1 DEF FileFactors
  <2>5. FlattenSeq(FileFactors(new)) = FlattenSeq(FileFactors(g)) \o FSFactors(accesses)
    BY <2>2, <2>3, <2>4, FlattenAppend
  <2>6. Parts(new)[2] = Parts(g)[2] \o FSFactors(accesses)
    BY <2>5 DEF Parts
  <2> QED BY <2>2, <2>6
<1>8. \E more \in Seq(Int) : Parts(new)[3] = Parts(g)[3] \o more
  <2>1. <<RiskCritical>> \in Seq(Int) /\ <<>> \o <<RiskCritical>> = <<RiskCritical>>
        /\ <<RiskCritical>> \o <<>> = <<RiskCritical>> /\ <<>> \o <<>> = <<>>
    BY DEF RiskCritical
  <2> QED BY <1>1, <1>3, <2>1 DEF Parts
<1>9. \E more \in Seq(Int) : Parts(new)[4] = Parts(g)[4] \o more
  <2>1. <<RiskLow>> \in Seq(Int) /\ <<>> \o <<RiskLow>> = <<RiskLow>>
        /\ <<RiskLow>> \o <<>> = <<RiskLow>> /\ <<>> \o <<>> = <<>>
    BY DEF RiskLow
  <2> QED BY <1>1, <1>3, <2>1 DEF Parts
<1>10. \E more \in Seq(Int) : Parts(new)[1] = Parts(g)[1] \o more
  <2>1. 1 \in 1..4
    OBVIOUS
  <2> QED BY <1>1, <1>3, <1>4, <1>6, <2>1
<1>11. \E more \in Seq(Int) : Parts(new)[2] = Parts(g)[2] \o more
  <2>1. 2 \in 1..4
    OBVIOUS
  <2> QED BY <1>1, <1>3, <1>5, <1>7, <2>1
<1> DEFINE Grows(i) == \E more \in Seq(Int) : Parts(new)[i] = Parts(g)[i] \o more
<1>12. Grows(1) /\ Grows(2) /\ Grows(3) /\ Grows(4)
  BY <1>8, <1>9, <1>10, <1>11
<1>13. \A i \in 1..4 : i = 1 \/ i = 2 \/ i = 3 \/ i = 4
  OBVIOUS
<1> HIDE DEF Grows
<1>14. \A i \in 1..4 : Grows(i)
  BY <1>12, <1>13
<1> QED BY <1>14 DEF Grows, g, new

\* A grant takes no factor away.
LEMMA FactorsGrow ==
  ASSUME RiskInv, RiskNext
  PROVE  \A level \in Int :
           Occurrences(Factors(grants'), level) >= Occurrences(Factors(Granted), level)
<1> SUFFICES ASSUME NEW level \in Int
             PROVE  Occurrences(Factors(grants'), level) >= Occurrences(Factors(Granted), level)
  OBVIOUS
<1>1. Granted \in GrantSets /\ grants' \in GrantSets
  BY GrantedIs, GrantIs
<1>2. \A i \in 1..4 :
        /\ Occurrences(Parts(Granted)[i], level) \in Nat
        /\ Occurrences(Parts(grants')[i], level) \in Nat
        /\ Occurrences(Parts(grants')[i], level) >= Occurrences(Parts(Granted)[i], level)
  <2> SUFFICES ASSUME NEW i \in 1..4
               PROVE  /\ Occurrences(Parts(Granted)[i], level) \in Nat
                      /\ Occurrences(Parts(grants')[i], level) \in Nat
                      /\ Occurrences(Parts(grants')[i], level) >= Occurrences(Parts(Granted)[i], level)
    OBVIOUS
  <2>1. PICK more \in Seq(Int) : Parts(grants')[i] = Parts(Granted)[i] \o more
    BY PartsGrow
  <2>2. Parts(Granted)[i] \in Seq(Int)
    BY <1>1, PartsAre
  <2>3. /\ Occurrences(Parts(Granted)[i], level) \in Nat
        /\ Occurrences(more, level) \in Nat
        /\ Occurrences(Parts(Granted)[i] \o more, level) =
             Occurrences(Parts(Granted)[i], level) + Occurrences(more, level)
    BY <2>2, OccurrencesJoin
  <2> QED BY <2>1, <2>3
<1>3. \A g \in GrantSets :
        Occurrences(Factors(g), level) =
          Occurrences(Parts(g)[1], level) + Occurrences(Parts(g)[2], level)
            + Occurrences(Parts(g)[3], level) + Occurrences(Parts(g)[4], level)
  BY PartsAre
<1>4. 1 \in 1..4 /\ 2 \in 1..4 /\ 3 \in 1..4 /\ 4 \in 1..4
  OBVIOUS
<1> DEFINE old(i) == Occurrences(Parts(Granted)[i], level)
           new(i) == Occurrences(Parts(grants')[i], level)
<1>5. /\ old(1) \in Nat /\ new(1) \in Nat /\ new(1) >= old(1)
      /\ old(2) \in Nat /\ new(2) \in Nat /\ new(2) >= old(2)
      /\ old(3) \in Nat /\ new(3) \in Nat /\ new(3) >= old(3)
      /\ old(4) \in Nat /\ new(4) \in Nat /\ new(4) >= old(4)
  BY <1>2, <1>4
<1>6. /\ Occurrences(Factors(Granted), level) = old(1) + old(2) + old(3) + old(4)
      /\ Occurrences(Factors(grants'), level) = new(1) + new(2) + new(3) + new(4)
  BY <1>1, <1>3
<1> HIDE DEF old, new
<1> QED BY <1>5, <1>6

\* A step keeps every factor, and with them the level.
LEMMA RiskGrows ==
  RiskInv /\ [RiskNext]_riskVars =>
    [/\ report'.level >= report.level
     /\ \A level \in RiskNone..RiskCritical :
          Occurrences(report'.factors, level) >= Occurrences(report.factors, level)]_riskVars
<1> SUFFICES ASSUME RiskInv, RiskNext
             PROVE  /\ report'.level >= report.level
                    /\ \A level \in RiskNone..RiskCritical :
                         Occurrences(report'.factors, level) >= Occurrences(report.factors, level)
  OBVIOUS
<1> DEFINE old == Factors(Granted)
           new == Factors(grants')
<1>1. old \in Seq(Int) /\ new \in Seq(Int)
  BY GrantedIs, GrantIs, FactorsAre
<1>2. report.factors = old /\ report.level = FoldLeft(Raised, RiskNone, old)
  BY ReportIs
<1>3. report'.factors = new /\ report'.level = FoldLeft(Raised, RiskNone, new)
  <2>1. grants' # NoGrants
    BY GrantIs, RiskAssumption
  <2> QED BY <2>1, GrantIs DEF Analyze
<1>4. \A level \in Int : Occurrences(new, level) >= Occurrences(old, level)
  BY FactorsGrow
<1> HIDE DEF old, new
<1>5. \A level \in Range(old) : level \in Range(new)
  <2> SUFFICES ASSUME NEW level \in Range(old) PROVE level \in Range(new)
    OBVIOUS
  <2>1. level \in Int
    BY <1>1 DEF Range
  <2>2. Occurrences(old, level) \in Nat /\ Occurrences(new, level) \in Nat
    BY <1>1, <2>1, OccurrencesJoin
  <2>3. Occurrences(old, level) > 0
    BY <1>1, <2>1, Occurs
  <2>4. Occurrences(new, level) > 0
    BY <1>4, <2>1, <2>2, <2>3
  <2> QED BY <1>1, <2>1, <2>4, Occurs
<1>6. report'.level >= report.level
  <2> DEFINE was == FoldLeft(Raised, RiskNone, old)
             is == FoldLeft(Raised, RiskNone, new)
  <2>1. was \in Int /\ (was = RiskNone \/ was \in Range(old))
    BY <1>1, LevelIsMax
  <2>2. is \in Int /\ is >= RiskNone /\ \A f \in Range(new) : f <= is
    BY <1>1, LevelIsMax
  <2>3. is >= was
    <3> HIDE DEF was, is
    <3> QED BY <1>5, <2>1, <2>2 DEF RiskNone
  <2> QED BY <1>2, <1>3, <2>3
<1>7. RiskNone..RiskCritical \subseteq Int
  OBVIOUS
<1> QED BY <1>2, <1>3, <1>4, <1>6, <1>7

(* No grant, in whatever order they come, makes Analyze report less of a   *)
(* risk or drop one of its factors.                                        *)
THEOREM RiskOnlyGrows == RiskSpec => RiskNeverFalls
<1> QED BY RiskInitially, RiskInductive, RiskGrows, PTL DEF RiskSpec, RiskNeverFalls
=============================================================================
