------------------------------ MODULE Induction ------------------------------
(***************************************************************************)
(* Induction and recursion over data, for the modules with proofs about    *)
(* loops: FoldLeft and FlattenSeq of the community modules, and counting.  *)
(***************************************************************************)
EXTENDS Integers, SequencesExt, FiniteSetTheorems, SequenceTheorems, TLAPS

\* A set of numbers that is not empty has a least one.  The library's theorems
\* of induction have an operator as a parameter; that a well-founded relation
\* has minimal elements has none, and the strict subsets of the finite parts of
\* a set are one.
LEMMA Least ==
  ASSUME NEW T \in SUBSET Nat, T # {}
  PROVE  \E m \in T : \A k \in T : m <= k
<1> DEFINE Upto(k) == {j \in T : j <= k}
           Cuts == {Upto(k) : k \in T}
           R == StrictSubsetOrdering(T)
<1>1. Cuts \subseteq FiniteSubsetsOf(T) /\ Cuts # {}
  <2>1. ASSUME NEW k \in T PROVE IsFiniteSet(Upto(k))
    BY FS_BoundedSetOfNaturals
  <2> QED BY <2>1 DEF FiniteSubsetsOf
<1>2. PICK U \in Cuts : \A V \in Cuts : <<V, U>> \notin R
  <2>1. IsWellFoundedOn(R, FiniteSubsetsOf(T))
    BY FS_StrictSubsetOrderingWellFounded
  <2> HIDE DEF Cuts, R
  <2> QED BY <1>1, <2>1, WFMin
<1>3. PICK m \in T : U = Upto(m)
  OBVIOUS
<1>4. ASSUME NEW k \in T, k < m PROVE FALSE
  <2>0. k \in Nat /\ m \in Nat
    OBVIOUS
  <2>1. \A j \in Upto(k) : j \in Nat /\ j <= k
    OBVIOUS
  <2>2. Upto(k) \subseteq U
    <3> SUFFICES ASSUME NEW j \in Upto(k) PROVE j <= m
      BY <1>3
    <3> QED BY <1>4, <2>0, <2>1
  <2>3. m \notin Upto(k) /\ m \in U
    BY <1>3, <1>4, <2>0, <2>1
  <2>4. <<Upto(k), U>> \in R
    <3> HIDE DEF Upto
    <3>1. Upto(k) \subseteq T /\ U \subseteq T
      BY <1>3 DEF Upto
    <3> QED BY <2>2, <2>3, <3>1 DEF StrictSubsetOrdering
  <2> QED BY <1>2, <2>4
<1> QED BY <1>4

\* Induction over the numbers, about a set of them.
LEMMA Induct ==
  ASSUME NEW S, 0 \in S, \A n \in Nat : n \in S => n + 1 \in S
  PROVE  Nat \subseteq S
<1> SUFFICES ASSUME Nat \ S # {} PROVE FALSE
  OBVIOUS
<1>1. PICK m \in Nat \ S : \A k \in Nat \ S : m <= k
  BY Least
<1>2. m # 0 /\ m - 1 \in Nat
  OBVIOUS
<1>3. m - 1 \in S
  BY <1>1, <1>2
<1> QED BY <1>2, <1>3

\* Induction up to a number.
LEMMA InductTo ==
  ASSUME NEW n \in Nat, NEW S, 0 \in S, \A i \in 0..(n - 1) : i \in S => i + 1 \in S
  PROVE  0..n \subseteq S
<1> DEFINE T == {i \in Nat : i <= n => i \in S}
<1>1. 0 \in T /\ \A i \in Nat : i \in T => i + 1 \in T
  OBVIOUS
<1> HIDE DEF T
<1>2. Nat \subseteq T
  BY <1>1, Induct
<1> QED BY <1>2 DEF T

\* A function steps through 0..n from base.
Steps(g, n, base, step) ==
  g[0] = base /\ \A i \in 1..n : g[i] = step[<<g[i - 1], i>>]

\* There is such a function, whatever the step.
LEMMA Recursion ==
  ASSUME NEW n \in Nat, NEW D, NEW base \in D, NEW step \in [D \X (1..n) -> D]
  PROVE  \E f \in [0..n -> D] : Steps(f, n, base, step)
<1> DEFINE Built(m, f) ==
             f[0] = base /\ \A i \in 1..m : f[i] = step[<<f[i - 1], i>>]
           S == {m \in 0..n : \E f \in [0..m -> D] : Built(m, f)}
<1>1. 0 \in S
  <2> DEFINE f == [i \in 0..0 |-> base]
  <2>1. f \in [0..0 -> D] /\ f[0] = base /\ 1..0 = {}
    OBVIOUS
  <2> HIDE DEF f
  <2>2. Built(0, f)
    BY <2>1
  <2>3. 0 \in 0..n
    OBVIOUS
  <2> QED BY <2>1, <2>2, <2>3
<1>2. ASSUME NEW m \in 0..(n - 1), m \in S PROVE m + 1 \in S
  <2>1. PICK f \in [0..m -> D] : Built(m, f)
    BY <1>2
  <2> DEFINE g == [i \in 0..(m + 1) |-> IF i = m + 1 THEN step[<<f[m], m + 1>>] ELSE f[i]]
  <2>2. m + 1 \in 1..n /\ m \in 0..m /\ m \in Nat /\ m + 1 \in 0..n
    OBVIOUS
  <2>3. g \in [0..(m + 1) -> D]
    <3>1. <<f[m], m + 1>> \in D \X (1..n)
      BY <2>2
    <3>2. step[<<f[m], m + 1>>] \in D
      BY <3>1
    <3>3. \A i \in 0..(m + 1) : i = m + 1 \/ i \in 0..m
      BY <2>2
    <3> QED BY <3>2, <3>3
  <2>4. g[m + 1] = step[<<f[m], m + 1>>] /\ \A i \in 0..m : g[i] = f[i]
    BY <2>2
  <2> HIDE DEF g
  <2>5. Built(m + 1, g)
    <3>1. g[0] = base
      BY <2>1, <2>2, <2>4
    <3>2. ASSUME NEW i \in 1..(m + 1) PROVE g[i] = step[<<g[i - 1], i>>]
      <4>1. CASE i = m + 1
        <5>1. i - 1 = m
          BY <2>2, <4>1
        <5> QED BY <2>2, <2>4, <4>1, <5>1
      <4>2. CASE i \in 1..m
        <5>1. i \in 0..m /\ i - 1 \in 0..m
          BY <2>2, <4>2
        <5> QED BY <2>1, <2>4, <4>2, <5>1
      <4> QED BY <2>2, <4>1, <4>2
    <3> QED BY <3>1, <3>2
  <2> HIDE DEF Built
  <2> QED BY <2>2, <2>3, <2>5
<1> HIDE DEF S
<1>3. 0..n \subseteq S
  BY <1>1, <1>2, InductTo
<1>4. n \in S
  BY <1>3
<1> QED BY <1>4 DEF S, Steps

\* The last number of an interval is the largest of a set that has it.
LEMMA MaxIs ==
  ASSUME NEW n \in Nat, NEW S \in SUBSET (1..n), n \in S
  PROVE  Max(S) = n
<1>1. \A y \in S : n >= y
  OBVIOUS
<1>2. \A x \in S : (\A y \in S : x >= y) => x = n
  OBVIOUS
<1> QED BY <1>1, <1>2 DEF Max

\* A set of numbers of an interval has its maximum among them.
LEMMA MaxIn ==
  ASSUME NEW n \in Nat, NEW S \in SUBSET (1..n), S # {}
  PROVE  Max(S) \in S
<1> DEFINE T == {n - x : x \in S}
<1>1. T \in SUBSET Nat /\ T # {}
  <2>1. \A x \in S : x \in Int /\ 1 <= x /\ x <= n /\ n - x \in Nat
    OBVIOUS
  <2> QED BY <2>1
<1>2. PICK m \in T : \A k \in T : m <= k
  <2> HIDE DEF T
  <2> QED BY <1>1, Least
<1>3. PICK x \in S : m = n - x
  OBVIOUS
<1>4. \A y \in S : x >= y
  <2> SUFFICES ASSUME NEW y \in S PROVE x >= y
    OBVIOUS
  <2>1. n - x <= n - y
    BY <1>2, <1>3
  <2> QED BY <2>1
<1> QED BY <1>4 DEF Max

\* How MapThenFoldSet folds: the largest index last.
FoldsWith(f, n, base, step) ==
  \A S \in SUBSET (1..n) :
    f[S] = IF S = {} THEN base ELSE step[<<f[S \ {Max(S)}], Max(S)>>]

\* There is such a fold, whatever the step.
LEMMA FoldExists ==
  ASSUME NEW n \in Nat, NEW D, NEW base \in D, NEW step \in [D \X (1..n) -> D]
  PROVE  \E f \in [SUBSET (1..n) -> D] : FoldsWith(f, n, base, step)
<1> DEFINE Folds(m, f) == 
             \A S \in SUBSET (1..m) :
               f[S] = IF S = {} THEN base ELSE step[<<f[S \ {Max(S)}], Max(S)>>]
           Q == {m \in 0..n : \E f \in [SUBSET (1..m) -> D] : Folds(m, f)}
<1>1. 0 \in Q
  <2> DEFINE f == [S \in SUBSET (1..0) |-> base]
  <2>1. f \in [SUBSET (1..0) -> D] /\ \A S \in SUBSET (1..0) : S = {} /\ f[S] = base
    OBVIOUS
  <2> HIDE DEF f
  <2>2. Folds(0, f)
    BY <2>1
  <2>3. 0 \in 0..n
    OBVIOUS
  <2> QED BY <2>1, <2>2, <2>3
<1>2. ASSUME NEW m \in 0..(n - 1), m \in Q PROVE m + 1 \in Q
  <2>1. PICK f \in [SUBSET (1..m) -> D] : Folds(m, f)
    BY <1>2
  <2> DEFINE k == m + 1
             g == [S \in SUBSET (1..k) |->
                     IF k \in S THEN step[<<f[S \ {k}], k>>] ELSE f[S]]
  <2>2. k \in 1..n /\ k \in Nat /\ k \in 0..n
    OBVIOUS
  <2>3. \A S \in SUBSET (1..k) : S \ {k} \in SUBSET (1..m)
    OBVIOUS
  <2>4. SUBSET (1..m) \subseteq SUBSET (1..k) /\ \A S \in SUBSET (1..m) : k \notin S
    OBVIOUS
  <2>5. \A S \in SUBSET (1..k) : k \notin S => S \in SUBSET (1..m)
    BY <2>3
  <2> HIDE DEF k
  <2>6. g \in [SUBSET (1..k) -> D]
    <3> SUFFICES ASSUME NEW S \in SUBSET (1..k)
                 PROVE  (IF k \in S THEN step[<<f[S \ {k}], k>>] ELSE f[S]) \in D
      OBVIOUS
    <3>1. CASE k \in S
      <4>1. f[S \ {k}] \in D
        BY <2>3
      <4>2. <<f[S \ {k}], k>> \in D \X (1..n)
        BY <2>2, <4>1
      <4> QED BY <3>1, <4>2
    <3>2. CASE k \notin S
      BY <2>5, <3>2
    <3> QED BY <3>1, <3>2
  <2>7. \A S \in SUBSET (1..k) :
          g[S] = IF k \in S THEN step[<<f[S \ {k}], k>>] ELSE f[S]
    OBVIOUS
  <2> HIDE DEF g
  <2>8. Folds(k, g)
    <3> SUFFICES ASSUME NEW S \in SUBSET (1..k)
                 PROVE  g[S] = IF S = {} THEN base ELSE step[<<g[S \ {Max(S)}], Max(S)>>]
      OBVIOUS
    <3>1. CASE k \in S
      <4>1. Max(S) = k
        BY <2>2, <3>1, MaxIs
      <4>2. S \ {k} \in SUBSET (1..m) /\ S \ {k} \in SUBSET (1..k)
        BY <2>3, <2>4
      <4>3. g[S \ {k}] = f[S \ {k}]
        BY <2>7, <4>2
      <4> QED BY <2>7, <3>1, <4>1, <4>3
    <3>2. CASE k \notin S
      <4>1. S \in SUBSET (1..m) /\ g[S] = f[S]
        BY <2>5, <2>7, <3>2
      <4>2. S \ {Max(S)} \in SUBSET (1..m)
        BY <4>1
      <4>3. g[S \ {Max(S)}] = f[S \ {Max(S)}]
        BY <2>4, <2>7, <4>2
      <4> QED BY <2>1, <4>1, <4>3
    <3> QED BY <3>1, <3>2
  <2> HIDE DEF Folds
  <2>9. k \in Q
    BY <2>2, <2>6, <2>8
  <2> QED BY <2>9 DEF k
<1> HIDE DEF Q
<1>3. 0..n \subseteq Q
  BY <1>1, <1>2, InductTo
<1>4. n \in Q
  BY <1>3
<1> QED BY <1>4 DEF Q, FoldsWith

\* Stepping from base, a function ends at end.
StepsTo(g, n, base, step, end) == Steps(g, n, base, step) /\ g[n] = end

\* What a fold satisfies while its values are in D.
FoldsOver(h, n, D, base, step) ==
  /\ h[{}] = base
  /\ \A S \in SUBSET (1..n) :
       S # {} /\ h[S \ {Max(S)}] \in D => h[S] = step[<<h[S \ {Max(S)}], Max(S)>>]

\* A fold over a sequence is a loop over its indices.
LEMMA FoldSteps ==
  ASSUME NEW n \in Nat, NEW D, NEW base \in D, NEW step \in [D \X (1..n) -> D],
         NEW h, FoldsOver(h, n, D, base, step)
  PROVE  \E g \in [0..n -> D] : StepsTo(g, n, base, step, h[1..n])
<1> DEFINE P == {i \in 0..n : h[1..i] \in D}
           g == [i \in 0..n |-> h[1..i]]
<1>0. h[{}] = base /\ \A S \in SUBSET (1..n) :
        S # {} /\ h[S \ {Max(S)}] \in D => h[S] = step[<<h[S \ {Max(S)}], Max(S)>>]
  BY DEF FoldsOver
<1>1. 1..0 = {} /\ 0 \in 0..n /\ n \in 0..n
  OBVIOUS
<1>2. ASSUME NEW i \in 1..n, h[1..(i - 1)] \in D
      PROVE  h[1..i] = step[<<h[1..(i - 1)], i>>] /\ h[1..i] \in D
  <2>1. i \in Nat /\ 1 <= i /\ i <= n
    OBVIOUS
  <2>2. 1..i \in SUBSET (1..n) /\ i \in 1..i
    BY <2>1
  <2>3. Max(1..i) = i
    BY <2>1, <2>2, MaxIs
  <2>4. (1..i) \ {i} = 1..(i - 1)
    BY <2>1
  <2>5. h[1..i] = step[<<h[1..(i - 1)], i>>]
    BY <1>0, <1>2, <2>2, <2>3, <2>4
  <2>6. <<h[1..(i - 1)], i>> \in D \X (1..n)
    BY <1>2
  <2> QED BY <2>5, <2>6
<1>3. 0..n \subseteq P
  <2>1. 0 \in P
    BY <1>0, <1>1
  <2>2. ASSUME NEW i \in 0..(n - 1), i \in P PROVE i + 1 \in P
    <3>1. i + 1 \in 1..n /\ (i + 1) - 1 = i /\ i + 1 \in 0..n
      OBVIOUS
    <3> QED BY <1>2, <2>2, <3>1
  <2> HIDE DEF P
  <2> QED BY <2>1, <2>2, InductTo
<1>4. g \in [0..n -> D] /\ g[0] = base /\ g[n] = h[1..n]
  BY <1>0, <1>1, <1>3
<1>5. ASSUME NEW i \in 1..n PROVE g[i] = step[<<g[i - 1], i>>]
  <2>1. i \in 0..n /\ i - 1 \in 0..n
    OBVIOUS
  <2> QED BY <1>2, <1>3, <2>1
<1> HIDE DEF g
<1> QED BY <1>4, <1>5 DEF Steps, StepsTo

-----------------------------------------------------------------------------
\* Concatenation, one sequence after the other.
Joins(g, seqs) ==
  g[0] = <<>> /\ \A i \in 1..Len(seqs) : g[i] = g[i - 1] \o seqs[i]

\* FlattenSeq is a loop that concatenates.
LEMMA FlattenSteps ==
  ASSUME NEW D, NEW seqs \in Seq(Seq(D))
  PROVE  \E g \in [0..Len(seqs) -> Seq(D)] : Joins(g, seqs) /\ FlattenSeq(seqs) = g[Len(seqs)]
<1> DEFINE n == Len(seqs)
<1>1. n \in Nat /\ DOMAIN seqs = 1..n /\ \A i \in 1..n : seqs[i] \in Seq(D)
  OBVIOUS
<1>2. CASE n = 0
  <2> DEFINE g == [i \in 0..0 |-> <<>>]
  <2>1. seqs = <<>>
    BY <1>2
  <2>2. g \in [0..0 -> Seq(D)] /\ g[0] = <<>> /\ 1..0 = {}
    OBVIOUS
  <2>3. FlattenSeq(seqs) = <<>>
    BY <1>2, <2>1 DEF FlattenSeq
  <2> HIDE DEF g
  <2>4. Joins(g, seqs)
    BY <1>2, <2>2 DEF Joins
  <2> QED BY <1>2, <2>2, <2>3, <2>4
<1>3. CASE n # 0
  <2> DEFINE Flattens(h) == h = [i \in 1..n |-> IF i = 1 THEN seqs[i] ELSE h[i - 1] \o seqs[i]]
             flatten == CHOOSE h : Flattens(h)
             step == [at \in Seq(D) \X (1..n) |-> at[1] \o seqs[at[2]]]
  <2>1. FlattenSeq(seqs) = flatten[n]
    BY <1>3 DEF FlattenSeq
  <2>2. step \in [Seq(D) \X (1..n) -> Seq(D)] /\ <<>> \in Seq(D)
    BY <1>1
  <2>3. \A s \in Seq(D), i \in 1..n : step[<<s, i>>] = s \o seqs[i]
    OBVIOUS
  <2> HIDE DEF n, step, flatten
  <2>4. PICK g \in [0..n -> Seq(D)] : g[0] = <<>> /\ \A i \in 1..n : g[i] = step[<<g[i - 1], i>>]
    <3>1. \E g \in [0..n -> Seq(D)] : Steps(g, n, <<>>, step)
      BY <1>1, <2>2, Recursion
    <3> QED BY <3>1 DEF Steps
  <2>5. \A i \in 1..n : i - 1 \in 0..n /\ g[i] = g[i - 1] \o seqs[i]
    <3> SUFFICES ASSUME NEW i \in 1..n
                 PROVE  i - 1 \in 0..n /\ g[i] = g[i - 1] \o seqs[i]
      OBVIOUS
    <3>1. i - 1 \in 0..n
      BY <1>1
    <3> QED BY <2>3, <2>4, <3>1
  <2> DEFINE f == [i \in 1..n |-> g[i]]
  <2>6. Flattens(f)
    <3> SUFFICES ASSUME NEW i \in 1..n
                 PROVE  g[i] = IF i = 1 THEN seqs[i] ELSE f[i - 1] \o seqs[i]
      OBVIOUS
    <3>1. CASE i = 1
      <4>0. 1 \in 1..n /\ 1 - 1 = 0
        BY <3>1
      <4>1. g[1] = <<>> \o seqs[1] /\ seqs[1] \in Seq(D)
        BY <1>1, <2>4, <2>5, <4>0
      <4> QED BY <3>1, <4>1
    <3>2. CASE i # 1
      <4>1. i - 1 \in 1..n
        BY <1>1, <3>2
      <4> QED BY <2>5, <3>2, <4>1
    <3> QED BY <3>1, <3>2
  <2>7. Flattens(flatten)
    BY ZenonT(60), <2>6 DEF flatten
  <2> DEFINE r == [i \in 0..n |-> IF i = 0 THEN <<>> ELSE flatten[i]]
  <2>8. r[0] = <<>> /\ r[n] = flatten[n] /\ n \in 0..n
    BY <1>1, <1>3
  <2>9. \A i \in 1..n : r[i - 1] \in Seq(D) => r[i] = r[i - 1] \o seqs[i] /\ r[i] \in Seq(D)
    <3> SUFFICES ASSUME NEW i \in 1..n, r[i - 1] \in Seq(D)
                 PROVE  r[i] = r[i - 1] \o seqs[i] /\ r[i] \in Seq(D)
      OBVIOUS
    <3>1. i \in 0..n /\ i - 1 \in 0..n /\ i # 0 /\ seqs[i] \in Seq(D)
      BY <1>1
    <3>2. CASE i = 1
      <4>1. r[i - 1] = <<>> /\ flatten[i] = seqs[i]
        BY <2>7, <2>8, <3>2
      <4>2. <<>> \o seqs[i] = seqs[i]
        BY <3>1
      <4> QED BY <3>1, <4>1, <4>2
    <3>3. CASE i # 1
      <4>1. flatten[i] = flatten[i - 1] \o seqs[i]
        BY <2>7, <3>3
      <4>2. i - 1 # 0
        BY <1>1, <3>3
      <4>3. r[i] = flatten[i] /\ r[i - 1] = flatten[i - 1]
        BY <3>1, <4>2
      <4> HIDE DEF r
      <4> QED BY <3>1, <4>1, <4>3
    <3> QED BY <3>2, <3>3
  <2> HIDE DEF r
  <2>10. \A i \in 0..n : r[i] \in Seq(D)
    <3> DEFINE P == {i \in 0..n : r[i] \in Seq(D)}
    <3>1. 0 \in P
      <4>1. r[0] \in Seq(D)
        BY <2>2, <2>8
      <4>2. 0 \in 0..n
        BY <1>1
      <4> QED BY <4>1, <4>2
    <3>2. ASSUME NEW i \in 0..(n - 1), i \in P PROVE i + 1 \in P
      <4>1. i + 1 \in 1..n /\ (i + 1) - 1 = i /\ i + 1 \in 0..n
        BY <1>1
      <4> QED BY <2>9, <3>2, <4>1
    <3> HIDE DEF P
    <3>3. 0..n \subseteq P
      BY <1>1, <3>1, <3>2, InductTo
    <3> QED BY <3>3 DEF P
  <2>11. r \in [0..n -> Seq(D)]
    BY <2>10 DEF r
  <2>12. \A i \in 1..n : r[i] = r[i - 1] \o seqs[i]
    <3> SUFFICES ASSUME NEW i \in 1..n PROVE r[i] = r[i - 1] \o seqs[i]
      OBVIOUS
    <3>1. i - 1 \in 0..n
      BY <1>1
    <3> QED BY <2>9, <2>10, <3>1
  <2> HIDE DEF Flattens, f
  <2> QED BY <2>1, <2>8, <2>11, <2>12 DEF Joins, n
<1> QED BY <1>2, <1>3

\* One sequence more is concatenated at the end.
LEMMA FlattenAppend ==
  ASSUME NEW D, NEW seqs \in Seq(Seq(D)), NEW s \in Seq(D)
  PROVE  /\ FlattenSeq(seqs) \in Seq(D)
         /\ FlattenSeq(Append(seqs, s)) = FlattenSeq(seqs) \o s
<1> DEFINE n == Len(seqs)
           longer == Append(seqs, s)
<1>1. n \in Nat /\ Len(longer) = n + 1 /\ longer \in Seq(Seq(D))
      /\ \A i \in 1..n : longer[i] = seqs[i]
  OBVIOUS
<1>2. longer[n + 1] = s
  OBVIOUS
<1> HIDE DEF longer, n
<1>3. PICK g \in [0..n -> Seq(D)] : Joins(g, seqs) /\ FlattenSeq(seqs) = g[n]
  BY FlattenSteps DEF n
<1>4. PICK h \in [0..(n + 1) -> Seq(D)] : Joins(h, longer) /\ FlattenSeq(longer) = h[n + 1]
  BY <1>1, FlattenSteps
<1>5. \A i \in 0..n : g[i] = h[i]
  <2> DEFINE P == {i \in 0..n : g[i] = h[i]}
  <2>1. 0 \in P
    BY <1>1, <1>3, <1>4 DEF Joins
  <2>2. ASSUME NEW i \in 0..(n - 1), i \in P PROVE i + 1 \in P
    <3>1. i + 1 \in 1..n /\ (i + 1) - 1 = i /\ i + 1 \in 0..n /\ i + 1 \in 1..(n + 1)
      BY SMTT(60), <1>1
    <3>2. g[i + 1] = g[i] \o seqs[i + 1]
      BY <1>3, <3>1 DEF Joins, n
    <3>3. h[i + 1] = h[i] \o longer[i + 1]
      BY <1>1, <1>4, <3>1 DEF Joins
    <3> QED BY <1>1, <2>2, <3>1, <3>2, <3>3
  <2> HIDE DEF P
  <2>3. 0..n \subseteq P
    BY <1>1, <2>1, <2>2, InductTo
  <2> QED BY <2>3 DEF P
<1>6. h[n + 1] = h[n] \o s
  <2>1. n + 1 \in 1..(n + 1) /\ (n + 1) - 1 = n
    BY <1>1
  <2> QED BY <1>1, <1>2, <1>4, <2>1 DEF Joins
<1>7. n \in 0..n
  BY <1>1
<1> QED BY <1>3, <1>4, <1>5, <1>6, <1>7 DEF longer

\* What is in a flattened sequence is in one of its parts.
LEMMA FlattenRange ==
  ASSUME NEW D, NEW seqs \in Seq(Seq(D))
  PROVE  Range(FlattenSeq(seqs)) = UNION {Range(seqs[i]) : i \in DOMAIN seqs}
<1> DEFINE n == Len(seqs)
<1>1. n \in Nat /\ DOMAIN seqs = 1..n /\ \A i \in 1..n : seqs[i] \in Seq(D)
  OBVIOUS
<1>2. PICK g \in [0..n -> Seq(D)] : Joins(g, seqs) /\ FlattenSeq(seqs) = g[n]
  BY FlattenSteps
<1> HIDE DEF n
<1> DEFINE P == {i \in 0..n : Range(g[i]) = UNION {Range(seqs[j]) : j \in 1..i}}
<1>3. 0 \in P
  <2>1. g[0] = <<>> /\ 1..0 = {} /\ 0 \in 0..n
    BY <1>1, <1>2 DEF Joins
  <2>2. Range(<<>>) = {}
    BY DEF Range
  <2> QED BY <2>1, <2>2
<1>4. ASSUME NEW i \in 0..(n - 1), i \in P PROVE i + 1 \in P
  <2>1. i \in 0..n /\ i + 1 \in 1..n /\ (i + 1) - 1 = i /\ i + 1 \in 0..n
    BY <1>1
  <2>2. g[i + 1] = g[i] \o seqs[i + 1]
    BY <1>2, <2>1 DEF Joins, n
  <2>3. Range(g[i + 1]) = Range(g[i]) \cup Range(seqs[i + 1])
    BY <1>1, <1>2, <2>1, <2>2, RangeConcatenation
  <2>4. 1..(i + 1) = (1..i) \cup {i + 1}
    BY <2>1
  <2> QED BY <1>4, <2>1, <2>3, <2>4
<1> HIDE DEF P
<1>5. 0..n \subseteq P
  BY <1>1, <1>3, <1>4, InductTo
<1>6. n \in P
  BY <1>1, <1>5
<1> QED BY <1>1, <1>2, <1>6 DEF P

-----------------------------------------------------------------------------
\* Where a sequence has an element of S.
Marked(seq, S) == {i \in DOMAIN seq : seq[i] \in S}

\* They are as many as in the two sequences one is concatenated of.
LEMMA MarkedConcat ==
  ASSUME NEW D, NEW a \in Seq(D), NEW b \in Seq(D), NEW S
  PROVE  /\ IsFiniteSet(Marked(a, S)) /\ Cardinality(Marked(a, S)) \in Nat
         /\ Cardinality(Marked(a \o b, S)) = Cardinality(Marked(a, S)) + Cardinality(Marked(b, S))
<1> DEFINE n == Len(a)
           A == Marked(a, S)
           B == Marked(b, S)
           Shifted == {n + i : i \in B}
           shift == [i \in B |-> n + i]
<1>1. n \in Nat /\ Len(b) \in Nat /\ A \subseteq 1..n /\ B \subseteq 1..Len(b)
  BY DEF Marked
<1>2. IsFiniteSet(A) /\ IsFiniteSet(B) /\ Cardinality(A) \in Nat /\ Cardinality(B) \in Nat
  <2>1. IsFiniteSet(1..n) /\ IsFiniteSet(1..Len(b))
    BY <1>1, FS_Interval
  <2>2. IsFiniteSet(A) /\ IsFiniteSet(B)
    BY <1>1, <2>1, FS_Subset
  <2> QED BY <2>2, FS_CardinalityType
<1>3. Marked(a \o b, S) = A \cup Shifted
  <2>1. DOMAIN (a \o b) = 1..(n + Len(b)) /\ DOMAIN a = 1..n /\ DOMAIN b = 1..Len(b)
    OBVIOUS
  <2>2. \A i \in 1..(n + Len(b)) : (a \o b)[i] = IF i <= n THEN a[i] ELSE b[i - n]
    BY ConcatProperties
  <2>3. ASSUME NEW i \in Marked(a \o b, S) PROVE i \in A \cup Shifted
    <3>1. i \in 1..(n + Len(b)) /\ (a \o b)[i] \in S
      BY <2>1, <2>3 DEF Marked
    <3>2. CASE i <= n
      <4>1. i \in 1..n
        BY <3>1, <3>2
      <4> QED BY <2>1, <2>2, <3>1, <3>2, <4>1 DEF Marked
    <3>3. CASE ~(i <= n)
      <4>1. i - n \in 1..Len(b) /\ i = n + (i - n)
        BY <1>1, <3>1, <3>3
      <4>2. i - n \in B
        BY <2>1, <2>2, <3>1, <3>3, <4>1 DEF Marked
      <4> QED BY <4>1, <4>2
    <3> QED BY <3>2, <3>3
  <2>4. ASSUME NEW i \in A PROVE i \in Marked(a \o b, S)
    <3>1. i \in 1..n /\ a[i] \in S
      BY <2>1, <2>4 DEF Marked
    <3>2. i \in 1..(n + Len(b)) /\ i <= n
      BY <1>1, <3>1
    <3> QED BY <2>1, <2>2, <3>1, <3>2 DEF Marked
  <2>5. ASSUME NEW j \in B PROVE n + j \in Marked(a \o b, S)
    <3>1. j \in 1..Len(b) /\ b[j] \in S
      BY <2>1, <2>5 DEF Marked
    <3>2. n + j \in 1..(n + Len(b)) /\ ~(n + j <= n) /\ (n + j) - n = j
      BY <1>1, <3>1
    <3> QED BY <2>1, <2>2, <3>1, <3>2 DEF Marked
  <2> QED BY <2>3, <2>4, <2>5
<1>4. shift \in Bijection(B, Shifted)
  <2>1. B \subseteq Nat
    BY <1>1
  <2> HIDE DEF A, B
  <2>2. shift \in [B -> Shifted]
    OBVIOUS
  <2>3. \A i, j \in B : shift[i] = shift[j] => i = j
    BY <1>1, <2>1
  <2>4. \A k \in Shifted : \E i \in B : shift[i] = k
    OBVIOUS
  <2> HIDE DEF shift, Shifted
  <2> QED BY <2>2, <2>3, <2>4 DEF Bijection, Injection, Surjection, IsInjective
<1> HIDE DEF A, B
<1>5. IsFiniteSet(Shifted) /\ Cardinality(Shifted) = Cardinality(B)
  <2>1. ExistsBijection(B, Shifted)
    BY <1>4 DEF ExistsBijection
  <2> HIDE DEF Shifted
  <2> QED BY <1>2, <2>1, FS_Bijection
<1>6. A \cap Shifted = {}
  BY <1>1
<1>7. Cardinality(A \cup Shifted) = Cardinality(A) + Cardinality(Shifted) - Cardinality({})
  <2> HIDE DEF Shifted
  <2> QED BY <1>2, <1>5, <1>6, FS_Union
<1>8. Cardinality({}) = 0
  BY FS_EmptySet
<1> HIDE DEF Shifted
<1> QED BY <1>2, <1>3, <1>5, <1>7, <1>8 DEF A, B

\* One element more is one more to count if it is marked.
LEMMA MarkedAppend ==
  ASSUME NEW D, NEW s \in Seq(D), NEW e \in D, NEW S
  PROVE  /\ Cardinality(Marked(s, S)) \in Nat
         /\ Cardinality(Marked(Append(s, e), S)) =
              IF e \in S THEN Cardinality(Marked(s, S)) + 1 ELSE Cardinality(Marked(s, S))
<1> DEFINE n == Len(s)
<1>1. n \in Nat /\ DOMAIN s = 1..n /\ DOMAIN Append(s, e) = 1..(n + 1)
  OBVIOUS
<1>2. Append(s, e)[n + 1] = e /\ \A i \in 1..n : Append(s, e)[i] = s[i]
  OBVIOUS
<1>3. IsFiniteSet(Marked(s, S)) /\ Cardinality(Marked(s, S)) \in Nat
  BY MarkedConcat
<1> HIDE DEF n
<1>4. \A i \in 1..(n + 1) : i \in 1..n \/ i = n + 1
  BY <1>1
<1>5. n + 1 \in 1..(n + 1) /\ n + 1 \notin 1..n /\ \A i \in 1..n : i \in 1..(n + 1)
  BY <1>1
<1>6. Marked(Append(s, e), S) =
        IF e \in S THEN Marked(s, S) \cup {n + 1} ELSE Marked(s, S)
  BY <1>1, <1>2, <1>4, <1>5 DEF Marked
<1>7. n + 1 \notin Marked(s, S)
  BY <1>1, <1>5 DEF Marked
<1>8. CASE e \in S
  <2>1. Cardinality(Marked(s, S) \cup {n + 1}) = Cardinality(Marked(s, S)) + 1
    BY <1>3, <1>7, FS_AddElement
  <2> QED BY <1>3, <1>6, <1>8, <2>1
<1>9. CASE e \notin S
  BY <1>3, <1>6, <1>9
<1> QED BY <1>8, <1>9
=============================================================================
