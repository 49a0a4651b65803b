-------------------------- MODULE PluginSideProofs --------------------------
(***************************************************************************)
(* Theorems about the parts that MCPluginSide runs: ErrorChains, for       *)
(* errors of any depth, Handlers, HostClients, for every set of durations  *)
(* and counts and any number of options, and Logging, for any number of    *)
(* handlers and records.                                                   *)
(***************************************************************************)
EXTENDS MCPluginSide, SequenceTheorems, TLAPS

(* ErrorChains.  Wrapping puts a layer in front: the outermost layer of a  *)
(* known type either is that one or is the same as before, one further in. *)

\* The layers of an error.
Layer == Wrappers \cup Causes

\* No layer is in the set, or one of them is the outermost.
HasFirst(layers, set) ==
  \/ \A i \in DOMAIN layers : layers[i] \notin set
  \/ \E i \in DOMAIN layers :
       layers[i] \in set /\ \A j \in DOMAIN layers : j < i => layers[j] \notin set

\* Layers wrap, down to a cause.
ChainInv ==
  /\ chain \in Seq(Layer) /\ chain # <<>> /\ Len(chain) <= MaxDepth
  /\ chain[Len(chain)] \in Causes
  /\ \A i \in DOMAIN chain : i # Len(chain) => chain[i] \in Wrappers
  /\ HasFirst(chain, {"entity"}) /\ HasFirst(chain, Detailed)
  /\ detail = ToErrorDetail(chain)

\* errors.As finds the outermost layer of the set.
LEMMA FirstIs ==
  ASSUME NEW layers \in Seq(Layer), NEW set, HasFirst(layers, set)
  PROVE  \/ /\ First(layers, set) = 0
            /\ \A i \in DOMAIN layers : layers[i] \notin set
         \/ /\ First(layers, set) \in DOMAIN layers
            /\ layers[First(layers, set)] \in set
            /\ \A j \in DOMAIN layers : j < First(layers, set) => layers[j] \notin set
<1> DEFINE matching == {i \in DOMAIN layers : layers[i] \in set}
<1>1. CASE \A i \in DOMAIN layers : layers[i] \notin set
  <2>1. matching = {}
    BY <1>1
  <2> QED BY <1>1, <2>1 DEF First
<1>2. ASSUME NEW i \in DOMAIN layers, layers[i] \in set,
             \A j \in DOMAIN layers : j < i => layers[j] \notin set
      PROVE  /\ First(layers, set) \in DOMAIN layers
             /\ layers[First(layers, set)] \in set
             /\ \A j \in DOMAIN layers : j < First(layers, set) => layers[j] \notin set
  <2>1. DOMAIN layers \subseteq Int
    OBVIOUS
  <2>2. i \in matching /\ \A j \in matching : i <= j
    BY <1>2, <2>1
  <2>3. \A k \in matching : (\A j \in matching : k <= j) => k = i
    BY <2>1, <2>2
  <2>4. (CHOOSE k \in matching : \A j \in matching : k <= j) = i
    BY <2>2, <2>3
  <2>5. First(layers, set) = i
    BY <2>2, <2>4 DEF First
  <2> QED BY <1>2, <2>5
<1> QED BY <1>1, <1>2 DEF HasFirst

\* What a wrap changes of where the outermost layer of a set is.
LEMMA FirstOfWrapped ==
  ASSUME NEW layers \in Seq(Layer), NEW layer \in Layer, NEW set,
         HasFirst(layers, set)
  PROVE  /\ HasFirst(<<layer>> \o layers, set)
         /\ layer \in set => First(<<layer>> \o layers, set) = 1
         /\ layer \notin set =>
              First(<<layer>> \o layers, set)
                = IF First(layers, set) = 0 THEN 0 ELSE First(layers, set) + 1
<1> DEFINE wrapped == <<layer>> \o layers
           n == Len(layers)
<1>1. /\ wrapped \in Seq(Layer) /\ n \in Nat
      /\ DOMAIN layers = 1..n /\ DOMAIN wrapped = 1..(n + 1)
      /\ wrapped[1] = layer /\ \A i \in 1..n : wrapped[i + 1] = layers[i]
  OBVIOUS
<1>2. \A i \in 2..(n + 1) : i - 1 \in 1..n /\ wrapped[i] = layers[i - 1]
  <2> SUFFICES ASSUME NEW i \in 2..(n + 1)
               PROVE  i - 1 \in 1..n /\ wrapped[i] = layers[i - 1]
    OBVIOUS
  <2>1. i - 1 \in 1..n /\ (i - 1) + 1 = i
    BY <1>1
  <2> QED BY <1>1, <2>1
<1> HIDE DEF wrapped, n
<1> DEFINE Shape ==
      /\ n \in Nat /\ DOMAIN layers = 1..n /\ DOMAIN wrapped = 1..(n + 1)
      /\ wrapped[1] = layer /\ \A i \in 1..n : wrapped[i + 1] = layers[i]
<1>0. Shape
  BY <1>1
<1>15. \A i \in DOMAIN wrapped : i = 1 \/ i \in 2..(n + 1)
  BY <1>1
<1>3. HasFirst(wrapped, set)
  <2>1. CASE layer \in set
    <3>1. 1 \in DOMAIN wrapped /\ wrapped[1] \in set
      BY <1>0, <2>1
    <3>2. \A j \in DOMAIN wrapped : ~(j < 1)
      BY <1>0
    <3> QED BY <3>1, <3>2 DEF HasFirst
  <2>2. CASE layer \notin set /\ \A i \in DOMAIN layers : layers[i] \notin set
    <3>1. \A i \in 2..(n + 1) : wrapped[i] \notin set
      BY <1>0, <1>2, <2>2
    <3>2. \A i \in DOMAIN wrapped : wrapped[i] \notin set
      BY <1>0, <1>15, <2>2, <3>1
    <3> QED BY <3>2 DEF HasFirst
  <2>3. ASSUME layer \notin set,
               NEW i \in DOMAIN layers, layers[i] \in set,
               \A j \in DOMAIN layers : j < i => layers[j] \notin set
        PROVE  HasFirst(wrapped, set)
    <3>1. i + 1 \in DOMAIN wrapped /\ wrapped[i + 1] \in set
      BY <1>0, <2>3
    <3>2. ASSUME NEW j \in DOMAIN wrapped, j < i + 1 PROVE wrapped[j] \notin set
      <4>1. CASE j = 1
        BY <1>0, <2>3, <4>1
      <4>2. CASE j \in 2..(n + 1)
        <5>1. j - 1 \in DOMAIN layers /\ wrapped[j] = layers[j - 1]
          BY <1>0, <1>2, <4>2
        <5>2. i \in Int /\ j \in Int
          BY <1>0, <2>3
        <5>3. j - 1 < i
          BY <3>2, <5>2
        <5> QED BY <2>3, <5>1, <5>3
      <4> QED BY <1>15, <4>1, <4>2
    <3> QED BY <3>1, <3>2 DEF HasFirst
  <2> QED BY <2>1, <2>2, <2>3 DEF HasFirst
<1>4. \/ /\ First(layers, set) = 0
         /\ \A i \in DOMAIN layers : layers[i] \notin set
      \/ /\ First(layers, set) \in DOMAIN layers
         /\ layers[First(layers, set)] \in set
         /\ \A j \in DOMAIN layers : j < First(layers, set) => layers[j] \notin set
  BY FirstIs
<1>5. \/ /\ First(wrapped, set) = 0
         /\ \A i \in DOMAIN wrapped : wrapped[i] \notin set
      \/ /\ First(wrapped, set) \in DOMAIN wrapped
         /\ wrapped[First(wrapped, set)] \in set
         /\ \A j \in DOMAIN wrapped : j < First(wrapped, set) => wrapped[j] \notin set
  BY <1>1, <1>3, FirstIs
<1> DEFINE f == First(layers, set)
           g == First(wrapped, set)
<1> HIDE DEF f, g
<1>6. layer \in set => g = 1
  <2> SUFFICES ASSUME layer \in set PROVE g = 1
    OBVIOUS
  <2>1. 1 \in DOMAIN wrapped /\ wrapped[1] \in set
    BY <1>0
  <2>2. g \in DOMAIN wrapped /\ ~(1 < g)
    BY <1>5, <2>1 DEF g
  <2> QED BY <1>0, <2>2
<1>7. CASE layer \notin set /\ f = 0
  <2>1. \A i \in 1..n : layers[i] \notin set
    BY <1>0, <1>4, <1>7 DEF f
  <2>2. \A i \in 1..(n + 1) : wrapped[i] \notin set
    BY <1>0, <1>2, <1>7, <2>1
  <2>3. g = 0
    BY <1>0, <1>5, <2>2 DEF g
  <2> QED BY <1>3, <1>6, <1>7, <2>3 DEF f, g, wrapped
<1>8. CASE layer \notin set /\ f # 0
  <2>1. f \in 1..n /\ layers[f] \in set /\ \A j \in 1..n : j < f => layers[j] \notin set
    BY <1>0, <1>4, <1>8 DEF f
  <2>2. f + 1 \in 1..(n + 1) /\ wrapped[f + 1] \in set
    BY <1>0, <2>1
  <2>3. /\ g \in 1..(n + 1) /\ wrapped[g] \in set
        /\ \A j \in 1..(n + 1) : j < g => wrapped[j] \notin set
    BY <1>0, <1>5, <2>2 DEF g
  <2>4. g # 1
    BY <1>0, <1>8, <2>3
  <2>5. g - 1 \in 1..n /\ layers[g - 1] \in set
    BY <1>0, <1>2, <2>3, <2>4
  <2>6. ~(g - 1 < f) /\ ~(f + 1 < g)
    BY <2>1, <2>2, <2>3, <2>5
  <2>7. g = f + 1
    BY <1>0, <2>1, <2>3, <2>6
  <2> QED BY <1>3, <1>6, <1>8, <2>7 DEF f, g, wrapped
<1>9. CASE layer \in set
  BY <1>3, <1>6, <1>9 DEF g, wrapped
<1> QED BY <1>7, <1>8, <1>9

\* What is in a chain from a layer on is the same after a wrap.
LEMMA FromWrapped ==
  ASSUME NEW layers \in Seq(Layer), NEW layer \in Layer, NEW i \in DOMAIN layers
  PROVE  From(<<layer>> \o layers, i + 1) = From(layers, i)
<1> DEFINE wrapped == <<layer>> \o layers
           n == Len(layers)
<1>1. /\ wrapped \in Seq(Layer) /\ n \in Nat /\ Len(wrapped) = n + 1 /\ i \in 1..n
      /\ \A j \in 1..n : wrapped[j + 1] = layers[j] /\ wrapped[j + 1] \in Layer
  OBVIOUS
<1> HIDE DEF wrapped, n
<1>2. /\ \A j \in (i + 1)..(n + 1) : wrapped[j] \in Layer
      /\ \A j \in i..n : layers[j] \in Layer
  BY <1>1 DEF n
<1>3. /\ SubSeq(wrapped, i + 1, n + 1) \in Seq(Layer)
      /\ Len(SubSeq(wrapped, i + 1, n + 1)) = n - i + 1
      /\ \A j \in 1..(n - i + 1) : SubSeq(wrapped, i + 1, n + 1)[j] = wrapped[i + j]
  <2> DEFINE first == i + 1
             last  == n + 1
  <2>0. first \in Int /\ last \in Int /\ \A j \in first..last : wrapped[j] \in Layer
    BY <1>1, <1>2
  <2> HIDE DEF first, last
  <2>4. /\ SubSeq(wrapped, first, last) \in Seq(Layer)
        /\ Len(SubSeq(wrapped, first, last))
             = IF first <= last THEN last - first + 1 ELSE 0
        /\ \A j \in 1..(last - first + 1) :
             SubSeq(wrapped, first, last)[j] = wrapped[first + j - 1]
    BY <2>0, SubSeqProperties
  <2>1. /\ SubSeq(wrapped, i + 1, n + 1) \in Seq(Layer)
        /\ Len(SubSeq(wrapped, i + 1, n + 1))
             = IF i + 1 <= n + 1 THEN (n + 1) - (i + 1) + 1 ELSE 0
        /\ \A j \in 1..((n + 1) - (i + 1) + 1) :
             SubSeq(wrapped, i + 1, n + 1)[j] = wrapped[(i + 1) + j - 1]
    BY <2>4 DEF first, last
  <2>2. (n + 1) - (i + 1) + 1 = n - i + 1 /\ i + 1 <= n + 1
    BY <1>1
  <2>3. \A j \in 1..(n - i + 1) : (i + 1) + j - 1 = i + j
    BY <1>1
  <2> QED BY <2>1, <2>2, <2>3
<1>4. /\ SubSeq(layers, i, n) \in Seq(Layer)
      /\ Len(SubSeq(layers, i, n)) = n - i + 1
      /\ \A j \in 1..(n - i + 1) : SubSeq(layers, i, n)[j] = layers[i + j - 1]
  BY SMTT(60), <1>1, <1>2, SubSeqProperties
<1>5. \A j \in 1..(n - i + 1) : wrapped[i + j] = layers[i + j - 1]
  <2> SUFFICES ASSUME NEW j \in 1..(n - i + 1)
               PROVE  wrapped[i + j] = layers[i + j - 1]
    OBVIOUS
  <2>1. i + j - 1 \in 1..n /\ (i + j - 1) + 1 = i + j
    BY SMTT(60), <1>1
  <2> QED BY <1>1, <2>1
<1> DEFINE a == SubSeq(wrapped, i + 1, n + 1)
           b == SubSeq(layers, i, n)
<1>6. a \in Seq(Layer) /\ b \in Seq(Layer) /\ Len(a) = Len(b)
      /\ \A j \in 1..Len(a) : a[j] = b[j]
  BY <1>3, <1>4, <1>5
<1> HIDE DEF a, b
<1>7. a = b
  BY <1>6
<1> QED BY <1>1, <1>7 DEF From, a, b, wrapped, n

\* No detail but a given one has the type of one.
LEMMA OnlyEntities ==
  ASSUME NEW layers \in Seq(Layer), layers # <<>>,
         HasFirst(layers, {"entity"}), HasFirst(layers, Detailed),
         ToErrorDetail(layers).type = "entity"
  PROVE  First(layers, {"entity"}) # 0
<1> SUFFICES ASSUME First(layers, {"entity"}) = 0 PROVE FALSE
  OBVIOUS
<1>1. CASE First(layers, Detailed) = 0
  BY <1>1 DEF ToErrorDetail, Unknown
<1>2. CASE First(layers, Detailed) # 0
  <2> DEFINE i == First(layers, Detailed)
             rest == From(layers, i)
  <2>1. i \in DOMAIN layers /\ layers[i] \in Detailed
    BY <1>2, FirstIs
  <2>2. rest[1] = layers[i]
    <3> HIDE DEF i
    <3>1. i \in 1..Len(layers) /\ Len(layers) \in Nat
      BY <2>1
    <3>2. \A j \in i..Len(layers) : layers[j] \in Layer
      BY <3>1
    <3>3. \A j \in 1..(Len(layers) - i + 1) :
            SubSeq(layers, i, Len(layers))[j] = layers[i + j - 1]
      BY <3>1, <3>2, SubSeqProperties
    <3> QED BY <3>1, <3>3 DEF From
  <2>3. PlainType(rest[1]) # "entity"
    BY <2>1, <2>2 DEF PlainType, Detailed, Wrappers
  <2>4. ToErrorDetail(layers) = DetailOf(rest)
    BY <1>2 DEF ToErrorDetail
  <2>5. DetailOf(rest).type \in {"timeout", PlainType(rest[1])}
    BY DEF DetailOf
  <2> QED BY <2>3, <2>4, <2>5
<1> QED BY <1>1, <1>2

\* A wrap that is found by neither leaves the layer that is reported.
LEMMA WrapReports ==
  ASSUME ChainInv, NEW layer \in Layer,
         layer # "entity",
         First(chain, {"entity"}) # 0 \/ (layer \notin Detailed /\ First(chain, Detailed) # 0)
  PROVE  ToErrorDetail(<<layer>> \o chain) = detail
<1> DEFINE wrapped == <<layer>> \o chain
<1>1. chain \in Seq(Layer) /\ Len(wrapped) = Len(chain) + 1 /\ Len(chain) \in Nat
  BY DEF ChainInv
<1>2. First(wrapped, {"entity"}) = IF First(chain, {"entity"}) = 0 THEN 0
                                   ELSE First(chain, {"entity"}) + 1
  BY FirstOfWrapped DEF ChainInv
<1>3. \A set : HasFirst(chain, set) =>
        First(chain, set) = 0 \/ First(chain, set) \in DOMAIN chain
  BY <1>1, FirstIs
<1>4. CASE First(chain, {"entity"}) # 0
  <2> DEFINE f == First(chain, {"entity"})
             g == First(wrapped, {"entity"})
  <2>1. f \in 1..Len(chain) /\ g = f + 1
    BY <1>1, <1>2, <1>3, <1>4 DEF ChainInv
  <2> HIDE DEF f, g, wrapped
  <2>2. g # 0 /\ f # 0 /\ Len(wrapped) - g + 1 = Len(chain) - f + 1
    BY <1>1, <2>1
  <2> QED BY <2>2 DEF f, g, wrapped, ToErrorDetail, ChainInv
<1>5. CASE First(chain, {"entity"}) = 0
  <2>1. layer \notin Detailed /\ First(chain, Detailed) # 0
    BY <1>5
  <2>2. First(chain, Detailed) \in DOMAIN chain
    BY <1>3, <2>1 DEF ChainInv
  <2>3. First(wrapped, Detailed) = First(chain, Detailed) + 1
    BY <2>1, FirstOfWrapped DEF ChainInv
  <2>4. From(wrapped, First(wrapped, Detailed)) = From(chain, First(chain, Detailed))
    BY <1>1, <2>2, <2>3, FromWrapped
  <2>5. First(wrapped, Detailed) # 0
    BY <1>1, <2>2, <2>3
  <2>6. First(wrapped, {"entity"}) = 0
    BY <1>2, <1>5
  <2> HIDE DEF wrapped
  <2> QED BY <1>5, <2>1, <2>4, <2>5, <2>6 DEF wrapped, ToErrorDetail, ChainInv
<1> QED BY <1>4, <1>5

\* A cause by itself.
LEMMA ChainInitially == ChainInit => ChainInv
<1> SUFFICES ASSUME NEW cause \in Causes, chain = <<cause>>, detail = ToErrorDetail(chain)
             PROVE  ChainInv
  BY DEF ChainInit
<1>1. chain \in Seq(Layer) /\ chain # <<>> /\ DOMAIN chain = {1}
  BY DEF Layer
<1>2. \A set : HasFirst(chain, set)
  BY <1>1 DEF HasFirst
<1>3. Len(chain) = 1 /\ chain[1] \in Causes /\ 1 <= MaxDepth
  BY DepthAssumption
<1> QED BY <1>1, <1>2, <1>3 DEF ChainInv

\* Wrapping keeps the invariant.
LEMMA ChainInductive == ChainInv /\ [ChainNext]_chainVars => ChainInv'
<1> SUFFICES ASSUME ChainInv, [ChainNext]_chainVars PROVE ChainInv'
  OBVIOUS
<1>1. CASE UNCHANGED chainVars
  BY <1>1 DEF chainVars, ChainInv
<1>2. ASSUME NEW layer \in Wrappers, Wrap(layer) PROVE ChainInv'
  <2>1. layer \in Layer /\ chain' = <<layer>> \o chain /\ detail' = ToErrorDetail(chain')
    BY <1>2 DEF Wrap, Layer
  <2>2. chain' \in Seq(Layer) /\ chain' # <<>>
    BY <2>1 DEF ChainInv
  <2>3. HasFirst(chain', {"entity"}) /\ HasFirst(chain', Detailed)
    BY <2>1, FirstOfWrapped DEF ChainInv
  <2>4. /\ Len(chain') <= MaxDepth /\ chain'[Len(chain')] \in Causes
        /\ \A i \in DOMAIN chain' : i # Len(chain') => chain'[i] \in Wrappers
    <3> DEFINE n == Len(chain)
    <3>1. /\ n \in Nat /\ n < MaxDepth /\ n # 0 /\ Len(chain') = n + 1
          /\ DOMAIN chain = 1..n /\ DOMAIN chain' = 1..(n + 1)
          /\ chain'[1] = layer /\ \A i \in 1..n : chain'[i + 1] = chain[i]
      BY SMTT(60), <1>2, <2>1 DEF ChainInv, Wrap
    <3> HIDE DEF n
    <3>2. chain[n] \in Causes /\ \A i \in 1..n : i # n => chain[i] \in Wrappers
      BY <3>1 DEF ChainInv, n
    <3>3. n + 1 <= MaxDepth /\ chain'[n + 1] \in Causes
      <4>1. n \in 1..n
        BY <3>1
      <4> QED BY <3>1, <3>2, <4>1, DepthAssumption
    <3>4. ASSUME NEW i \in 1..(n + 1), i # n + 1 PROVE chain'[i] \in Wrappers
      <4>1. CASE i = 1
        BY <3>1, <4>1
      <4>2. CASE i # 1
        <5>1. i - 1 \in 1..n /\ (i - 1) + 1 = i /\ i - 1 # n
          BY <3>1, <3>4, <4>2
        <5> QED BY <3>1, <3>2, <5>1
      <4> QED BY <4>1, <4>2
    <3> QED BY <3>1, <3>3, <3>4
  <2> QED BY <2>1, <2>2, <2>3, <2>4 DEF ChainInv
<1> QED BY <1>1, <1>2 DEF ChainNext

(* However deep an *ErrorDetail is wrapped, and in whatever: ToErrorDetail *)
(* reports that very detail.                                               *)
THEOREM EntitiesSurvive == ChainSpec => EntitySurvives
<1>1. ASSUME ChainInv, [ChainNext]_chainVars
      PROVE  [detail.type = "entity" => detail' = detail]_chainVars
  <2> SUFFICES ASSUME detail.type = "entity", NEW layer \in Wrappers, Wrap(layer)
               PROVE  detail' = detail
    BY <1>1 DEF ChainNext, chainVars
  <2>1. layer \in Layer /\ layer # "entity" /\ detail' = ToErrorDetail(<<layer>> \o chain)
    BY DEF Wrap, Layer, Wrappers
  <2>2. First(chain, {"entity"}) # 0
    BY <1>1, OnlyEntities DEF ChainInv
  <2> QED BY <1>1, <2>1, <2>2, WrapReports
<1> QED BY ChainInitially, ChainInductive, <1>1, PTL DEF ChainSpec, EntitySurvives

(* fmt.Errorf with %w never changes what an error is reported as, however  *)
(* deep it is; only of one without a known type it is the new message.     *)
THEOREM WrapsKeepDetail == ChainSpec => WrapKeepsDetail
<1>1. ASSUME ChainInv, [ChainNext]_chainVars
      PROVE  [chain'[1] = "fmt" =>
                IF \E i \in DOMAIN chain : chain[i] \in Detailed \cup {"entity"}
                THEN detail' = detail
                ELSE detail' = [type |-> "internal", isTimeout |-> FALSE,
                                layer |-> Len(chain')]]_chainVars
  <2> SUFFICES ASSUME chain'[1] = "fmt", NEW layer \in Wrappers, Wrap(layer)
               PROVE  IF \E i \in DOMAIN chain : chain[i] \in Detailed \cup {"entity"}
                      THEN detail' = detail
                      ELSE detail' = [type |-> "internal", isTimeout |-> FALSE,
                                      layer |-> Len(chain')]
    BY <1>1 DEF ChainNext, chainVars
  <2>1. layer \in Layer /\ detail' = ToErrorDetail(<<layer>> \o chain)
    BY DEF Wrap, Layer
  <2>2. layer = "fmt"
    BY <1>1 DEF Wrap, ChainInv
  <2>3. layer # "entity" /\ layer \notin Detailed
    BY <2>2 DEF Detailed
  <2>4. \A set : HasFirst(chain, set) =>
          (First(chain, set) # 0 <=> \E i \in DOMAIN chain : chain[i] \in set)
    <3>1. chain \in Seq(Layer) /\ 0 \notin DOMAIN chain
      BY <1>1 DEF ChainInv
    <3> QED BY <3>1, FirstIs
  <2>5. CASE \E i \in DOMAIN chain : chain[i] \in Detailed \cup {"entity"}
    <3>1. First(chain, {"entity"}) # 0 \/ First(chain, Detailed) # 0
      BY <1>1, <2>4, <2>5 DEF ChainInv
    <3> QED BY <1>1, <2>1, <2>3, <2>5, <3>1, WrapReports
  <2>6. CASE ~\E i \in DOMAIN chain : chain[i] \in Detailed \cup {"entity"}
    <3>1. First(chain, {"entity"}) = 0 /\ First(chain, Detailed) = 0
      BY <1>1, <2>4, <2>6 DEF ChainInv
    <3>2. /\ First(<<layer>> \o chain, {"entity"}) = 0
          /\ First(<<layer>> \o chain, Detailed) = 0
      BY <1>1, <2>1, <2>3, <3>1, FirstOfWrapped DEF ChainInv
    <3>3. detail' = Unknown(<<layer>> \o chain) /\ chain' = <<layer>> \o chain
      BY <2>1, <3>2 DEF ToErrorDetail, Wrap
    <3> QED BY <2>6, <3>3 DEF Unknown
  <2> QED BY <2>5, <2>6
<1> QED BY ChainInitially, ChainInductive, <1>1, PTL DEF ChainSpec, WrapKeepsDetail

\* The rest of a chain.
LEMMA FromIs ==
  ASSUME NEW layers \in Seq(Layer), NEW i \in DOMAIN layers
  PROVE  /\ From(layers, i) \in Seq(Layer)
         /\ Len(From(layers, i)) = Len(layers) - i + 1
         /\ \A j \in 1..(Len(layers) - i + 1) : From(layers, i)[j] = layers[i + j - 1]
<1> DEFINE n == Len(layers)
<1>1. i \in Int /\ n \in Int /\ i <= n /\ \A j \in i..n : layers[j] \in Layer
  <2>1. n \in Nat /\ i \in 1..n
    OBVIOUS
  <2> QED BY <2>1
<1> HIDE DEF n
<1>2. /\ SubSeq(layers, i, n) \in Seq(Layer)
      /\ Len(SubSeq(layers, i, n)) = IF i <= n THEN n - i + 1 ELSE 0
      /\ \A j \in 1..(n - i + 1) : SubSeq(layers, i, n)[j] = layers[i + j - 1]
  BY <1>1, SubSeqProperties
<1> QED BY <1>1, <1>2 DEF From, n

\* The layer that is reported: the outermost given detail, else the outermost
\* layer of a known type, else all of the chain.
Reported(f) ==
  /\ f \in DOMAIN chain /\ detail.layer = Len(chain) - f + 1
  /\ \/ chain[f] = "entity" /\ detail.type = "entity" /\ ~detail.isTimeout
     \/ chain[f] \in Detailed /\ detail = DetailOf(From(chain, f))
     \/ /\ f = 1 /\ detail.type = "internal" /\ ~detail.isTimeout
        /\ \A i \in DOMAIN chain : chain[i] \notin Detailed \cup {"entity"}

\* ToErrorDetail reports one of them.
LEMMA SomethingReported ==
  ASSUME ChainInv
  PROVE  \E f \in DOMAIN chain : Reported(f)
<1> DEFINE e == First(chain, {"entity"})
           d == First(chain, Detailed)
<1>1. /\ chain \in Seq(Layer) /\ HasFirst(chain, {"entity"}) /\ HasFirst(chain, Detailed)
      /\ DOMAIN chain = 1..Len(chain) /\ Len(chain) \in Nat /\ Len(chain) # 0
  BY DEF ChainInv
<1>2. CASE e # 0
  <2>1. e \in DOMAIN chain /\ chain[e] = "entity"
    BY <1>1, <1>2, FirstIs
  <2>2. detail = [type |-> "entity", isTimeout |-> FALSE, layer |-> Len(chain) - e + 1]
    BY <1>2 DEF ChainInv, ToErrorDetail
  <2> HIDE DEF e
  <2> QED BY <2>1, <2>2 DEF Reported
<1>3. CASE e = 0 /\ d # 0
  <2>1. d \in DOMAIN chain /\ chain[d] \in Detailed
    BY <1>1, <1>3, FirstIs
  <2>2. detail = DetailOf(From(chain, d))
    BY <1>3 DEF ChainInv, ToErrorDetail
  <2> HIDE DEF d
  <2>3. detail.layer = Len(chain) - d + 1
    BY <1>1, <2>1, <2>2, FromIs DEF DetailOf
  <2> QED BY <2>1, <2>2, <2>3 DEF Reported
<1>4. CASE e = 0 /\ d = 0
  <2>1. \A i \in DOMAIN chain : chain[i] \notin Detailed \cup {"entity"}
    <3>1. 0 \notin DOMAIN chain
      BY <1>1
    <3> QED BY <1>1, <1>4, <3>1, FirstIs
  <2>2. detail = [type |-> "internal", isTimeout |-> FALSE, layer |-> Len(chain)]
    BY <1>4 DEF ChainInv, ToErrorDetail, Unknown
  <2>3. 1 \in DOMAIN chain /\ Len(chain) = Len(chain) - 1 + 1
    BY <1>1
  <2> QED BY <2>1, <2>2, <2>3 DEF Reported
<1> QED BY <1>2, <1>3, <1>4

\* What is reported of the rest of the chain that starts with a known type.
LEMMA DetailOfIs ==
  ASSUME NEW rest \in Seq(Layer), rest # <<>>, rest[1] \in Detailed
  PROVE  /\ DetailOf(rest).type \in Types /\ DetailOf(rest).isTimeout \in BOOLEAN
         /\ DetailOf(rest).isTimeout <=> DetailOf(rest).type = "timeout"
         /\ DetailOf(rest).isTimeout <=>
              rest[1] \in AsksItsErr \cup {"timeout"} /\ Timeout(rest)
<1> DEFINE timesOut == rest[1] \in AsksItsErr \cup {"timeout"} /\ Timeout(rest)
<1>1. /\ DetailOf(rest).isTimeout = timesOut
      /\ DetailOf(rest).type = IF timesOut THEN "timeout" ELSE PlainType(rest[1])
  BY DEF DetailOf
<1>2. PlainType(rest[1]) \in Types /\ (rest[1] # "timeout" => PlainType(rest[1]) # "timeout")
  BY DEF PlainType, Types, Detailed, Wrappers, AsksItsErr
<1>3. rest[1] = "timeout" => timesOut
  <2>1. 1 \in DOMAIN rest /\ \A j \in 1..(1 - 1) : rest[j] \in AsksItsErr
    OBVIOUS
  <2> QED BY <2>1 DEF Timeout
<1>4. timesOut \in BOOLEAN
  BY DEF Timeout
<1>5. "timeout" \in Types
  BY DEF Types
<1> HIDE DEF timesOut
<1>6. DetailOf(rest).type = "timeout" <=> timesOut
  BY <1>1, <1>2, <1>3
<1> QED BY <1>1, <1>2, <1>4, <1>5, <1>6 DEF timesOut

\* What is reported of a chain is well typed.
LEMMA ChainIsTyped ==
  ASSUME ChainInv PROVE ChainTypeOK
<1>1. PICK f \in DOMAIN chain : Reported(f)
  BY SomethingReported
<1>2. /\ chain \in Seq(Wrappers \cup Causes) /\ Len(chain) \in 1..MaxDepth
      /\ f \in 1..Len(chain)
  BY DepthAssumption DEF ChainInv, Layer
<1>3. detail.layer \in 1..MaxDepth
  <2>1. detail.layer = Len(chain) - f + 1
    BY <1>1 DEF Reported
  <2>2. f \in Int /\ 1 <= f /\ f <= Len(chain) /\ Len(chain) \in Int
        /\ Len(chain) <= MaxDepth /\ MaxDepth \in Int
    BY <1>2, DepthAssumption
  <2> QED BY <2>1, <2>2
<1>4. detail.type \in Types /\ detail.isTimeout \in BOOLEAN
  <2>1. CASE chain[f] \in Detailed /\ detail = DetailOf(From(chain, f))
    <3>1. From(chain, f) \in Seq(Layer) /\ From(chain, f) # <<>> /\ From(chain, f)[1] = chain[f]
      <4>1. Len(chain) - f + 1 # 0 /\ 1 \in 1..(Len(chain) - f + 1) /\ f + 1 - 1 = f
        BY <1>2
      <4> QED BY <1>2, <4>1, FromIs DEF ChainInv
    <3> QED BY <2>1, <3>1, DetailOfIs
  <2>2. CASE chain[f] = "entity" /\ First(chain, {"entity"}) # 0
    BY <2>2 DEF ChainInv, ToErrorDetail, Types
  <2>3. CASE First(chain, {"entity"}) = 0 /\ First(chain, Detailed) = 0
    BY <2>3 DEF ChainInv, ToErrorDetail, Unknown, Types
  <2>4. CASE chain[f] = "entity" /\ First(chain, {"entity"}) = 0
    BY <2>4, <1>1, FirstIs DEF ChainInv
  <2>5. CASE \A i \in DOMAIN chain : chain[i] \notin Detailed \cup {"entity"}
    <3>1. \A set \in {{"entity"}, Detailed} : First(chain, set) = 0
      BY <2>5, FirstIs DEF ChainInv
    <3> QED BY <2>3, <3>1
  <2> QED BY <1>1, <2>1, <2>2, <2>4, <2>5 DEF Reported
<1>5. detail = [type |-> detail.type, isTimeout |-> detail.isTimeout, layer |-> detail.layer]
  BY DEF ChainInv, ToErrorDetail, DetailOf, Unknown
<1> HIDE DEF ChainInv
<1> QED BY <1>2, <1>3, <1>4, <1>5 DEF ChainTypeOK

(* Whatever is wrapped in whatever, the chain and the detail are well      *)
(* typed: ToErrorDetail answers with a type the host knows.                *)
THEOREM ChainsTyped == ChainSpec => []ChainTypeOK
<1>1. ChainInv => ChainTypeOK
  BY ChainIsTyped
<1> QED BY ChainInitially, ChainInductive, <1>1, PTL DEF ChainSpec

(* However an error is wrapped: it is reported as a timeout if and only if *)
(* the layer that is reported is one, or asks down to one through nothing  *)
(* but lookups, requests and connections (DNSError, HTTPError, TCPError).  *)
THEOREM TimeoutsCorrect == ChainSpec => []TimeoutsAreReal
<1>1. ASSUME ChainInv PROVE TimeoutsAreReal
  <2>1. PICK f \in DOMAIN chain : Reported(f)
    BY <1>1, SomethingReported
  <2> DEFINE n == Len(chain)
             rest == From(chain, f)
             last == Len(rest)
  <2>2. /\ chain \in Seq(Layer) /\ n \in Nat /\ f \in 1..n /\ chain[n] \in Causes
        /\ \A i \in 1..n : i # n => chain[i] \in Wrappers
    BY <1>1 DEF ChainInv
  <2>3. /\ rest \in Seq(Layer) /\ last = n - f + 1
        /\ \A j \in 1..last : rest[j] = chain[f + j - 1]
    BY <2>2, FromIs
  <2>4. From(chain, Len(chain) - detail.layer + 1) = rest
    <3>1. n - (n - f + 1) + 1 = f
      BY <2>2
    <3> QED BY <2>1, <3>1 DEF Reported
  <2> HIDE DEF n, rest
  <2>5. /\ last \in Nat /\ last >= 1 /\ 1 \in 1..last /\ last \in 1..last
        /\ rest[1] = chain[f]
    BY <2>2, <2>3
  <2>6. \A j \in 1..last : j # last => rest[j] \in Wrappers
    <3> SUFFICES ASSUME NEW j \in 1..last, j # last PROVE rest[j] \in Wrappers
      OBVIOUS
    <3>1. f + j - 1 \in 1..n /\ f + j - 1 # n
      BY SMTT(60), <2>2, <2>3
    <3> QED BY <2>2, <2>3, <3>1
  <2>7. rest # <<>> /\ DOMAIN rest = 1..last
    BY <2>3, <2>5
  <2> DEFINE times == /\ rest[last] \in {"timeout", "deadline"}
                      /\ \A i \in 1..(last - 1) : rest[i] \in AsksItsErr
                      /\ rest # <<"deadline">>
  <2> HIDE DEF last
  <2>8. times /\ last = 1 => rest[1] = "timeout"
    <3> SUFFICES ASSUME times, last = 1, rest[1] = "deadline" PROVE FALSE
      OBVIOUS
    <3>1. rest = <<"deadline">>
      BY <2>3, <2>7 DEF last
    <3> QED BY <3>1
  <2>9. times /\ last # 1 => rest[1] \in AsksItsErr
    <3>1. last # 1 => 1 \in 1..(last - 1)
      BY <2>5
    <3> QED BY <3>1
  <2>10. CASE chain[f] = "entity" /\ detail.type = "entity" /\ ~detail.isTimeout
    <3>1. ~times
      BY <2>5, <2>8, <2>9, <2>10 DEF AsksItsErr
    <3> QED BY <2>4, <2>10, <3>1 DEF TimeoutsAreReal, last
  <2>11. CASE chain[f] \in Detailed /\ detail = DetailOf(rest)
    <3>1. /\ detail.isTimeout <=> detail.type = "timeout"
          /\ detail.isTimeout <=> rest[1] \in AsksItsErr \cup {"timeout"} /\ Timeout(rest)
      BY <2>3, <2>5, <2>7, <2>11, DetailOfIs
    <3>2. rest[1] \in AsksItsErr \cup {"timeout"} /\ Timeout(rest) => times
      <4> SUFFICES ASSUME rest[1] \in AsksItsErr \cup {"timeout"},
                          NEW i \in 1..last, rest[i] \in {"timeout", "deadline"},
                          \A j \in 1..(i - 1) : rest[j] \in AsksItsErr
                   PROVE  times
        BY <2>7 DEF Timeout
      <4>1. i = last
        BY <2>6 DEF Wrappers
      <4>2. rest # <<"deadline">>
        <5>1. rest[1] # "deadline"
          BY DEF AsksItsErr
        <5> QED BY <5>1
      <4> QED BY <4>1, <4>2
    <3>3. times => rest[1] \in AsksItsErr \cup {"timeout"} /\ Timeout(rest)
      BY <2>5, <2>7, <2>8, <2>9 DEF Timeout
    <3> QED BY <2>4, <3>1, <3>2, <3>3 DEF TimeoutsAreReal, last
  <2>12. CASE /\ f = 1 /\ detail.type = "internal" /\ ~detail.isTimeout
              /\ \A i \in DOMAIN chain : chain[i] \notin Detailed \cup {"entity"}
    <3>1. rest[1] \notin Detailed
      BY <2>5, <2>12
    <3>2. ~times
      BY <2>8, <2>9, <3>1 DEF AsksItsErr, Detailed, Wrappers
    <3> QED BY <2>4, <2>12, <3>2 DEF TimeoutsAreReal, last
  <2> QED BY <2>1, <2>10, <2>11, <2>12 DEF Reported, rest
<1> QED BY ChainInitially, ChainInductive, <1>1, PTL DEF ChainSpec

-----------------------------------------------------------------------------
(* Handlers.                                                               *)

\* Nothing is returned before the method is done, and nothing observed before
\* that; a typed handler never returns an error of its own, nor a Result that
\* JSON refuses.
HandlerInv ==
  /\ HandlerTypeOK
  /\ pc \in {"dispatch", "running"} => output = None /\ failed = None
  /\ pc \in {"dispatch", "running", "panicked"} => returned = None /\ err = None
  /\ pc = "running" /\ op = "typed" => raw # "invalid"
  /\ op = "typed" /\ pc = "returned" => returned # None
  /\ op = "typed" => err = None /\ (returned # None => ~returned.refused)
  /\ TypedOutcome

\* What a Result holds.
LEMMA BuiltIs ==
  /\ \A status, type, message :
       LET result == Result(status, type, message)
       IN  result.status = status /\ result.type = type /\ ~result.refused
  /\ \A data :
       LET result == Fine(data)
       IN  result.status = "success" /\ result.type = None /\ ~result.refused
BY Zenon DEF Result, Fine, Built

\* The Results of a handler and of a Check are among those it may return.
LEMMA ResultsAre ==
  /\ Fine(NoData) \in Returns
  /\ \A data \in Outputs : Fine(ThroughJSON[data]) \in Returns
  /\ \A message \in Messages :
       /\ \A type \in {"config", "execution", "output", "panic", "internal"} :
            Result("error", type, message) \in Returns
       /\ Result("failure", None, message) \in Returns
<1>1. NoData \in Outputs
  <2>1. <<>> \in [{} -> GoValues]
    OBVIOUS
  <2>2. NoData \in Maps("map", GoValues, {{}, {1}})
    BY <2>1 DEF Maps, NoData, Holding
  <2> QED BY <2>2 DEF Outputs, Objects
<1>2. Fine(NoData) \in Results
  BY <1>1 DEF Results, Fine
<1>3. \A message \in Messages : Result("failure", None, message) \in Results
  BY DEF Results
<1> QED BY <1>2, <1>3 DEF Returns, MethodResults

\* What the host reads is typed, and of a Result that JSON does not refuse it
\* has the status and type.
LEMMA ExportedIs ==
  ASSUME NEW result \in Returns, NEW message \in Messages
  PROVE  /\ Exported(result, message) \in Evidences
         /\ ~result.refused => /\ Exported(result, message).status = result.status
                              /\ Exported(result, message).type = result.type
<1>1. CASE result.refused
  <2>1. Result("error", "internal", message) \in Evidences
    BY ResultsAre DEF Evidences
  <2> QED BY <1>1, <2>1 DEF Exported
<1>2. CASE ~result.refused
  <2>1. Exported(result, message) = [result EXCEPT !.data = ThroughJSON[@]]
    BY <1>2 DEF Exported
  <2>2. [result EXCEPT !.data = ThroughJSON[@]] \in Evidences
    BY DEF Evidences
  <2> QED BY <2>1, <2>2
<1> QED BY <1>1, <1>2

\* A handler before its request.
LEMMA HandlerInitially == HandlerInit => HandlerInv
BY DEF HandlerInit, HandlerInv, HandlerTypeOK, TypedOutcome

\* nil is none of the others.
LEMMA NoneIs ==
  /\ None \notin Messages /\ None # "object" /\ None # "other"
  /\ None # "config" /\ None # "execution" /\ None # "output" /\ None # "panic"
  /\ \A result \in Returns : result # None
BY NoneAssumption DEF Messages, Evidences

\* A typed method's output and error: a Result that is a success only if there
\* was no error and the output, if any, could be serialized.
TypedFor(result, out, error) ==
  /\ result \in Returns /\ ~result.refused
  /\ result.status = "success" <=> error = None /\ out # "other"
  /\ result.status # "success" => result.status = "error" /\ result.type # None
  /\ result.type # "panic"

\* What a typed handler returns.
LEMMA TypedResultIs ==
  ASSUME NEW out \in {None, "object", "other"}, NEW error \in Messages \cup {None},
         NEW data \in IF out = "object" THEN Outputs ELSE {NoData},
         NEW message \in Messages
  PROVE  TypedFor(TypedResult(out, data, error, message), out, error)
<1> USE DEF TypedFor
<1>1. CASE error # None
  <2>1. TypedResult(out, data, error, message) = Result("error", "execution", error)
    BY <1>1 DEF TypedResult
  <2>2. Result("error", "execution", error) \in Returns
    BY <1>1, ResultsAre
  <2> QED BY <1>1, <2>1, <2>2, BuiltIs, NoneIs
<1>2. CASE error = None /\ out = None
  <2>1. TypedResult(out, data, error, message) = Fine(NoData)
    BY <1>2 DEF TypedResult
  <2>2. out # "other"
    BY <1>2, NoneIs
  <2> DEFINE result == Fine(NoData)
  <2>3. /\ result \in Returns /\ ~result.refused
        /\ result.status = "success" /\ result.type = None
    BY ResultsAre, BuiltIs
  <2> HIDE DEF result
  <2> QED BY <1>2, <2>1, <2>2, <2>3, NoneIs DEF result
<1>3. CASE error = None /\ out = "object"
  <2>1. TypedResult(out, data, error, message) = Fine(ThroughJSON[data]) /\ data \in Outputs
    BY <1>3, NoneIs DEF TypedResult
  <2> DEFINE result == Fine(ThroughJSON[data])
  <2>2. /\ result \in Returns /\ ~result.refused
        /\ result.status = "success" /\ result.type = None
    BY <2>1, ResultsAre, BuiltIs
  <2> HIDE DEF result
  <2> QED BY <1>3, <2>1, <2>2, NoneIs DEF result
<1>4. CASE error = None /\ out = "other"
  <2>1. TypedResult(out, data, error, message) = Result("error", "output", message)
    BY <1>4, NoneIs DEF TypedResult
  <2>2. Result("error", "output", message) \in Returns
    BY ResultsAre
  <2> QED BY <1>4, <2>1, <2>2, BuiltIs, NoneIs
<1> QED BY <1>1, <1>2, <1>3, <1>4

\* Every step keeps it.
LEMMA HandlerInductive == HandlerInv /\ [HandlerNext]_handlerVars => HandlerInv'
<1> SUFFICES ASSUME HandlerInv, [HandlerNext]_handlerVars PROVE HandlerInv'
  OBVIOUS
<1> USE DEF HandlerReturns, request
<1>1. CASE Dispatch
  <2>1. ASSUME op = "typed", raw = "invalid", pc = "dispatch", NEW message \in Messages,
               HandlerReturns(Result("error", "config", message), None),
               UNCHANGED <<output, failed>>
        PROVE  HandlerInv'
    <3>1. Result("error", "config", message) \in Returns
      BY ResultsAre
    <3>2. HandlerTypeOK'
      BY <2>1, <3>1 DEF HandlerInv, HandlerTypeOK
    <3>3. returned'.status = "error" /\ returned'.type = "config" /\ ~returned'.refused
      BY <2>1, BuiltIs
    <3>4. returned' # None /\ "config" # None
      BY <2>1, <3>1, NoneIs
    <3>5. TypedOutcome'
      BY <2>1, <3>3, <3>4 DEF TypedOutcome
    <3> QED BY <2>1, <3>2, <3>3, <3>5, <3>4 DEF HandlerInv
  <2>2. ASSUME ~(op = "typed" /\ raw = "invalid"), pc = "dispatch", pc' = "running",
               UNCHANGED <<request, returned, err, evidence, output, failed>>
        PROVE  HandlerInv'
    BY <2>2 DEF HandlerInv, HandlerTypeOK, TypedOutcome
  <2> QED BY <1>1, <2>1, <2>2 DEF Dispatch
<1>2. CASE MethodPanics
  BY <1>2 DEF MethodPanics, HandlerInv, HandlerTypeOK, TypedOutcome
<1>3. ASSUME NEW out \in {None, "object", "other"}, NEW error \in Messages \cup {None},
             NEW data \in IF out = "object" THEN Outputs ELSE {NoData},
             TypedMethodReturns(out, data, error)
      PROVE  HandlerInv'
  <2>1. PICK message \in Messages : HandlerReturns(TypedResult(out, data, error, message), None)
    BY <1>3 DEF TypedMethodReturns
  <2> DEFINE result == TypedResult(out, data, error, message)
  <2>2. TypedFor(result, out, error)
    BY TypedResultIs
  <2>3. /\ pc = "running" /\ op = "typed" /\ output' = out /\ failed' = error
        /\ pc' = "returned" /\ returned' = result /\ err' = None
        /\ UNCHANGED <<request, evidence>>
    BY <1>3, <2>1 DEF TypedMethodReturns
  <2> HIDE DEF result
  <2>4. result \in Returns /\ result # None /\ ~result.refused
    BY <2>2, NoneIs DEF TypedFor
  <2>5. HandlerTypeOK'
    BY <2>3, <2>4 DEF HandlerInv, HandlerTypeOK
  <2>6. TypedOutcome'
    BY <2>2, <2>3, <2>4 DEF HandlerInv, TypedOutcome, TypedFor
  <2> QED BY <2>3, <2>4, <2>5, <2>6 DEF HandlerInv
<1>4. ASSUME NEW result \in MethodResults \cup {None}, NEW error \in Messages \cup {None},
             LegacyMethodReturns(result, error)
      PROVE  HandlerInv'
  <2>1. result \in Returns \cup {None}
    BY DEF Returns
  <2>2. /\ pc = "running" /\ op = "legacy" /\ output' = output /\ failed' = error
        /\ pc' = "returned" /\ returned' = result /\ err' = error
        /\ UNCHANGED <<request, evidence>>
    BY <1>4 DEF LegacyMethodReturns
  <2> QED BY <2>1, <2>2 DEF HandlerInv, HandlerTypeOK, TypedOutcome
<1>5. CASE Observe
  <2>1. PICK message \in Messages :
          \/ pc = "returned" /\ evidence' = Exported(Observed, message)
          \/ pc = "panicked" /\ evidence' = Exported(Result("error", "panic", message), message)
    BY <1>5 DEF Observe
  <2>2. /\ pc = "returned" => Observed \in Returns
        /\ Result("error", "panic", message) \in Returns
    <3>1. "other" \in Messages
      BY DEF Messages
    <3> QED BY <3>1, ResultsAre DEF Observed, HandlerInv, HandlerTypeOK
  <2>3. HandlerTypeOK'
    <3>1. evidence' \in Evidences
      BY <2>1, <2>2, ExportedIs
    <3> QED BY <1>5, <3>1 DEF Observe, HandlerInv, HandlerTypeOK
  <2>4. TypedOutcome'
    <3> SUFFICES ASSUME op = "typed" PROVE TypedOutcome'
      BY <1>5 DEF Observe, TypedOutcome
    <3>1. err = None
      BY DEF HandlerInv
    <3>2. CASE pc = "returned"
      <4>1. returned # None /\ Observed = returned /\ ~returned.refused
        BY <3>1, <3>2 DEF HandlerInv, Observed
      <4>2. evidence'.status = returned.status /\ evidence'.type = returned.type
        BY <2>1, <2>2, <3>2, <4>1, ExportedIs
      <4> QED BY <1>5, <3>2, <4>1, <4>2 DEF Observe, HandlerInv, TypedOutcome
    <3>3. CASE pc = "panicked"
      <4>1. evidence'.status = "error" /\ evidence'.type = "panic"
        BY <2>1, <2>2, <3>3, ExportedIs, BuiltIs
      <4>2. returned = None /\ "panic" # None
        BY <3>3, NoneIs DEF HandlerInv
      <4> QED BY <1>5, <3>3, <4>1, <4>2 DEF Observe, TypedOutcome
    <3> QED BY <1>5, <3>2, <3>3 DEF Observe
  <2> QED BY <1>5, <2>3, <2>4 DEF Observe, HandlerInv
<1>6. CASE UNCHANGED handlerVars
  BY <1>6 DEF handlerVars, HandlerInv, HandlerTypeOK, TypedOutcome
<1> QED BY <1>1, <1>2, <1>3, <1>4, <1>5, <1>6 DEF HandlerNext

(* A typed operation is a success exactly if nothing of it failed          *)
(* (wrapTypedMethod), also as a plugin's Check observes it.                *)
THEOREM OutcomesCorrect == HandlerSpec => []TypedOutcome
<1>1. HandlerInv => TypedOutcome
  BY DEF HandlerInv
<1> QED BY HandlerInitially, HandlerInductive, <1>1, PTL DEF HandlerSpec

-----------------------------------------------------------------------------
(* HostClients.                                                            *)

\* The settings of any client, and an option for one of them.
Fields == {"runner", "workdir", "env", "timeout", "maxRedirects", "tlsConfig",
           "nameserver", "retries", "enableLogging", "logLevel"}

Option == UNION {[field : {f}, value : ValuesOf(f)] : f \in Fields}

\* An option that is given and valid sets a field.
Names(option, field) == option.field = field /\ Valid(option)

\* A setting is its default when no valid option names it, and else what the
\* last of those says.
Meant(field) ==
  \/ /\ config[field] = Default(kind)[field]
     /\ \A i \in DOMAIN given : ~Names(given[i], field)
  \/ \E i \in DOMAIN given :
       /\ Names(given[i], field) /\ config[field] = given[i].value
       /\ \A j \in DOMAIN given : Names(given[j], field) => j <= i

\* Every setting of a client is meant.
ConfigInv ==
  /\ kind \in {"exec", "http", "dns", "sdk"}
  /\ given \in Seq(Option)
  /\ DOMAIN config = DOMAIN Default(kind)
  /\ config.timeout \in Int /\ config.timeout > 0
  /\ kind = "exec" => config.runner \in {"host", "mock"}
  /\ \A field \in DOMAIN config : Meant(field)

\* Only commands are run; the host answers only to a request, and is not asked
\* in place of another runner.
RunInv ==
  /\ stage \in {"options", "calling", "returned"}
  /\ stage # "options" => kind = "exec"
  /\ stage = "options" => sent = Unset /\ answer = Unset
  /\ stage = "calling" => config.runner = "host" /\ answer = Unset
  /\ CommandOutcome

\* The defaults: every client has a timeout, a command a runner.
LEMMA Defaults ==
  ASSUME NEW k \in {"exec", "http", "dns", "sdk"}
  PROVE  /\ DOMAIN Default(k) \subseteq Fields
         /\ "timeout" \in DOMAIN Default(k)
         /\ Default(k).timeout \in Int /\ Default(k).timeout > 0
         /\ k = "exec" => Default(k).runner = "host" /\ "runner" \in DOMAIN Default(k)
BY DEF Default, Fields, Second

\* An option is applied exactly if the documentation calls it valid.
LEMMA AcceptedIsValid ==
  ASSUME NEW field \in Fields, NEW value \in ValuesOf(field)
  PROVE  Accepted(field, value) <=> Valid([field |-> field, value |-> value])
<1>1. CASE field = "timeout"
  BY <1>1, ClientAssumption DEF Accepted, Valid, ValuesOf
<1>2. CASE field \in {"maxRedirects", "retries"}
  BY <1>2, ClientAssumption DEF Accepted, Valid, ValuesOf
<1>3. CASE field = "runner"
  BY <1>3, ClientAssumption DEF Accepted, Valid, ValuesOf
<1>4. CASE field \notin {"timeout", "maxRedirects", "retries", "runner"}
  BY <1>4 DEF Accepted, Valid
<1> QED BY <1>1, <1>2, <1>3, <1>4

\* The defaults, before any option.
LEMMA ClientInitially == ClientInit => ConfigInv /\ RunInv
<1> SUFFICES ASSUME ClientInit PROVE ConfigInv /\ RunInv
  OBVIOUS
<1>1. given \in Seq(Option) /\ DOMAIN given = {}
  BY DEF ClientInit
<1>2. ConfigInv
  BY <1>1, Defaults DEF ClientInit, ConfigInv, Meant
<1>3. RunInv
  BY DEF ClientInit, RunInv, CommandOutcome
<1> QED BY <1>2, <1>3

\* One more option: applied, or ignored.
LEMMA GiveKeeps ==
  ASSUME ConfigInv, RunInv, NEW field \in DOMAIN config,
         NEW value \in ValuesOf(field), Give(field, value)
  PROVE  ConfigInv' /\ RunInv'
<1> USE DEF ConfigInv
<1> DEFINE option == [field |-> field, value |-> value]
           n == Len(given)
<1>1. field \in Fields /\ DOMAIN config \subseteq Fields
  BY Defaults
<1>2. option \in Option
  BY <1>1 DEF Option
<1>3. /\ given' \in Seq(Option) /\ n \in Nat
      /\ DOMAIN given = 1..n /\ DOMAIN given' = 1..(n + 1)
      /\ given'[n + 1] = option
      /\ \A i \in 1..n : given'[i] = given[i]
  BY <1>2 DEF Give
<1>4. Accepted(field, value) <=> Valid(option)
  BY <1>1, AcceptedIsValid
<1>5. DOMAIN config' = DOMAIN config /\ kind' = kind
  BY DEF Give
<1>6. \A f \in DOMAIN config : config'[f] = IF Names(option, field) /\ f = field
                                            THEN value ELSE config[f]
  BY <1>4 DEF Give, Names
<1> HIDE DEF option, n
<1>7. ASSUME NEW f \in DOMAIN config PROVE Meant(f)'
  <2>1. CASE Names(option, f)
    <3>1. f = field /\ option.value = value
      BY <2>1 DEF Names, option
    <3>2. config'[f] = value
      BY <1>6, <2>1, <3>1
    <3>3. n + 1 \in DOMAIN given' /\ \A j \in DOMAIN given' : j <= n + 1
      BY <1>3
    <3>4. Names(given'[n + 1], f) /\ config'[f] = given'[n + 1].value
      BY <1>3, <2>1, <3>1, <3>2
    <3> QED BY <3>3, <3>4 DEF Meant, Names, Valid
  <2>2. CASE ~Names(option, f)
    <3>1. config'[f] = config[f]
      BY <1>6, <2>2
    <3>2. \A i \in DOMAIN given' : Names(given'[i], f) => i \in DOMAIN given
      BY <1>3, <2>2
    <3>3. \A i \in DOMAIN given : i \in DOMAIN given' /\ given'[i] = given[i]
      BY <1>3
    <3>4. Meant(f)
      OBVIOUS
    <3>5. CASE /\ config[f] = Default(kind)[f]
               /\ \A i \in DOMAIN given : ~Names(given[i], f)
      <4>1. \A i \in DOMAIN given' : ~Names(given'[i], f)
        BY <3>2, <3>3, <3>5
      <4> QED BY <1>5, <3>1, <3>5, <4>1 DEF Meant, Names, Valid
    <3>6. ASSUME NEW i \in DOMAIN given, Names(given[i], f),
                 config[f] = given[i].value,
                 \A j \in DOMAIN given : Names(given[j], f) => j <= i
          PROVE  Meant(f)'
      <4>1. /\ i \in DOMAIN given' /\ Names(given'[i], f)
            /\ config'[f] = given'[i].value
        BY <3>1, <3>3, <3>6
      <4>2. \A j \in DOMAIN given' : Names(given'[j], f) => j <= i
        BY <3>2, <3>3, <3>6
      <4> QED BY <4>1, <4>2 DEF Meant, Names, Valid
    <3> QED BY <3>4, <3>5, <3>6 DEF Meant
  <2> QED BY <2>1, <2>2
<1>8. config'.timeout \in Int /\ config'.timeout > 0
  <2>1. "timeout" \in DOMAIN config
    BY Defaults
  <2>2. field = "timeout" /\ Names(option, field) => value \in Int /\ value > 0
    BY <1>4, ClientAssumption DEF Names, Accepted, ValuesOf
  <2> QED BY <1>6, <2>1, <2>2
<1>9. kind = "exec" => config'.runner \in {"host", "mock"}
  <2>1. kind = "exec" => "runner" \in DOMAIN config
    BY Defaults
  <2>2. field = "runner" /\ Names(option, field) => value = "mock"
    BY <1>4 DEF Names, Accepted, ValuesOf
  <2> QED BY <1>6, <2>1, <2>2
<1>10. ConfigInv'
  BY <1>3, <1>5, <1>7, <1>8, <1>9
<1>11. RunInv'
  BY DEF Give, call, RunInv, CommandOutcome
<1> QED BY <1>10, <1>11

\* Every step keeps both parts of the invariant.
LEMMA ClientInductive ==
  ConfigInv /\ RunInv /\ [ClientNext]_clientVars => ConfigInv' /\ RunInv'
<1> SUFFICES ASSUME ConfigInv, RunInv, [ClientNext]_clientVars
             PROVE  ConfigInv' /\ RunInv'
  OBVIOUS
<1>1. CASE UNCHANGED <<kind, given, config>>
  <2>1. ConfigInv'
    BY <1>1 DEF ConfigInv, Meant, Names, Valid
  <2>2. CASE UNCHANGED clientVars
    BY <2>1, <2>2 DEF clientVars, call, RunInv, CommandOutcome
  <2>3. ASSUME NEW req \in Requests, NEW ctx \in Contexts, Run(req, ctx) PROVE RunInv'
    <3>1. /\ kind' = "exec" /\ config' = config /\ answer' = Unset
          /\ config.runner \in {"host", "mock"}
      BY <2>3 DEF Run, RunInv, ConfigInv
    <3>2. CASE /\ config.runner = "mock"
               /\ stage' = "returned" /\ sent' = Unset
               /\ outcome' \in [output : {Unset, "mock"}, error : {Unset, "mock"}]
      <4>1. outcome'.output \in {Unset, "mock"}
        BY <3>2
      <4> QED BY <3>1, <3>2, <4>1, ClientAssumption DEF RunInv, CommandOutcome
    <3>3. CASE /\ config.runner = "host"
               /\ stage' = "returned" /\ sent' = Unset /\ outcome' = Failed("marshal")
      <4>1. outcome'.output = Unset /\ outcome'.error = "marshal"
        BY <3>3 DEF Failed
      <4> QED BY <3>1, <3>3, <4>1, ClientAssumption DEF RunInv, CommandOutcome
    <3>4. CASE config.runner = "host" /\ stage' = "calling"
      BY <3>1, <3>4 DEF RunInv, CommandOutcome
    <3> QED BY <2>3, <3>2, <3>3, <3>4 DEF Run
  <2>4. ASSUME NEW reply \in Answers, HostAnswers(reply) PROVE RunInv'
    <3>1. /\ kind' = "exec" /\ config' = config /\ config.runner = "host"
          /\ stage' = "returned" /\ answer' = reply /\ outcome' = Returned(reply)
      BY <2>4 DEF HostAnswers, RunInv
    <3>2. CASE reply = "output"
      <4>1. outcome'.output = "host" /\ outcome'.error = Unset
        BY <3>1, <3>2 DEF Returned
      <4> QED BY <3>1, <3>2, <4>1, ClientAssumption DEF RunInv, CommandOutcome
    <3>3. CASE reply # "output"
      <4>1. outcome'.output = Unset /\ outcome'.error \in {"null", "malformed", "host"}
        BY <3>1, <3>3 DEF Returned, Failed, Answers
      <4> QED BY <3>1, <3>3, <4>1, ClientAssumption DEF RunInv, CommandOutcome
    <3> QED BY <3>2, <3>3
  <2>5. ASSUME NEW field \in DOMAIN config, NEW value \in ValuesOf(field),
               Give(field, value)
        PROVE  RunInv'
    BY <2>5, GiveKeeps
  <2> QED BY <2>1, <2>2, <2>3, <2>4, <2>5 DEF ClientNext
<1>2. CASE \E field \in DOMAIN config : \E value \in ValuesOf(field) : Give(field, value)
  BY <1>2, GiveKeeps
<1> QED BY <1>1, <1>2 DEF ClientNext, Run, HostAnswers, clientVars

(* Whatever the options, their order and their number (WithExecTimeout,    *)
(* WithHTTPTimeout, WithMaxRedirects, WithRetries and the others): every   *)
(* setting is what its last valid option says or its default, and NewTrans-*)
(* port, NewResolver and the runner are handed that.                       *)
THEOREM OptionsCorrect == ClientSpec => []LastValidWins
<1>1. ConfigInv => LastValidWins
  <2> SUFFICES ASSUME ConfigInv, NEW field \in DOMAIN config
               PROVE
        LET valid == {i \in DOMAIN given : given[i].field = field /\ Valid(given[i])}
            last == IF valid = {} THEN Default(kind)[field]
                     ELSE given[CHOOSE i \in valid : \A j \in valid : j <= i].value
            adapter == Adapter(kind, config)
        IN  /\ config[field] = last
            /\ field \in DOMAIN adapter => adapter[field] = last
            /\ field = "timeout" => adapter[field] > 0
    BY DEF LastValidWins
  <2> DEFINE valid == {i \in DOMAIN given : given[i].field = field /\ Valid(given[i])}
             last == IF valid = {} THEN Default(kind)[field]
                      ELSE given[CHOOSE i \in valid : \A j \in valid : j <= i].value
             adapter == Adapter(kind, config)
  <2>1. config[field] = last
    <3>1. Meant(field)
      BY DEF ConfigInv
    <3>2. CASE /\ config[field] = Default(kind)[field]
               /\ \A i \in DOMAIN given : ~Names(given[i], field)
      BY <3>2 DEF Names
    <3>3. ASSUME NEW i \in DOMAIN given, Names(given[i], field),
                 config[field] = given[i].value,
                 \A j \in DOMAIN given : Names(given[j], field) => j <= i
          PROVE  config[field] = last
      <4>1. i \in valid /\ \A j \in valid : j <= i
        BY <3>3 DEF Names
      <4>2. valid \subseteq Int
        BY DEF ConfigInv
      <4>3. \A k \in valid : (\A j \in valid : j <= k) => k = i
        BY <4>1, <4>2
      <4>4. (CHOOSE k \in valid : \A j \in valid : j <= k) = i
        BY <4>1, <4>3
      <4> QED BY <3>3, <4>1, <4>4
    <3> QED BY <3>1, <3>2, <3>3 DEF Meant
  <2>2. \A f \in DOMAIN adapter : adapter[f] = config[f]
    BY DEF ConfigInv, Adapter
  <2>3. "timeout" \in DOMAIN adapter
    BY Defaults DEF ConfigInv, Adapter
  <2> HIDE DEF valid, last, adapter
  <2>4. /\ config[field] = last
        /\ field \in DOMAIN adapter => adapter[field] = last
        /\ field = "timeout" => adapter[field] > 0
    BY <2>1, <2>2, <2>3 DEF ConfigInv
  <2> QED BY <2>4 DEF valid, last, adapter
<1> QED BY ClientInitially, ClientInductive, <1>1, PTL DEF ClientSpec

(* Run (exec/exec.go) without an injected runner returns an output or an   *)
(* error, the host's only if the host gave it without telling of an error, *)
(* and with one does not call the host, for any options.                   *)
THEOREM CommandsCorrect == ClientSpec => []CommandOutcome
<1>1. RunInv => CommandOutcome
  BY DEF RunInv
<1> QED BY ClientInitially, ClientInductive, <1>1, PTL DEF ClientSpec

-----------------------------------------------------------------------------
(* Logging.                                                                *)

\* A message for the host, and a record of a plugin.
Message == [level : Levels, attrs : SUBSET {WireType(k) : k \in SlogKinds}]

Record == [handler : Nat, level : Levels, attrs : SUBSET SlogKinds, encodable : BOOLEAN]

\* The type an attribute is sent with means its kind.
LEMMA WireTypeMeans == \A k \in SlogKinds : k \in Means(WireType(k))
BY DEF SlogKinds, WireType, Means

\* A handler has the level its logger was configured with, and the messages so
\* far are the records that were to be told.
LogInv ==
  /\ handlers \in Seq([level : Levels])
  /\ meant \in Seq([level : Levels, attrs : SUBSET SlogKinds])
  /\ Len(handlers) >= 1 /\ Len(meant) = Len(handlers)
  /\ \A i \in DOMAIN handlers : handlers[i].level = meant[i].level
  /\ logged \in Seq(Record)
  /\ \A i \in DOMAIN logged : logged[i].handler \in DOMAIN handlers
  /\ hostLog \in Seq(Message) /\ console \in Seq(Levels)
  /\ ToldInOrder

\* The positions of one more.
Extends(more, of, n, m) == more[n + 1] = m /\ \A k \in 1..n : more[k] = of[k]

\* One more message, of a record after all those that were told.
LEMMA OneMore ==
  ASSUME NEW n \in Nat, NEW positions \in SUBSET Nat, NEW of \in Orders(n, positions),
         NEW m \in Nat, \A i \in positions : i < m
  PROVE  \E more \in Orders(n + 1, positions \cup {m}) : Extends(more, of, n, m)
<1> DEFINE more == [k \in 1..(n + 1) |-> IF k = n + 1 THEN m ELSE of[k]]
<1>1. /\ of \in [1..n -> positions]
      /\ \A i \in positions : \E k \in 1..n : of[k] = i
      /\ \A j, k \in 1..n : j < k => of[j] < of[k]
  BY DEF Orders
<1>2. /\ \A k \in 1..(n + 1) : k = n + 1 \/ k \in 1..n
      /\ n + 1 \in 1..(n + 1) /\ \A k \in 1..n : k \in 1..(n + 1) /\ k # n + 1 /\ k < n + 1
      /\ \A k \in 1..n : ~(n + 1 < k)
  OBVIOUS
<1>3. more \in [1..(n + 1) -> positions \cup {m}]
  BY <1>1, <1>2
<1>4. more[n + 1] = m /\ \A k \in 1..n : more[k] = of[k]
  BY <1>2
<1> HIDE DEF more
<1>5. \A i \in positions \cup {m} : \E k \in 1..(n + 1) : more[k] = i
  BY <1>1, <1>2, <1>4
<1>6. ASSUME NEW j \in 1..(n + 1), NEW k \in 1..(n + 1), j < k PROVE more[j] < more[k]
  <2>1. j \in 1..n
    BY <1>6
  <2>2. CASE k \in 1..n
    BY <1>1, <1>4, <1>6, <2>1, <2>2
  <2>3. CASE k = n + 1
    BY <1>1, <1>4, <2>1, <2>3
  <2> QED BY <1>2, <2>2, <2>3
<1> QED BY <1>3, <1>4, <1>5, <1>6 DEF Orders, Extends

\* The default handler told of the first record.
LEMMA LogInitially == LogInit => LogInv
<1> SUFFICES ASSUME LogInit PROVE LogInv
  OBVIOUS
<1>1. /\ handlers = <<[level |-> Info]>> /\ meant = <<[level |-> Info, attrs |-> {}]>>
      /\ logged = <<Greeting>> /\ hostLog = <<[level |-> Info, attrs |-> {}]>>
      /\ console = <<>> /\ Info \in Levels
  BY LogAssumption DEF LogInit
<1>2. /\ handlers \in Seq([level : Levels]) /\ Len(handlers) = 1 /\ Len(meant) = 1
      /\ meant \in Seq([level : Levels, attrs : SUBSET SlogKinds])
      /\ \A i \in DOMAIN handlers : handlers[i].level = meant[i].level
  BY <1>1
<1>3. logged \in Seq(Record) /\ \A i \in DOMAIN logged : logged[i].handler \in DOMAIN handlers
  BY <1>1 DEF Greeting, Record
<1>4. hostLog \in Seq(Message) /\ console \in Seq(Levels)
  BY <1>1 DEF Message
<1>5. Told(TRUE) = {1} /\ Told(FALSE) = {}
  <2>1. DOMAIN logged = {1} /\ logged[1] = Greeting /\ meant[1].level = Info
    BY <1>1
  <2>2. Passes(Greeting)
    BY <1>1, <2>1, LogAssumption DEF Passes, Greeting
  <2>3. ~Panics(Greeting) /\ Greeting.encodable
    BY DEF Panics, Greeting
  <2> QED BY <2>1, <2>2, <2>3 DEF Told
<1>6. ToldInOrder
  <2>1. \E of \in Orders(Len(hostLog), Told(TRUE)) :
          \A k \in DOMAIN hostLog : Tells(hostLog[k], logged[of[k]])
    <3> DEFINE of == [k \in 1..1 |-> 1]
    <3>1. of \in Orders(1, {1})
      BY DEF Orders
    <3>2. Len(hostLog) = 1 /\ DOMAIN hostLog = 1..1 /\ \A k \in 1..1 : k = 1 /\ of[k] = 1
      BY <1>1
    <3>3. Tells(hostLog[1], logged[1])
      BY <1>1 DEF Tells, Greeting
    <3> HIDE DEF of
    <3> QED BY <1>5, <3>1, <3>2, <3>3
  <2>2. \E of \in Orders(Len(console), Told(FALSE)) :
          \A k \in DOMAIN console : console[k] = logged[of[k]].level
    <3> DEFINE of == [k \in 1..0 |-> 1]
    <3>1. of \in Orders(0, {})
      BY DEF Orders
    <3>2. Len(console) = 0 /\ DOMAIN console = {}
      BY <1>1
    <3> HIDE DEF of
    <3> QED BY <1>5, <3>1, <3>2
  <2> QED BY <2>1, <2>2 DEF ToldInOrder
<1> QED BY <1>2, <1>3, <1>4, <1>6 DEF LogInv

\* Another handler, at a level: nothing of what was told changes.
LEMMA HandlerKeeps ==
  ASSUME LogInv, NEW handler \in [level : Levels],
         NEW was \in [level : Levels, attrs : SUBSET SlogKinds], was.level = handler.level,
         handlers' = Append(handlers, handler), meant' = Append(meant, was),
         UNCHANGED <<logged, hostLog, console>>
  PROVE  LogInv'
<1>1. /\ handlers' \in Seq([level : Levels]) /\ Len(handlers') >= 1
      /\ meant' \in Seq([level : Levels, attrs : SUBSET SlogKinds])
      /\ Len(meant') = Len(handlers')
  BY DEF LogInv
<1>2. \A i \in DOMAIN handlers :
        i \in DOMAIN handlers' /\ handlers'[i] = handlers[i] /\ meant'[i] = meant[i]
  BY DEF LogInv
<1>3. \A i \in DOMAIN handlers' : handlers'[i].level = meant'[i].level
  BY DEF LogInv
<1>4. \A i \in DOMAIN logged : Passes(logged[i])' <=> Passes(logged[i])
  BY <1>2 DEF LogInv, Passes
<1>5. Told(TRUE)' = Told(TRUE) /\ Told(FALSE)' = Told(FALSE)
  BY <1>4 DEF Told
<1>6. ToldInOrder'
  BY ZenonT(60), <1>5 DEF LogInv, ToldInOrder
<1> QED BY <1>1, <1>2, <1>3, <1>6 DEF LogInv

\* One more record: told, after all the others, or not.
LEMMA LogKeeps ==
  ASSUME LogInv, NEW record \in Records, Kinds \subseteq SlogKinds, Log(record)
  PROVE  LogInv'
<1> DEFINE n == Len(logged)
           tells == Passes(record) /\ ~Panics(record)
<1>1. /\ record \in Record /\ record.handler \in DOMAIN handlers /\ DOMAIN handlers \subseteq Nat
      /\ record.level \in Levels /\ record.encodable \in BOOLEAN /\ record.attrs \in SUBSET SlogKinds
  <2>1. /\ record.handler \in DOMAIN handlers /\ record.level \in Levels
        /\ record.encodable \in BOOLEAN /\ record.attrs \in {{}} \cup {{k} : k \in Kinds}
        /\ record = [handler |-> record.handler, level |-> record.level,
                     attrs |-> record.attrs, encodable |-> record.encodable]
    BY DEF Records
  <2>2. DOMAIN handlers \subseteq Nat
    BY DEF LogInv
  <2>3. record.attrs \in SUBSET SlogKinds
    BY <2>1
  <2> QED BY <2>1, <2>2, <2>3 DEF Record
<1>2. /\ logged' = Append(logged, record) /\ logged' \in Seq(Record) /\ n \in Nat
      /\ DOMAIN logged = 1..n /\ DOMAIN logged' = 1..(n + 1)
      /\ logged'[n + 1] = record /\ \A i \in 1..n : logged'[i] = logged[i]
      /\ UNCHANGED <<handlers, meant>>
  BY <1>1 DEF Log, LogInv
<1>3. Enabled(handlers[record.handler], record.level) <=> Passes(record)
  BY <1>1 DEF LogInv, Enabled, Passes
<1> HIDE DEF n
<1>4. \A r : Passes(r)' <=> Passes(r)
  BY <1>2 DEF Passes
<1>5. \A e \in BOOLEAN :
        /\ Told(e) \in SUBSET Nat /\ \A i \in Told(e) : i \in 1..n /\ i < n + 1
        /\ Told(e)' = IF tells /\ record.encodable = e THEN Told(e) \cup {n + 1} ELSE Told(e)
  <2> SUFFICES ASSUME NEW e \in BOOLEAN
               PROVE  /\ Told(e) \in SUBSET Nat /\ \A i \in Told(e) : i \in 1..n /\ i < n + 1
                      /\ Told(e)' = IF tells /\ record.encodable = e THEN Told(e) \cup {n + 1} ELSE Told(e)
    OBVIOUS
  <2> DEFINE Due(r) == Passes(r) /\ ~Panics(r) /\ r.encodable = e
  <2>1. Told(e) = {i \in 1..n : Due(logged[i])}
    BY <1>2 DEF Told
  <2>2. Told(e)' = {i \in 1..(n + 1) : Due(logged'[i])}
    BY <1>2, <1>4 DEF Told, Panics
  <2>3. \A i \in 1..(n + 1) : i = n + 1 \/ i \in 1..n
    BY <1>2
  <2>4. n + 1 \in 1..(n + 1) /\ \A i \in 1..n : i \in 1..(n + 1) /\ i \in Nat /\ i < n + 1
    BY <1>2
  <2>5. Due(record) <=> tells /\ record.encodable = e
    OBVIOUS
  <2> HIDE DEF Due, tells
  <2>6. Told(e)' = IF Due(record) THEN Told(e) \cup {n + 1} ELSE Told(e)
    BY <1>2, <2>1, <2>2, <2>3, <2>4
  <2> QED BY <2>1, <2>4, <2>5, <2>6
<1>6. /\ Told(TRUE) \in SUBSET Nat /\ \A i \in Told(TRUE) : i < n + 1
      /\ Told(FALSE) \in SUBSET Nat /\ \A i \in Told(FALSE) : i < n + 1
  <2>1. TRUE \in BOOLEAN /\ FALSE \in BOOLEAN
    OBVIOUS
  <2> QED BY <1>5, <2>1, Zenon
<1>7. \A i \in DOMAIN logged' : logged'[i].handler \in DOMAIN handlers'
  <2>1. \A i \in 1..(n + 1) : i = n + 1 \/ i \in 1..n
    BY <1>2
  <2> QED BY <1>1, <1>2, <2>1 DEF LogInv
<1>8. PICK toHost \in Orders(Len(hostLog), Told(TRUE)) :
        \A k \in DOMAIN hostLog : Tells(hostLog[k], logged[toHost[k]])
  BY DEF LogInv, ToldInOrder
<1>9. PICK toConsole \in Orders(Len(console), Told(FALSE)) :
        \A k \in DOMAIN console : console[k] = logged[toConsole[k]].level
  BY DEF LogInv, ToldInOrder
<1>10. /\ Len(hostLog) \in Nat /\ DOMAIN hostLog = 1..Len(hostLog)
       /\ Len(console) \in Nat /\ DOMAIN console = 1..Len(console)
  BY DEF LogInv
<1>11. /\ \A k \in DOMAIN hostLog : toHost[k] \in Told(TRUE)
       /\ \A k \in DOMAIN console : toConsole[k] \in Told(FALSE)
  BY <1>10 DEF Orders
<1>12. /\ \A k \in DOMAIN hostLog : Tells(hostLog[k], logged'[toHost[k]])
       /\ \A k \in DOMAIN console : console[k] = logged'[toConsole[k]].level
  <2>1. \A i \in Told(TRUE) \cup Told(FALSE) : logged'[i] = logged[i]
    BY <1>2, <1>5
  <2> QED BY <1>8, <1>9, <1>11, <2>1
<1> DEFINE message == [level |-> record.level, attrs |-> {WireType(k) : k \in record.attrs}]
<1>13. message \in Message /\ Tells(message, record)
  <2>1. message \in Message
    BY <1>1 DEF Message
  <2>2. \A k \in record.attrs : k \in Means(WireType(k))
    BY <1>1, WireTypeMeans
  <2> QED BY <2>1, <2>2 DEF Tells
<1> HIDE DEF message
<1>14. \/ ~tells /\ UNCHANGED <<hostLog, console>>
       \/ tells /\ record.encodable /\ hostLog' = Append(hostLog, message) /\ UNCHANGED console
       \/ tells /\ ~record.encodable /\ console' = Append(console, record.level) /\ UNCHANGED hostLog
  BY <1>3 DEF Log, Handle, message
<1>15. CASE ~tells /\ UNCHANGED <<hostLog, console>>
  <2>1. Told(TRUE)' = Told(TRUE) /\ Told(FALSE)' = Told(FALSE)
    BY <1>5, <1>15
  <2>2. ToldInOrder'
    BY <1>12, <1>15, <2>1 DEF ToldInOrder
  <2> QED BY <1>2, <1>7, <1>15, <2>2 DEF LogInv
<1>16. CASE tells /\ record.encodable /\ hostLog' = Append(hostLog, message) /\ UNCHANGED console
  <2>1. Told(TRUE)' = Told(TRUE) \cup {n + 1} /\ Told(FALSE)' = Told(FALSE)
    BY <1>5, <1>16
  <2>2. PICK of \in Orders(Len(hostLog) + 1, Told(TRUE) \cup {n + 1}) :
          Extends(of, toHost, Len(hostLog), n + 1)
    <3> DEFINE m == n + 1
    <3>1. Told(TRUE) \in SUBSET Nat /\ \A i \in Told(TRUE) : i < m
      BY <1>6, Zenon
    <3>0. m \in Nat
      BY <1>2
    <3> HIDE DEF m
    <3>2. \E of \in Orders(Len(hostLog) + 1, Told(TRUE) \cup {m}) :
            Extends(of, toHost, Len(hostLog), m)
      BY <1>10, <3>0, <3>1, OneMore
    <3> QED BY <3>2 DEF m
  <2>3. /\ Len(hostLog') = Len(hostLog) + 1 /\ DOMAIN hostLog' = 1..(Len(hostLog) + 1)
        /\ hostLog'[Len(hostLog) + 1] = message /\ hostLog' \in Seq(Message)
        /\ \A k \in 1..Len(hostLog) : hostLog'[k] = hostLog[k]
    BY <1>13, <1>16 DEF LogInv
  <2>4. \A k \in DOMAIN hostLog' : Tells(hostLog'[k], logged'[of[k]])
    <3>1. \A k \in 1..(Len(hostLog) + 1) : k = Len(hostLog) + 1 \/ k \in 1..Len(hostLog)
      BY <1>10
    <3> QED BY <1>2, <1>10, <1>12, <1>13, <2>2, <2>3, <3>1 DEF Extends
  <2>5. ToldInOrder'
    <3>1. of \in Orders(Len(hostLog'), Told(TRUE)')
      BY <2>1, <2>3
    <3>2. toConsole \in Orders(Len(console'), Told(FALSE)')
      BY <1>16, <2>1
    <3> QED BY <1>12, <1>16, <2>4, <3>1, <3>2 DEF ToldInOrder
  <2> QED BY <1>2, <1>7, <1>16, <2>3, <2>5 DEF LogInv
<1>17. CASE tells /\ ~record.encodable /\ console' = Append(console, record.level) /\ UNCHANGED hostLog
  <2>1. Told(FALSE)' = Told(FALSE) \cup {n + 1} /\ Told(TRUE)' = Told(TRUE)
    BY <1>1, <1>5, <1>17
  <2>2. PICK of \in Orders(Len(console) + 1, Told(FALSE) \cup {n + 1}) :
          Extends(of, toConsole, Len(console), n + 1)
    <3> DEFINE m == n + 1
    <3>1. Told(FALSE) \in SUBSET Nat /\ \A i \in Told(FALSE) : i < m
      BY <1>6, Zenon
    <3>0. m \in Nat
      BY <1>2
    <3> HIDE DEF m
    <3>2. \E of \in Orders(Len(console) + 1, Told(FALSE) \cup {m}) :
            Extends(of, toConsole, Len(console), m)
      BY <1>10, <3>0, <3>1, OneMore
    <3> QED BY <3>2 DEF m
  <2>3. /\ Len(console') = Len(console) + 1 /\ DOMAIN console' = 1..(Len(console) + 1)
        /\ console'[Len(console) + 1] = record.level /\ console' \in Seq(Levels)
        /\ \A k \in 1..Len(console) : console'[k] = console[k]
    BY <1>1, <1>17 DEF LogInv
  <2>4. \A k \in DOMAIN console' : console'[k] = logged'[of[k]].level
    <3>1. \A k \in 1..(Len(console) + 1) : k = Len(console) + 1 \/ k \in 1..Len(console)
      BY <1>10
    <3> QED BY <1>2, <1>10, <1>12, <2>2, <2>3, <3>1 DEF Extends
  <2>5. ToldInOrder'
    <3>1. of \in Orders(Len(console'), Told(FALSE)')
      BY <2>1, <2>3
    <3>2. toHost \in Orders(Len(hostLog'), Told(TRUE)')
      BY <1>17, <2>1
    <3> QED BY <1>12, <1>17, <2>4, <3>1, <3>2 DEF ToldInOrder
  <2> QED BY <1>2, <1>7, <1>17, <2>3, <2>5 DEF LogInv
<1> QED BY <1>14, <1>15, <1>16, <1>17

\* Every step keeps it.
LEMMA LogInductive == LogInv /\ [LogNext]_logVars => LogInv'
<1> SUFFICES ASSUME LogInv, [LogNext]_logVars PROVE LogInv'
  OBVIOUS
<1>1. ASSUME NEW level \in Levels, NewHandler(level) PROVE LogInv'
  <2>1. /\ [level |-> level] \in [level : Levels]
        /\ [level |-> level, attrs |-> {}] \in [level : Levels, attrs : SUBSET SlogKinds]
    OBVIOUS
  <2> QED BY <1>1, <2>1, HandlerKeeps DEF NewHandler
<1>2. ASSUME NEW i \in DOMAIN handlers, NEW k \in Kinds, WithAttrs(i, {k}) PROVE LogInv'
  <2> DEFINE was == [meant[i] EXCEPT !.attrs = @ \cup {k}]
  <2>1. /\ handlers[i] \in [level : Levels]
        /\ meant[i] \in [level : Levels, attrs : SUBSET SlogKinds]
        /\ handlers[i].level = meant[i].level
    <3>1. /\ handlers \in Seq([level : Levels])
          /\ meant \in Seq([level : Levels, attrs : SUBSET SlogKinds])
          /\ i \in DOMAIN meant
      BY DEF LogInv
    <3>2. \A S : \A s \in Seq(S) : \A j \in DOMAIN s : s[j] \in S
      OBVIOUS
    <3> QED BY <3>1, <3>2, Zenon DEF LogInv
  <2>2. k \in SlogKinds
    BY LogAssumption
  <2>3. was \in [level : Levels, attrs : SUBSET SlogKinds] /\ was.level = handlers[i].level
    BY <2>1, <2>2
  <2>4. handlers' = Append(handlers, handlers[i]) /\ meant' = Append(meant, was)
        /\ UNCHANGED <<logged, hostLog, console>>
    BY <1>2 DEF WithAttrs, Derived
  <2> HIDE DEF was
  <2> QED BY <2>1, <2>3, <2>4, HandlerKeeps
<1>3. ASSUME NEW record \in Records, Log(record) PROVE LogInv'
  BY <1>3, LogAssumption, LogKeeps
<1>4. CASE UNCHANGED logVars
  BY <1>4 DEF logVars, LogInv, ToldInOrder, Told, Passes
<1> QED BY <1>1, <1>2, <1>3, <1>4 DEF LogNext

(* However many handlers are derived from one another and whatever is      *)
(* logged through them: Handle tells of every record that reaches the level*)
(* of its handler's first ancestor and does not panic, once, in order and  *)
(* with each of its attributes under a type that means its kind, and of no *)
(* other.                                                                  *)
THEOREM LogsCorrect == LogSpec => []ToldInOrder
<1>1. LogInv => ToldInOrder
  BY DEF LogInv
<1> QED BY LogInitially, LogInductive, <1>1, PTL DEF LogSpec

-----------------------------------------------------------------------------
(* The parts together.                                                     *)

(* A run of all the parts is one of each of them: what is proved of a part *)
(* by itself is true of it there.                                          *)
THEOREM PartsRun ==
  Spec => ChainSpec /\ HandlerSpec /\ ClientSpec /\ LogSpec /\ RiskSpec
<1>1. Init => ChainInit /\ HandlerInit /\ ClientInit /\ LogInit /\ RiskInit
  BY DEF Init
<1>2. [Next]_<<part, chainVars, handlerVars, clientVars, logVars, riskVars>>
        => [ChainNext]_chainVars /\ [HandlerNext]_handlerVars /\ [ClientNext]_clientVars
             /\ [LogNext]_logVars /\ [RiskNext]_riskVars
  BY DEF Next
<1> QED BY <1>1, <1>2, PTL DEF Spec, ChainSpec, HandlerSpec, ClientSpec, LogSpec, RiskSpec

(* Every error detail, and every operation and what came of it, has its    *)
(* type (ToErrorDetail, wrapTypedMethod), however deep the error.          *)
THEOREM PluginSideTyped == Spec => []TypeOK
<1>1. ChainInv /\ HandlerInv => TypeOK
  BY ChainIsTyped DEF HandlerInv, TypeOK
<1> QED BY ChainInitially, ChainInductive, HandlerInitially, HandlerInductive, <1>1,
           PartsRun, PTL DEF ChainSpec, HandlerSpec
=============================================================================
