---- MODULE FactsProofs ----
(***************************************************************************)
(* What the operators of Facts return, for any script and any facts.       *)
(***************************************************************************)
EXTENDS Facts, SequenceTheorems, FiniteSetTheorems, TLAPS

LEMMA RangeOfAppend ==
    ASSUME NEW S, NEW seq \in Seq(S), NEW x
    PROVE  Range(Append(seq, x)) = Range(seq) \union {x}
<1>1. DOMAIN seq = 1..Len(seq) /\ Len(seq) \in Nat
  OBVIOUS
<1>2. DOMAIN Append(seq, x) = 1..(Len(seq) + 1)
  OBVIOUS
<1>3. \A i \in 1..Len(seq) : Append(seq, x)[i] = seq[i]
  OBVIOUS
<1>4. Append(seq, x)[Len(seq) + 1] = x
  OBVIOUS
<1>5. ASSUME NEW y \in Range(Append(seq, x)) PROVE y \in Range(seq) \union {x}
  BY <1>1, <1>2, <1>3, <1>4 DEF Range
<1>6. ASSUME NEW y \in Range(seq) PROVE y \in Range(Append(seq, x))
  BY <1>1, <1>2, <1>3 DEF Range
<1>7. x \in Range(Append(seq, x))
  BY <1>1, <1>2, <1>4 DEF Range
<1> QED
  BY <1>5, <1>6, <1>7

LEMMA RangeOfConcat ==
    ASSUME NEW S, NEW left \in Seq(S), NEW right \in Seq(S)
    PROVE  Range(left \o right) = Range(left) \union Range(right)
<1>1. /\ DOMAIN left = 1..Len(left) /\ Len(left) \in Nat
      /\ DOMAIN right = 1..Len(right) /\ Len(right) \in Nat
      /\ DOMAIN (left \o right) = 1..(Len(left) + Len(right))
  OBVIOUS
<1>2. \A i \in 1..(Len(left) + Len(right)) :
         (left \o right)[i] = IF i <= Len(left) THEN left[i] ELSE right[i - Len(left)]
  BY ConcatProperties
<1>3. ASSUME NEW y \in Range(left \o right) PROVE y \in Range(left) \union Range(right)
  BY <1>1, <1>2 DEF Range
<1>4. ASSUME NEW y \in Range(left) PROVE y \in Range(left \o right)
  BY <1>1, <1>2 DEF Range
<1>5. ASSUME NEW y \in Range(right) PROVE y \in Range(left \o right)
  <2>1. PICK j \in 1..Len(right) : right[j] = y
    BY <1>1 DEF Range
  <2>2. j + Len(left) \in DOMAIN (left \o right) /\ (left \o right)[j + Len(left)] = y
    BY <1>1, <1>2, <2>1
  <2> QED
    BY <2>2 DEF Range
<1> QED
  BY <1>3, <1>4, <1>5

(* A set of natural numbers with a bound has a greatest element, the one   *)
(* that Max chooses.                                                       *)
LEMMA MaxOfBounded ==
    ASSUME NEW n \in Nat, NEW S, S \subseteq 0..n, S # {}
    PROVE  Max(S) \in S /\ \A x \in S : x <= Max(S)
<1> DEFINE Bounds == {u \in 0..n : \A x \in S : x <= u}
           Below == {0..u : u \in Bounds}
           Less == StrictSubsetOrdering(0..n)
<1>1. n \in Bounds
  OBVIOUS
<1>2. IsWellFoundedOn(Less, SUBSET (0..n))
  <2>1. FiniteSubsetsOf(0..n) = SUBSET (0..n)
    <3>1. IsFiniteSet(0..n)
      BY FS_Interval
    <3> QED
      BY <3>1, FS_FiniteSubsetsOfFinite, Zenon
  <2>2. IsWellFoundedOn(Less, FiniteSubsetsOf(0..n))
    BY FS_StrictSubsetOrderingWellFounded, Zenon
  <2> QED
    BY <2>1, <2>2, Zenon
<1>3. Below \subseteq SUBSET (0..n) /\ Below # {}
  BY <1>1
<1>4. PICK least \in Below : \A y \in Below : ~(<<y, least>> \in Less)
  BY <1>2, <1>3, WFMin
<1>5. PICK u \in Bounds : least = 0..u
  OBVIOUS
<1>6. ASSUME u > 0 PROVE u - 1 \notin Bounds
  <2>1. 0..(u - 1) \in SUBSET (0..n) /\ least \in SUBSET (0..n)
    BY <1>5, <1>6
  <2>2. u \in 0..u /\ u \notin 0..(u - 1) /\ 0..(u - 1) \subseteq 0..u
    BY <1>6
  <2>3. <<0..(u - 1), least>> \in Less
    BY <1>5, <2>1, <2>2 DEF StrictSubsetOrdering
  <2> QED
    BY <1>4, <2>3
<1>7. u \in S
  <2>1. CASE u = 0
    <3>1. PICK x \in S : x <= 0
      BY <2>1
    <3> QED
      BY <2>1, <3>1
  <2>2. ASSUME u > 0, u \notin S PROVE FALSE
    <3>1. \A x \in S : x <= u - 1
      BY <2>2
    <3> QED
      BY <1>6, <2>2, <3>1
  <2> QED
    BY <2>1, <2>2
<1>8. \E m \in S : \A x \in S : m >= x
  BY <1>7
<1> QED
  BY <1>8 DEF Max
----
(* Translations. *)

LEMMA TranslationIsSeq ==
    ASSUME NEW facts \in Translations
    PROVE  facts \in Seq(Facts) /\ Len(facts) <= MaxFacts
<1>1. PICK n \in 0..MaxFacts : facts \in [1..n -> Facts]
  BY DEF Translations
<1>2. n \in Nat /\ n <= MaxFacts
  BY MaxFactsAssumption
<1>3. facts \in Seq(Facts)
  BY <1>1, <1>2
<1> QED
  BY <1>1, <1>2, <1>3

LEMMA RawIsRecordOrHook ==
    ASSUME NEW r \in Raw
    PROVE  \/ r \in Hooks
           \/ \E s \in Sessions : \E i \in 1..Len(Script[s]) : r = <<s, i>>
<1>1. \A s \in Sessions : DOMAIN Script[s] = 1..Len(Script[s])
  BY ScriptAssumption
<1> QED
  BY <1>1 DEF Raw, RecordsOf

LEMMA RecordIsNoHook ==
    ASSUME NEW s \in Sessions, NEW i \in Nat
    PROVE  <<s, i>> \notin Hooks
  BY HooksAssumption

LEMMA FactsOfIsTranslation ==
    ASSUME NEW r \in Raw
    PROVE  FactsOf(r) \in Translations
<1>1. CASE r \in Hooks
  BY <1>1, HookFactsAssumption DEF FactsOf
<1>2. ASSUME NEW s \in Sessions, NEW i \in 1..Len(Script[s]), r = <<s, i>>
      PROVE  FactsOf(r) \in Translations
  <2>1. Script[s] \in Seq(Translations)
    BY ScriptAssumption
  <2>2. Script[s][i] \in Translations
    BY <2>1
  <2>3. i \in Nat
    OBVIOUS
  <2> QED
    BY <1>2, <2>2, <2>3, RecordIsNoHook DEF FactsOf
<1> QED
  BY <1>1, <1>2, RawIsRecordOrHook

(* What an append does to the journal: it holds every fact of the          *)
(* translation, and it still holds no fact twice.                          *)
LEMMA FreshExtends ==
    ASSUME NEW journal \in Seq(Facts), NEW facts \in Translations, NEW new \in Translations,
           IsFresh(new, facts, journal)
    PROVE  /\ journal \o new \in Seq(Facts)
           /\ Range(journal \o new) = Range(journal) \union Range(facts)
           /\ facts = <<>> => new = <<>>
<1>1. new \in Seq(Facts) /\ facts \in Seq(Facts)
  BY TranslationIsSeq
<1>2. Range(journal \o new) = Range(journal) \union Range(new)
  BY <1>1, RangeOfConcat
<1>3. Range(new) = Range(facts) \ Range(journal)
  BY DEF IsFresh
<1>4. ASSUME facts = <<>> PROVE new = <<>>
  <2>1. Range(facts) = {}
    BY <1>4 DEF Range
  <2>2. Range(new) = {}
    BY <1>3, <2>1
  <2>3. Len(new) = 0
    <3>1. DOMAIN new = 1..Len(new) /\ Len(new) \in Nat
      BY <1>1
    <3>2. \A i \in 1..Len(new) : new[i] \in Range(new)
      BY <3>1 DEF Range
    <3>3. 1 \notin 1..Len(new)
      BY <2>2, <3>2
    <3> QED
      BY <3>1, <3>3
  <2> QED
    BY <1>1, <2>3
<1>5. journal \o new \in Seq(Facts)
  BY <1>1
<1> QED
  BY <1>2, <1>3, <1>4, <1>5

LEMMA FreshKeepsDistinct ==
    ASSUME NEW journal \in Seq(Facts), NEW facts \in Translations, NEW new \in Translations,
           IsFresh(new, facts, journal),
           \A i, j \in DOMAIN journal : journal[i] = journal[j] => i = j
    PROVE  /\ \A i, j \in DOMAIN (journal \o new) :
                (journal \o new)[i] = (journal \o new)[j] => i = j
           /\ \A i, j \in DOMAIN new : new[i] = new[j] => i = j
           /\ Range(new) \intersect Range(journal) = {}
<1>1. new \in Seq(Facts)
  BY TranslationIsSeq
<1>2. /\ DOMAIN journal = 1..Len(journal) /\ Len(journal) \in Nat
      /\ DOMAIN new = 1..Len(new) /\ Len(new) \in Nat
      /\ DOMAIN (journal \o new) = 1..(Len(journal) + Len(new))
  BY <1>1
<1>3. \A i \in 1..(Len(journal) + Len(new)) :
         (journal \o new)[i] = IF i <= Len(journal) THEN journal[i] ELSE new[i - Len(journal)]
  BY <1>1, ConcatProperties
<1>4. \A i \in 1..Len(journal), j \in 1..Len(new) : journal[i] # new[j]
  <2>1. Range(new) \intersect Range(journal) = {}
    BY DEF IsFresh
  <2>2. \A i \in 1..Len(journal) : journal[i] \in Range(journal)
    BY <1>2 DEF Range
  <2>3. \A j \in 1..Len(new) : new[j] \in Range(new)
    BY <1>2 DEF Range
  <2> QED
    BY <2>1, <2>2, <2>3
<1>5. \A i, j \in 1..Len(new) : new[i] = new[j] => i = j
  BY <1>2 DEF IsFresh
<1>6. ASSUME NEW i \in DOMAIN (journal \o new), NEW j \in DOMAIN (journal \o new),
             (journal \o new)[i] = (journal \o new)[j]
      PROVE  i = j
  <2>1. CASE i <= Len(journal) /\ j <= Len(journal)
    BY <1>2, <1>3, <1>6, <2>1
  <2>2. CASE i <= Len(journal) /\ j > Len(journal)
    BY <1>2, <1>3, <1>4, <1>6, <2>2
  <2>3. CASE i > Len(journal) /\ j <= Len(journal)
    BY <1>2, <1>3, <1>4, <1>6, <2>3
  <2>4. CASE i > Len(journal) /\ j > Len(journal)
    <3>1. i - Len(journal) \in 1..Len(new) /\ j - Len(journal) \in 1..Len(new)
      BY <1>2, <2>4
    <3>2. new[i - Len(journal)] = new[j - Len(journal)]
      BY <1>2, <1>3, <1>6, <2>4
    <3>3. i - Len(journal) = j - Len(journal)
      BY <1>5, <3>1, <3>2
    <3> QED
      BY <1>2, <3>3
  <2> QED
    BY <1>2, <2>1, <2>2, <2>3, <2>4
<1>7. Range(new) \intersect Range(journal) = {}
  BY DEF IsFresh
<1> QED
  BY <1>2, <1>5, <1>6, <1>7
----
(* Lifecycles. *)

LEMMA MaxIsUnique ==
    ASSUME NEW S, S \subseteq Int, NEW m \in S, \A x \in S : x <= m
    PROVE  Max(S) = m
<1>1. \A y \in S : (\A x \in S : y >= x) => y = m
  BY Z3
<1>2. \A x \in S : m >= x
  OBVIOUS
<1> QED
  BY <1>1, <1>2 DEF Max

(* The last lifecycle fact of two sequences is the last of the second, or  *)
(* of the first when the second has none.                                  *)
LEMMA LifecycleOfConcat ==
    ASSUME NEW left \in Seq(Facts), NEW right \in Seq(Facts), NEW s, NEW otherwise
    PROVE  LifecycleAfter(left \o right, s, otherwise)
             = LifecycleAfter(right, s, LifecycleAfter(left, s, otherwise))
<1> DEFINE both == left \o right
           n == Len(left)
<1>1. /\ DOMAIN left = 1..n /\ n \in Nat
      /\ DOMAIN right = 1..Len(right) /\ Len(right) \in Nat
      /\ DOMAIN both = 1..(n + Len(right))
  OBVIOUS
<1>2. \A i \in 1..(n + Len(right)) : both[i] = IF i <= n THEN left[i] ELSE right[i - n]
  BY ConcatProperties
<1>3. \A i \in 1..n : i \in LifecycleRows(both, s) <=> i \in LifecycleRows(left, s)
  BY <1>1, <1>2 DEF LifecycleRows
<1>4. \A i \in 1..Len(right) :
         /\ n + i \in LifecycleRows(both, s) <=> i \in LifecycleRows(right, s)
         /\ both[n + i] = right[i]
  <2> TAKE i \in 1..Len(right)
  <2>1. n + i \in DOMAIN both /\ both[n + i] = right[i]
    BY <1>1, <1>2
  <2> QED
    BY <1>1, <2>1 DEF LifecycleRows
<1>5. LifecycleRows(both, s) \subseteq 1..(n + Len(right)) /\ LifecycleRows(left, s) \subseteq 1..n
      /\ LifecycleRows(right, s) \subseteq 1..Len(right)
  BY <1>1 DEF LifecycleRows
<1> HIDE DEF both, n
<1>6. CASE LifecycleRows(right, s) = {}
  <2>1. ASSUME NEW i \in LifecycleRows(both, s) PROVE i \in 1..n
    <3>1. CASE i > n
      <4>1. i - n \in 1..Len(right) /\ n + (i - n) = i
        BY <1>1, <1>5, <2>1, <3>1
      <4> QED
        BY <1>4, <1>6, <4>1
    <3> QED
      BY <1>1, <1>5, <2>1, <3>1
  <2>2. LifecycleRows(both, s) = LifecycleRows(left, s)
    BY <1>3, <1>5, <2>1
  <2>3. ASSUME LifecycleRows(left, s) # {}
        PROVE  both[Max(LifecycleRows(left, s))] = left[Max(LifecycleRows(left, s))]
    <3>1. Max(LifecycleRows(left, s)) \in 1..n
      <4>1. LifecycleRows(left, s) \subseteq 0..n
        BY <1>1, <1>5
      <4> QED
        BY <1>1, <1>5, <2>3, <4>1, MaxOfBounded
    <3> QED
      BY <1>1, <1>2, <3>1
  <2> QED
    BY <1>6, <2>2, <2>3 DEF LifecycleAfter, both
<1>7. CASE LifecycleRows(right, s) # {}
  <2> DEFINE m == Max(LifecycleRows(right, s))
  <2>1. m \in LifecycleRows(right, s) /\ \A x \in LifecycleRows(right, s) : x <= m
    <3>1. LifecycleRows(right, s) \subseteq 0..Len(right)
      BY <1>1, <1>5
    <3> QED
      BY <1>1, <1>7, <3>1, MaxOfBounded
  <2>2. m \in 1..Len(right)
    BY <1>5, <2>1
  <2> HIDE DEF m
  <2>3. n + m \in LifecycleRows(both, s) /\ both[n + m] = right[m]
    BY <1>4, <2>1, <2>2
  <2>4. ASSUME NEW x \in LifecycleRows(both, s) PROVE x <= n + m
    <3>1. x \in 1..(n + Len(right))
      BY <1>5, <2>4
    <3>2. CASE x > n
      <4>1. x - n \in 1..Len(right) /\ n + (x - n) = x
        BY <1>1, <3>1, <3>2
      <4>2. x - n <= m
        BY <1>4, <2>1, <2>4, <4>1
      <4> QED
        BY <1>1, <2>2, <3>1, <4>2
    <3> QED
      BY <1>1, <2>2, <3>1, <3>2
  <2>5. Max(LifecycleRows(both, s)) = n + m
    <3>1. LifecycleRows(both, s) \subseteq Int
      BY <1>5
    <3> QED
      BY <2>3, <2>4, <3>1, MaxIsUnique
  <2> QED
    BY <1>7, <2>3, <2>5 DEF LifecycleAfter, both, m
<1> QED
  BY <1>6, <1>7
====
