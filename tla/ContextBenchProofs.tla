------------------------- MODULE ContextBenchProofs -------------------------
(***************************************************************************)
(* ContextBench for any batches, datasets, tolerance and largest number,   *)
(* on the arithmetic of a case and of a row, the batch and the study; and  *)
(* Checkout, which the generators of the studies begin with, for any       *)
(* registered files and any other ones.                                    *)
(***************************************************************************)
EXTENDS ContextBench, Checkout, SequenceTheorems, FiniteSetTheorems, WellFoundedInduction, TLAPS

-----------------------------------------------------------------------------
(* Positions and sums. *)

(* The least of a set of numbers, which is the first of it *)
LEMMA LeastExists ==
    ASSUME NEW S \in SUBSET Nat, S # {}
    PROVE  \E x \in S : \A y \in S : x <= y
<1> DEFINE R == OpToRel(<, Nat)
<1>1. IsWellFoundedOn(R, Nat)
  BY NatLessThanWellFounded
<1>2. \A x, y \in Nat : <<y, x>> \in R <=> y < x
  BY DEF OpToRel
<1> HIDE DEF R
<1>3. \E x \in S : \A y \in S : ~(<<y, x>> \in R)
  BY <1>1, WFMin
<1>4. PICK x \in S : \A y \in S : ~(<<y, x>> \in R)
  BY <1>3
<1>5. \A y \in S : x <= y
  <2> SUFFICES ASSUME NEW y \in S PROVE x <= y
    OBVIOUS
  <2>1. x \in Nat /\ y \in Nat /\ ~(y < x)
    BY <1>2, <1>4
  <2> QED BY <2>1
<1> QED BY <1>5

UpTo(S, i) == {j \in S : j <= i}

LEMMA InUpTo == ASSUME NEW S, NEW i, NEW j PROVE j \in UpTo(S, i) <=> j \in S /\ j <= i
BY DEF UpTo

LEMMA FirstIsLeast ==
    ASSUME NEW S \in SUBSET Nat, IsFiniteSet(S), S # {}
    PROVE  Nth(S, 1) \in S /\ \A j \in S : Nth(S, 1) <= j
<1> DEFINE i == Nth(S, 1)
<1>0. \A j \in S : j \in Nat
  OBVIOUS
<1>1. PICK x \in S : \A y \in S : x <= y
  BY LeastExists
<1>2. UpTo(S, x) = {x}
  <2>1. ASSUME NEW j \in S PROVE j <= x <=> j = x
    <3>1. j \in Nat /\ x \in Nat /\ x <= j
      BY <1>1
    <3> QED BY <3>1
  <2> QED BY <2>1, InUpTo, Zenon
<1>3. Cardinality(UpTo(S, x)) = 1
  BY <1>2, FS_Singleton
<1>4. i \in S /\ Cardinality(UpTo(S, i)) = 1
  BY <1>3 DEF Nth, UpTo
<1> HIDE DEF i
<1>5. IsFiniteSet(UpTo(S, i))
  <2>1. UpTo(S, i) \in SUBSET S
    BY DEF UpTo
  <2> QED BY <2>1, FS_Subset
<1>6. PICK z : UpTo(S, i) = {z}
  BY <1>4, <1>5, FS_Singleton
<1>7. \A j \in S : i <= j
  <2> SUFFICES ASSUME NEW j \in S, j < i PROVE FALSE
    BY <1>4
  <2>1. j \in UpTo(S, i) /\ i \in UpTo(S, i)
    BY <1>4 DEF UpTo
  <2> QED BY <1>4, <1>6, <2>1
<1> QED BY <1>4, <1>7 DEF i

LEMMA NthOfAll ==
    ASSUME NEW n \in Nat, NEW k \in 1 .. n
    PROVE  Nth(1 .. n, k) = k
<1>1. \A i \in 1 .. n : Cardinality(UpTo(1 .. n, i)) = i
  <2> SUFFICES ASSUME NEW i \in 1 .. n PROVE Cardinality(UpTo(1 .. n, i)) = i
    OBVIOUS
  <2>1. UpTo(1 .. n, i) = 1 .. i
    BY DEF UpTo
  <2>2. Cardinality(1 .. i) = IF 1 > i THEN 0 ELSE i - 1 + 1
    BY FS_Interval
  <2> QED BY <2>1, <2>2
<1>2. Nth(1 .. n, k) = CHOOSE i \in 1 .. n : Cardinality(UpTo(1 .. n, i)) = k
  BY DEF Nth, UpTo
<1>3. \A i \in 1 .. n : Cardinality(UpTo(1 .. n, i)) = k <=> i = k
  BY <1>1
<1> QED BY <1>2, <1>3

LEMMA NthIsMember ==
    ASSUME NEW n \in Nat, NEW S \in SUBSET (1 .. n), NEW k \in 1 .. Cardinality(S)
    PROVE  Nth(S, k) \in S
<1>0. \A j \in S : j \in Nat /\ 1 <= j /\ j <= n
  OBVIOUS
<1>1. IsFiniteSet(S)
  <2>1. IsFiniteSet(1 .. n)
    BY FS_Interval
  <2> QED BY <2>1, FS_Subset
<1>2. \A i : IsFiniteSet(UpTo(S, i)) /\ Cardinality(UpTo(S, i)) \in Nat
  <2> SUFFICES ASSUME NEW i PROVE IsFiniteSet(UpTo(S, i)) /\ Cardinality(UpTo(S, i)) \in Nat
    OBVIOUS
  <2>1. UpTo(S, i) \in SUBSET S
    BY DEF UpTo
  <2> QED BY <1>1, <2>1, FS_Subset, FS_CardinalityType
<1> DEFINE M == {i \in Nat : Cardinality(UpTo(S, i)) >= k}
<1>3. n \in M
  <2>1. UpTo(S, n) = S
    BY <1>0 DEF UpTo
  <2>2. Cardinality(S) \in Nat
    BY <1>1, FS_CardinalityType
  <2> QED BY <2>1, <2>2
<1>4. PICK i \in M : \A j \in M : i <= j
  <2>1. M # {} /\ M \in SUBSET Nat
    BY <1>3
  <2> HIDE DEF M
  <2> QED BY <2>1, LeastExists
<1>5. i # 0
  <2>1. UpTo(S, 0) = {}
    <3>1. ASSUME NEW j \in S PROVE ~(j <= 0)
      OBVIOUS
    <3> QED BY <3>1, InUpTo, Zenon
  <2>2. Cardinality(UpTo(S, 0)) = 0
    BY <2>1, FS_EmptySet
  <2> QED BY <2>2
<1>6. i - 1 \in Nat /\ Cardinality(UpTo(S, i - 1)) < k
  <2>1. i - 1 \in Nat /\ i - 1 \notin M
    BY <1>4, <1>5
  <2>2. Cardinality(UpTo(S, i - 1)) \in Nat
    BY <1>2
  <2> QED BY <2>1, <2>2
<1>7. i \in S
  <2> SUFFICES ASSUME i \notin S PROVE FALSE
    OBVIOUS
  <2>1. UpTo(S, i) = UpTo(S, i - 1)
    <3>1. ASSUME NEW j \in S PROVE j <= i <=> j <= i - 1
      <4>1. j # i /\ j \in Nat /\ i \in Nat
        BY <1>4
      <4> QED BY <4>1
    <3>2. \A j : j \in UpTo(S, i) <=> j \in UpTo(S, i - 1)
      BY <3>1, InUpTo
    <3> QED BY <3>2, Zenon
  <2>2. Cardinality(UpTo(S, i)) \in Nat
    BY <1>2
  <2> QED BY <1>6, <2>1, <2>2
<1>8. Cardinality(UpTo(S, i)) = k
  <2>0. UpTo(S, i) = UpTo(S, i - 1) \cup {i}
    <3>1. ASSUME NEW j \in S PROVE j <= i <=> j <= i - 1 \/ j = i
      BY <1>6
    <3>2. i <= i
      BY <1>6
    <3> QED BY <1>7, <3>1, <3>2, InUpTo, Zenon
  <2>1. i \notin UpTo(S, i - 1)
    BY <1>6 DEF UpTo
  <2>2. Cardinality(UpTo(S, i)) = Cardinality(UpTo(S, i - 1)) + 1
    BY <1>2, <2>0, <2>1, FS_AddElement
  <2>3. /\ Cardinality(UpTo(S, i)) >= k
        /\ Cardinality(UpTo(S, i)) \in Nat /\ Cardinality(UpTo(S, i - 1)) \in Nat
    BY <1>2, <1>4
  <2> QED BY <1>6, <2>2, <2>3
<1> QED BY <1>7, <1>8 DEF Nth, UpTo

-----------------------------------------------------------------------------
(* A set of subsets of a finite S that has the empty set and, with T, every *)
(* T that is one element larger, has all of them.                           *)
LEMMA SubsetsReached ==
    ASSUME NEW S, IsFiniteSet(S), NEW P, {} \in P,
           \A T \in SUBSET S : T # {} => \E x \in T : T \ {x} \in P => T \in P
    PROVE  SUBSET S \subseteq P
<1> SUFFICES ASSUME (SUBSET S) \ P # {} PROVE FALSE
  OBVIOUS
<1>1. IsWellFoundedOn(StrictSubsetOrdering(S), SUBSET S)
  <2>1. IsWellFoundedOn(StrictSubsetOrdering(S), FiniteSubsetsOf(S))
    BY FS_StrictSubsetOrderingWellFounded, Zenon
  <2>2. FiniteSubsetsOf(S) = SUBSET S
    BY FS_FiniteSubsetsOfFinite
  <2> QED BY <2>1, <2>2
<1>2. PICK T \in (SUBSET S) \ P : \A U \in (SUBSET S) \ P : ~(<<U, T>> \in StrictSubsetOrdering(S))
  BY <1>1, WFMin
<1>3. PICK x \in T : T \ {x} \in P => T \in P
  BY <1>2
<1>4. <<T \ {x}, T>> \in StrictSubsetOrdering(S)
  BY <1>2, <1>3 DEF StrictSubsetOrdering
<1>5. T \ {x} \in P
  BY <1>2, <1>3, <1>4
<1> QED BY <1>2, <1>3, <1>5

(* A finite family of disjoint finite sets: the sum of their sizes is the  *)
(* size of all of them together.                                           *)
Together(F, T) == UNION {F[x] : x \in T}

LEMMA TogetherAdds ==
    ASSUME NEW F, NEW S, IsFiniteSet(S), NEW x \in S, \A y \in S : IsFiniteSet(F[y]),
           \A y, z \in S : y # z => F[y] \cap F[z] = {}
    PROVE  Cardinality(Together(F, S)) = Cardinality(F[x]) + Cardinality(Together(F, S \ {x}))
<1> DEFINE U == Together(F, S \ {x})
           V == F[x]
<1>1. Together(F, S) = U \cup V /\ U \cap V = {}
  BY DEF Together
<1>2. IsFiniteSet(U)
  <2> DEFINE Image == {F[y] : y \in S \ {x}}
  <2>1. IsFiniteSet(S \ {x})
    BY FS_RemoveElement
  <2>2. IsFiniteSet(Image)
    <3> DEFINE g == [y \in S \ {x} |-> F[y]]
    <3>1. g \in Surjection(S \ {x}, Image)
      BY DEF Surjection
    <3> HIDE DEF g, Image
    <3> QED BY <2>1, <3>1, FS_Surjection
  <2>3. \A T \in Image : IsFiniteSet(T)
    OBVIOUS
  <2> HIDE DEF Image
  <2>4. IsFiniteSet(UNION Image)
    BY <2>2, <2>3, FS_UNION
  <2> QED BY <2>4 DEF Together, Image
<1>3. IsFiniteSet(V)
  OBVIOUS
<1> HIDE DEF U, V
<1>4. Cardinality(U \cup V) = Cardinality(U) + Cardinality(V) - Cardinality(U \cap V)
  BY <1>2, <1>3, FS_Union
<1>5. Cardinality(U \cap V) = 0
  BY <1>1, FS_EmptySet
<1>6. Cardinality(U) \in Nat /\ Cardinality(V) \in Nat
  BY <1>2, <1>3, FS_CardinalityType
<1>7. Cardinality(Together(F, S)) = Cardinality(V) + Cardinality(U)
  BY <1>1, <1>4, <1>5, <1>6
<1> QED BY <1>7 DEF U, V

LEMMA SumOfSizes ==
    ASSUME NEW F, NEW f, NEW S, IsFiniteSet(S),
           \A x \in S : IsFiniteSet(F[x]) /\ f[x] = Cardinality(F[x]),
           \A x, y \in S : x # y => F[x] \cap F[y] = {}
    PROVE  SumFunctionOnSet(f, S) = Cardinality(Together(F, S))
<1> DEFINE body(g, s) == IF s = {} THEN 0
                         ELSE f[CHOOSE x \in s : TRUE] + g[s \ {CHOOSE x \in s : TRUE}]
           iter == CHOOSE g : g = [s \in SUBSET S |-> body(g, s)]
           count == [s \in SUBSET S |-> Cardinality(Together(F, s))]
<1>1. SumFunctionOnSet(f, S) = iter[S]
  BY DEF SumFunctionOnSet, FoldFunctionOnSet, MapThenFoldSet
<1>2. ASSUME NEW s \in SUBSET S, s # {}
      PROVE  LET x == CHOOSE x \in s : TRUE
             IN  /\ x \in s
                 /\ Cardinality(Together(F, s)) = f[x] + Cardinality(Together(F, s \ {x}))
  <2> DEFINE x == CHOOSE y \in s : TRUE
  <2>1. x \in s
    BY <1>2
  <2> HIDE DEF x
  <2>2. IsFiniteSet(s) /\ f[x] = Cardinality(F[x])
    BY <2>1, FS_Subset
  <2>3. Cardinality(Together(F, s)) = Cardinality(F[x]) + Cardinality(Together(F, s \ {x}))
    BY <2>1, <2>2, TogetherAdds
  <2> QED BY <2>1, <2>2, <2>3 DEF x
<1>3. Cardinality(Together(F, {})) = 0
  <2>1. Together(F, {}) = {}
    BY DEF Together
  <2> QED BY <2>1, FS_EmptySet
<1>4. count = [s \in SUBSET S |-> body(count, s)]
  <2>1. ASSUME NEW s \in SUBSET S PROVE Cardinality(Together(F, s)) = body(count, s)
    <3>1. CASE s = {}
      BY <1>3, <3>1
    <3>2. CASE s # {}
      <4> DEFINE x == CHOOSE y \in s : TRUE
      <4>1. /\ x \in s
            /\ Cardinality(Together(F, s)) = f[x] + Cardinality(Together(F, s \ {x}))
        BY <1>2, <3>2
      <4>2. count[s \ {x}] = Cardinality(Together(F, s \ {x}))
        OBVIOUS
      <4> QED BY <3>2, <4>1, <4>2
    <3> QED BY <3>1, <3>2
  <2> QED BY <2>1
<1>5. iter = [s \in SUBSET S |-> body(iter, s)]
  <2> HIDE DEF count
  <2>1. \E g : g = [s \in SUBSET S |-> body(g, s)]
    BY <1>4
  <2> QED BY <2>1
<1> HIDE DEF iter
<1>6. \A s \in SUBSET S : iter[s] = body(iter, s)
  BY <1>5
<1> DEFINE P == {s \in SUBSET S : iter[s] = Cardinality(Together(F, s))}
<1>7. {} \in P
  BY <1>3, <1>6
<1>8. ASSUME NEW s \in SUBSET S, s # {}
      PROVE  \E x \in s : s \ {x} \in P => s \in P
  <2> DEFINE x == CHOOSE y \in s : TRUE
  <2>1. /\ x \in s
        /\ Cardinality(Together(F, s)) = f[x] + Cardinality(Together(F, s \ {x}))
    BY <1>2, <1>8
  <2>2. iter[s] = f[x] + iter[s \ {x}]
    BY <1>6, <1>8
  <2> HIDE DEF x
  <2> QED BY <2>1, <2>2
<1>9. SUBSET S \subseteq P
  <2> HIDE DEF P
  <2> QED BY <1>7, <1>8, SubsetsReached
<1> QED BY <1>1, <1>9

-----------------------------------------------------------------------------
(* One case: the checks against the contract, the metrics against their reference. *)

LEMMA HeaderGood ==
    ASSUME NEW c, c.tolerance \in Fraction
    PROVE  HeaderFindings(c) = {} <=>
             /\ c.schemaOk /\ c.caseIdOk /\ Finite(c.tolerance) /\ c.tolerance[1] >= 0
             /\ \A label \in Range(c.allowed) : label.words # <<>>
<1> DEFINE schemaOk == c.schemaOk
           caseIdOk == c.caseIdOk
           tolerant == Finite(c.tolerance) /\ ~(c.tolerance[1] < 0)
           blank == \E label \in Range(c.allowed) : label.words = <<>>
<1>1. HeaderFindings(c) = {} <=> schemaOk /\ caseIdOk /\ tolerant /\ ~blank
  <2> DEFINE a == When(~schemaOk, <<"EF000", 0>>)
             b == When(~caseIdOk, <<"EF003", 0>>)
             d == When(~Finite(c.tolerance) \/ c.tolerance[1] < 0, <<"EF004", 0>>)
             e == When(\E label \in Range(c.allowed) : IsBlank(label), <<"EF009", "allowed">>)
  <2>1. (a = {} <=> schemaOk) /\ (b = {} <=> caseIdOk) /\ (d = {} <=> tolerant) /\ (e = {} <=> ~blank)
    BY Zenon DEF When, IsBlank
  <2>2. HeaderFindings(c) = a \cup b \cup d \cup e
    BY DEF HeaderFindings
  <2> HIDE DEF a, b, d, e, schemaOk, caseIdOk, tolerant, blank
  <2>3. a \cup b \cup d \cup e = {} <=> a = {} /\ b = {} /\ d = {} /\ e = {}
    OBVIOUS
  <2> QED BY <2>1, <2>2, <2>3, Zenon
<1>2. ~(c.tolerance[1] < 0) <=> c.tolerance[1] >= 0
  BY DEF Fraction
<1> QED BY <1>1, <1>2, Zenon

LEMMA SetGood ==
    ASSUME NEW set, SetWellFormed(set), NEW role
    PROVE  SetFindings(role, set) = {} <=> set.kind = "ok"
<1>1. CASE set.kind = "ok"
  BY <1>1 DEF SetFindings
<1>2. CASE set.kind # "ok"
  <2>1. PICK code \in set.codes : TRUE
    BY <1>2 DEF SetWellFormed
  <2>2. <<code, role>> \in SetFindings(role, set)
    BY <1>2, <2>1 DEF SetFindings
  <2> QED BY <1>2, <2>2
<1> QED BY <1>1, <1>2

LEMMA GoldGood ==
    ASSUME NEW c, SetWellFormed(c.gold.set)
    PROVE  GoldFindings(c) = {} <=>
             c.gold.source.words # <<>> /\ c.gold.present /\ c.gold.set.kind = "ok"
<1> DEFINE present == c.gold.present
           a == When(IsBlank(c.gold.source), <<"EF009", "gold">>)
           b == When(~c.gold.present, <<"EF008", 0>>)
           d == SetFindings("gold", c.gold.set)
<1>1. (a = {} <=> c.gold.source.words # <<>>) /\ (b = {} <=> present)
  BY Zenon DEF When, IsBlank
<1>2. d = {} <=> c.gold.set.kind = "ok"
  BY SetGood
<1>3. GoldFindings(c) = a \cup b \cup d
  BY DEF GoldFindings
<1> HIDE DEF a, b, d, present
<1>4. a \cup b \cup d = {} <=> a = {} /\ b = {} /\ d = {}
  OBVIOUS
<1>5. GoldFindings(c) = {} <=> c.gold.source.words # <<>> /\ present /\ c.gold.set.kind = "ok"
  BY <1>1, <1>2, <1>3, <1>4, Zenon
<1> QED BY <1>5, Zenon DEF present

LEMMA SourceIsGood ==
    ASSUME NEW c, NEW source, c.gold.source.words # <<>>
    PROVE  SourceFindings(source, c) = {} <=> SourceGood(source, c)
<1> DEFINE blank == IsBlank(source)
           gold == LooksGold(source, c.gold.source)
           allowed == Trim(source) \in Range(c.allowed)
           a == When(blank, <<"EF009", "prediction">>)
           b == When(gold, <<"EF002", Trim(source)>>)
           d == When(Trim(source) \notin Range(c.allowed), <<"EF005", Trim(source)>>)
<1>1. (a = {} <=> ~blank) /\ (b = {} <=> ~gold) /\ (d = {} <=> allowed)
  BY Zenon DEF When
<1>2. SourceFindings(source, c) = a \cup b \cup d
  BY DEF SourceFindings
<1>3. a \cup b \cup d = {} <=> a = {} /\ b = {} /\ d = {}
  <2> HIDE DEF a, b, d
  <2> QED OBVIOUS
<1>4. ~blank /\ ~gold /\ allowed <=> SourceGood(source, c)
  <2> HIDE DEF allowed
  <2>1. SourceGood(source, c) <=>
          /\ source.words # <<>> /\ "gold" \notin Range(source.words)
          /\ ~StartsWith(source.words, c.gold.source.words) /\ allowed
    BY Zenon DEF SourceGood, allowed
  <2>2. ~blank <=> source.words # <<>>
    BY Zenon DEF IsBlank
  <2>3. gold <=> source.words # <<>> /\ ("gold" \in Range(source.words)
                                           \/ StartsWith(source.words, c.gold.source.words))
    BY Zenon DEF LooksGold, IsBlank
  <2> QED BY <2>1, <2>2, <2>3, Zenon
<1> HIDE DEF a, b, d, blank, gold, allowed
<1> QED BY <1>1, <1>2, <1>3, <1>4, Zenon

(* What a case must keep about the prediction and its label *)
PredictionGood(c) ==
    /\ c.prediction # None
    /\ c.prediction.present /\ c.prediction.set.kind = "ok"
    /\ SourceGood(c.prediction.source, c)
    /\ ReportedSource(c) # None =>
         SourceGood(ReportedSource(c), c) /\ Trim(ReportedSource(c)) = Trim(c.prediction.source)

LEMMA PredictionIsGood ==
    ASSUME NEW c, WellFormed(c), c.gold.source.words # <<>>
    PROVE  PredictionFindings(c) \cup ReportedSourceFindings(c) = {} <=> PredictionGood(c)
<1>1. CASE c.prediction = None
  <2>1. <<"EF001", "absent">> \in PredictionFindings(c)
    BY <1>1 DEF PredictionFindings
  <2> QED BY <1>1, <2>1 DEF PredictionGood
<1>2. CASE c.prediction # None
  <2> DEFINE present == c.prediction.present
             source == c.prediction.source
             other == ReportedSource(c) # None /\ Trim(ReportedSource(c)) # Trim(source)
             a == When(~present, <<"EF001", "materialized">>)
             b == SourceFindings(source, c)
             d == When(other, <<"EF006", 0>>)
             e == SetFindings("prediction", c.prediction.set)
             f == ReportedSourceFindings(c)
  <2>1. (a = {} <=> present) /\ (d = {} <=> ~other)
    BY Zenon DEF When
  <2>2. b = {} <=> SourceGood(source, c)
    BY SourceIsGood
  <2>3. e = {} <=> c.prediction.set.kind = "ok"
    BY <1>2, SetGood DEF WellFormed
  <2>4. f = {} <=> (ReportedSource(c) # None => SourceGood(ReportedSource(c), c))
    BY SourceIsGood, Zenon DEF ReportedSourceFindings
  <2>5. PredictionFindings(c) = a \cup b \cup d \cup e
    BY <1>2, Zenon DEF PredictionFindings
  <2>6. a \cup b \cup d \cup e \cup f = {} <=> a = {} /\ b = {} /\ d = {} /\ e = {} /\ f = {}
    <3> HIDE DEF a, b, d, e, f
    <3> QED OBVIOUS
  <2>7. PredictionGood(c) <=>
          /\ present /\ c.prediction.set.kind = "ok" /\ SourceGood(source, c) /\ ~other
          /\ ReportedSource(c) # None => SourceGood(ReportedSource(c), c)
    BY <1>2, Zenon DEF PredictionGood
  <2> HIDE DEF a, b, d, e, f, present, source, other
  <2> QED BY <2>1, <2>2, <2>3, <2>4, <2>5, <2>6, <2>7, Zenon DEF f
<1> QED BY <1>1, <1>2

LEMMA SizesAreNumbers ==
    ASSUME NEW c, WellFormed(c), BothNormalized(c)
    PROVE  /\ Cardinalities(c) \in [{"pred_size", "gold_size", "intersection"} -> Nat]
           /\ Cardinalities(c) = [pred_size |-> Cardinalities(c).pred_size,
                                  gold_size |-> Cardinalities(c).gold_size,
                                  intersection |-> Cardinalities(c).intersection]
           /\ Cardinalities(c).intersection <= Cardinalities(c).pred_size
           /\ Cardinalities(c).intersection <= Cardinalities(c).gold_size
<1> DEFINE P == c.prediction.set.lines
           G == c.gold.set.lines
<1>1. IsFiniteSet(P) /\ IsFiniteSet(G)
  BY DEF WellFormed, BothNormalized, SetWellFormed
<1>2. Cardinality(P) \in Nat /\ Cardinality(G) \in Nat
  BY <1>1, FS_CardinalityType
<1>3. /\ Cardinality(P \cap G) \in Nat
      /\ Cardinality(P \cap G) <= Cardinality(P) /\ Cardinality(P \cap G) <= Cardinality(G)
  <2>1. P \cap G \subseteq P /\ P \cap G \subseteq G
    OBVIOUS
  <2>2. IsFiniteSet(P \cap G) /\ Cardinality(P \cap G) <= Cardinality(P)
    BY <1>1, <2>1, FS_Subset
  <2>3. Cardinality(P \cap G) <= Cardinality(G)
    BY <1>1, <2>1, FS_Subset
  <2> QED BY <2>2, <2>3, FS_CardinalityType
<1>4. Cardinalities(c) = [pred_size |-> Cardinality(P), gold_size |-> Cardinality(G),
                          intersection |-> Cardinality(P \cap G)]
  BY DEF Cardinalities
<1> HIDE DEF P, G
<1> QED BY <1>2, <1>3, <1>4

LEMMA OverflowGood ==
    ASSUME NEW c, BothNormalized(c), WellFormed(c)
    PROVE  OverflowFindings(c) = {} <=> \A n \in Range(Cardinalities(c)) : n <= MaxU64
<1> DEFINE N == Cardinalities(c)
           T == {m \in DOMAIN N : N[m] > MaxU64}
<1>1. OverflowFindings(c) = {<<"EF012", n>> : n \in T}
  BY DEF OverflowFindings
<1>2. N \in [{"pred_size", "gold_size", "intersection"} -> Nat]
  BY SizesAreNumbers
<1> HIDE DEF N
<1>3. T = {} <=> \A n \in Range(N) : n <= MaxU64
  BY <1>2, MaxU64Assumption DEF Range
<1>4. {<<"EF012", n>> : n \in T} = {} <=> T = {}
  <2> HIDE DEF T
  <2>1. ASSUME NEW n \in T PROVE <<"EF012", n>> \in {<<"EF012", m>> : m \in T}
    OBVIOUS
  <2> QED BY <2>1, Zenon
<1> QED BY <1>1, <1>3, <1>4 DEF N

(* A common factor changes neither an order nor how far apart two numbers  *)
(* are in comparison.                                                      *)
LEMMA Scaled ==
    ASSUME NEW n \in Nat, n > 0, NEW a \in Int, NEW b \in Int
    PROVE  n * a <= n * b <=> a <= b
<1>1. ASSUME a <= b PROVE n * a <= n * b
  <2>1. b - a \in Nat
    BY <1>1
  <2>2. n * (b - a) \in Nat
    BY <2>1
  <2>3. n * (b - a) = n * b - n * a
    OBVIOUS
  <2> QED BY <2>2, <2>3
<1>2. ASSUME b < a PROVE n * b < n * a
  <2>1. a - b - 1 \in Nat
    BY <1>2
  <2>2. n * (a - b - 1) \in Nat
    BY <2>1
  <2>3. n * (a - b - 1) = n * a - n * b - n
    OBVIOUS
  <2>4. n * a \in Int /\ n * b \in Int
    OBVIOUS
  <2> QED BY <2>2, <2>3, <2>4
<1>3. n * a \in Int /\ n * b \in Int
  OBVIOUS
<1> QED BY <1>1, <1>2, <1>3

LEMMA AbsScaled ==
    ASSUME NEW n \in Nat, n > 0, NEW u \in Int, NEW v \in Int, NEW t \in Int
    PROVE  Abs(n * u) * t <= n * v <=> Abs(u) * t <= v
<1>1. Abs(n * u) = n * Abs(u) /\ Abs(u) \in Int
  <2>1. CASE u < 0
    <3>1. n * (-u) \in Nat /\ -u > 0
      BY <2>1
    <3>2. n * (-u) > 0
      BY <2>1
    <3>3. n * u < 0 /\ -(n * u) = n * (-u)
      BY <3>2
    <3> QED BY <2>1, <3>3 DEF Abs
  <2>2. CASE u >= 0
    <3>1. n * u >= 0
      BY <2>2
    <3> QED BY <2>2, <3>1 DEF Abs
  <2> QED BY <2>1, <2>2
<1> DEFINE w == Abs(u) * t
<1>2. w \in Int
  BY <1>1
<1>3. Abs(n * u) * t = n * w
  BY <1>1
<1> HIDE DEF w
<1>4. n * w <= n * v <=> w <= v
  BY <1>2, Scaled
<1> QED BY <1>3, <1>4 DEF w

LEMMA HarmonicIsF1 ==
    ASSUME NEW i \in Nat, NEW p \in Nat, NEW g \in Nat, p > 0, g > 0,
           NEW x \in Fraction, NEW t \in Fraction
    PROVE  LET k == F1(<<i, p>>, <<i, g>>)
           IN  /\ k \in Fraction
               /\ Abs(x[1] * k[2] - k[1] * x[2]) * t[2] <= t[1] * x[2] * k[2]
                    <=> Abs(x[1] * (p + g) - (2 * i) * x[2]) * t[2] <= t[1] * x[2] * (p + g)
               /\ k[1] * (p + g) = (2 * i) * k[2]
<1> DEFINE k == F1(<<i, p>>, <<i, g>>)
           s == p + g
           a == x[1]
           b == x[2]
           u == a * s - (2 * i) * b
           v == t[1] * b * s
           r == t[2]
<1>0. <<i, p>> # None /\ <<i, g>> # None
  BY NoneAssumption DEF Fraction
<1>1. a \in Int /\ b \in Int /\ t[1] \in Int /\ r \in Int /\ s \in Nat /\ s > 0
  BY DEF Fraction
<1>2. u \in Int /\ v \in Int
  BY <1>1
<1>3. ASSUME i > 0
      PROVE  /\ k \in Fraction /\ k[1] * s = (2 * i) * k[2]
             /\ Abs(a * k[2] - k[1] * b) * r <= t[1] * b * k[2] <=> Abs(u) * r <= v
  <2>1. k = <<2 * i * i, i * g + i * p>>
    BY <1>0, <1>3 DEF F1, Harmonic
  <2>2. k[2] = i * s /\ k[1] = i * (2 * i)
    BY <2>1
  <2>3. a * (i * s) - (i * (2 * i)) * b = i * u
    <3> HIDE DEF s, a, b
    <3> QED BY <1>1
  <2>4. t[1] * b * (i * s) = i * v
    <3> HIDE DEF s, a, b
    <3> QED BY <1>1
  <2> HIDE DEF u, v, r
  <2>5. Abs(i * u) * r <= i * v <=> Abs(u) * r <= v
    BY <1>1, <1>2, <1>3, AbsScaled
  <2>6. k[1] * s = (2 * i) * k[2]
    <3> HIDE DEF s, k
    <3> QED BY <1>1, <2>2
  <2>7. k \in Fraction
    BY <2>1 DEF Fraction
  <2>8. /\ a * k[2] - k[1] * b = i * u
        /\ t[1] * b * k[2] = i * v
    BY <2>2, <2>3, <2>4
  <2> HIDE DEF k
  <2>9. Abs(a * k[2] - k[1] * b) * r <= t[1] * b * k[2] <=> Abs(u) * r <= v
    BY <2>5, <2>8, Zenon
  <2> QED BY <2>6, <2>7, <2>9, Zenon
<1>4. ASSUME i = 0
      PROVE  /\ k \in Fraction /\ k[1] * s = (2 * i) * k[2]
             /\ Abs(a * k[2] - k[1] * b) * r <= t[1] * b * k[2] <=> Abs(u) * r <= v
  <2>1. k = <<0, 1>>
    BY <1>0, <1>4 DEF F1
  <2>2. u = s * a /\ v = s * (t[1] * b)
    <3> HIDE DEF s, a, b
    <3> QED BY <1>1, <1>4
  <2> DEFINE w == t[1] * b
  <2>3. w \in Int
    BY <1>1
  <2>4. /\ a * k[2] - k[1] * b = a
        /\ t[1] * b * k[2] = w
    <3> HIDE DEF a, b
    <3> QED BY <1>1, <2>1
  <2> HIDE DEF w
  <2>5. Abs(s * a) * r <= s * w <=> Abs(a) * r <= w
    <3> HIDE DEF a, r, s
    <3> QED BY <1>1, <2>3, AbsScaled
  <2>6. k[1] * s = (2 * i) * k[2] /\ k \in Fraction
    BY <1>1, <1>4, <2>1 DEF Fraction
  <2> HIDE DEF u, v, k
  <2>7. Abs(a * k[2] - k[1] * b) * r <= t[1] * b * k[2] <=> Abs(u) * r <= v
    BY <2>2, <2>4, <2>5, Zenon DEF w
  <2> QED BY <2>6, <2>7, Zenon
<1>5. /\ k \in Fraction /\ k[1] * s = (2 * i) * k[2]
      /\ Abs(a * k[2] - k[1] * b) * r <= t[1] * b * k[2] <=> Abs(u) * r <= v
  BY <1>1, <1>3, <1>4
<1> QED BY <1>5, Zenon DEF k, s, a, b, u, v, r

LEMMA CalculatedIs ==
    ASSUME NEW c, WellFormed(c), BothNormalized(c), OverflowFindings(c) = {}
    PROVE  LET n == Cardinalities(c)
               k == Calculated(c)
               p == ratio(n.intersection, n.pred_size)
               r == ratio(n.intersection, n.gold_size)
           IN  /\ k = [pred_size |-> n.pred_size, gold_size |-> n.gold_size,
                       intersection |-> n.intersection, precision |-> p, recall |-> r,
                       f1 |-> F1(p, r)]
               /\ k # None
               /\ \A m \in {"precision", "recall", "f1"} : k[m] \in {None} \cup Fraction
<1> DEFINE n == Cardinalities(c)
           k == Calculated(c)
           p == ratio(n.intersection, n.pred_size)
           r == ratio(n.intersection, n.gold_size)
           f == F1(p, r)
<1>1. k = [pred_size |-> n.pred_size, gold_size |-> n.gold_size, intersection |-> n.intersection,
           precision |-> p, recall |-> r, f1 |-> f]
  BY DEF Calculated
<1>2. n.pred_size \in Nat /\ n.gold_size \in Nat /\ n.intersection \in Nat
  <2>1. n \in [{"pred_size", "gold_size", "intersection"} -> Nat]
    BY SizesAreNumbers
  <2> HIDE DEF n
  <2> QED BY <2>1
<1> HIDE DEF n, k
<1>3. p \in {None} \cup Fraction /\ r \in {None} \cup Fraction
  BY <1>2 DEF ratio, Fraction
<1>4. f \in {None} \cup Fraction
  <2>1. CASE n.pred_size = 0 \/ n.gold_size = 0
    <3>1. p = None \/ r = None
      BY <2>1 DEF ratio
    <3> QED BY <3>1 DEF F1
  <2>2. CASE n.pred_size > 0 /\ n.gold_size > 0
    <3>1. p = <<n.intersection, n.pred_size>> /\ r = <<n.intersection, n.gold_size>>
      BY <2>2 DEF ratio
    <3>2. <<0, 1>> \in Fraction
      BY DEF Fraction
    <3>3. F1(<<n.intersection, n.pred_size>>, <<n.intersection, n.gold_size>>) \in Fraction
      BY <1>2, <2>2, <3>2, HarmonicIsF1
    <3> QED BY <3>1, <3>3
  <2> QED BY <1>2, <2>1, <2>2
<1> HIDE DEF p, r, f
<1>5. k # None
  BY <1>1, <1>2, <1>3, <1>4, NoneAssumption
<1>6. \A m \in {"precision", "recall", "f1"} : k[m] \in {None} \cup Fraction
  BY <1>1, <1>3, <1>4
<1> QED BY <1>1, <1>5, <1>6 DEF n, k, p, r, f

(* A supplied metric is found wrong exactly when it is not the one of the  *)
(* reference definition.                                                   *)
LEMMA MetricIsKept ==
    ASSUME NEW c, WellFormed(c), BothNormalized(c), OverflowFindings(c) = {},
           NEW m \in {"precision", "recall", "f1"}, NEW x \in {None} \cup Fraction
    PROVE  /\ Finite(c.tolerance) =>
                (MetricWrong(x, Calculated(c)[m], c.tolerance)
                   <=> ~MetricKept(x, Reference(c)[m], c.tolerance))
           /\ SameFraction(Calculated(c)[m], Reference(c)[m])
<1> DEFINE n == Cardinalities(c)
           i == n.intersection
           p == n.pred_size
           g == n.gold_size
           k == Calculated(c)[m]
           e == Reference(c)[m]
           t == c.tolerance
<1>1. i \in Nat /\ p \in Nat /\ g \in Nat
  <2>1. n \in [{"pred_size", "gold_size", "intersection"} -> Nat]
    BY SizesAreNumbers
  <2> HIDE DEF n
  <2> QED BY <2>1
<1>2. t \in Fraction /\ (Finite(t) => t # NaN)
  BY DEF WellFormed, Finite, NaN
<1>3. /\ m = "precision" => k = ratio(i, p) /\ e = IF p = 0 THEN None ELSE <<i, p>>
      /\ m = "recall" => k = ratio(i, g) /\ e = IF g = 0 THEN None ELSE <<i, g>>
      /\ m = "f1" => /\ k = F1(ratio(i, p), ratio(i, g))
                     /\ e = IF p = 0 \/ g = 0 THEN None ELSE <<2 * i, p + g>>
  <2>1. Calculated(c) = [pred_size |-> p, gold_size |-> g, intersection |-> i,
                         precision |-> ratio(i, p), recall |-> ratio(i, g),
                         f1 |-> F1(ratio(i, p), ratio(i, g))]
    BY CalculatedIs
  <2>2. Reference(c) = [precision |-> IF p = 0 THEN None ELSE <<i, p>>,
                        recall |-> IF g = 0 THEN None ELSE <<i, g>>,
                        f1 |-> IF p = 0 \/ g = 0 THEN None ELSE <<2 * i, p + g>>]
    BY DEF Reference
  <2> HIDE DEF n, i, p, g
  <2> QED BY <2>1, <2>2
<1> HIDE DEF n, i, p, g, k, e

(* Missing together, or equal, or f1 *)
<1>4. CASE k = None /\ e = None
  BY <1>4, Zenon DEF MetricWrong, MetricKept, SameFraction, k, e
<1>5. CASE k \in Fraction /\ e = k
  <2>1. Finite(t) => (MetricWrong(x, k, t) <=> ~MetricKept(x, k, t))
    <3>1. k # None
      BY <1>5, NoneAssumption
    <3> QED BY <1>2, <3>1, Zenon DEF MetricWrong, MetricKept, Close
  <2> QED BY <1>5, <2>1, Zenon DEF SameFraction, k, e, t
<1>6. CASE m = "f1" /\ p > 0 /\ g > 0
  <2>1. k = F1(<<i, p>>, <<i, g>>) /\ e = <<2 * i, p + g>>
    BY <1>3, <1>6 DEF ratio
  <2>2. e \in Fraction /\ e # None
    BY <1>1, <2>1, NoneAssumption DEF Fraction
  <2>3. k \in Fraction /\ k[1] * e[2] = e[1] * k[2]
    BY <1>1, <1>2, <1>6, <2>1, HarmonicIsF1
  <2>4. k # None
    BY <2>3, NoneAssumption
  <2>5. ASSUME x \in Fraction
        PROVE  Abs(x[1] * k[2] - k[1] * x[2]) * t[2] <= t[1] * x[2] * k[2]
                 <=> Abs(x[1] * e[2] - e[1] * x[2]) * t[2] <= t[1] * x[2] * e[2]
    BY <1>1, <1>2, <1>6, <2>1, <2>5, HarmonicIsF1
  <2>6. x # None => x \in Fraction
    OBVIOUS
  <2>7. Finite(t) => (MetricWrong(x, k, t) <=> ~MetricKept(x, e, t))
    BY <1>2, <2>2, <2>4, <2>5, <2>6, Zenon DEF MetricWrong, MetricKept, Close
  <2> QED BY <2>3, <2>4, <2>2, <2>7, Zenon DEF SameFraction, k, e, t
<1>7. \/ k = None /\ e = None
      \/ k \in Fraction /\ e = k
      \/ m = "f1" /\ p > 0 /\ g > 0
  <2>1. m = "precision" \/ m = "recall" \/ m = "f1"
    OBVIOUS
  <2>2. CASE m = "precision"
    BY <1>1, <1>3, <2>2 DEF ratio, Fraction
  <2>3. CASE m = "recall"
    BY <1>1, <1>3, <2>3 DEF ratio, Fraction
  <2>4. CASE m = "f1"
    BY <1>1, <1>3, <2>4 DEF ratio, F1
  <2> QED BY <2>1, <2>2, <2>3, <2>4
<1> QED BY <1>4, <1>5, <1>6, <1>7 DEF k, e, t

(* What a case must keep about the metrics it declares *)
ReportedGood(c) ==
    c.reported # None =>
      /\ \A n \in DOMAIN Cardinalities(c) : c.reported[n] \in {None, Cardinalities(c)[n]}
      /\ \A m \in DOMAIN Reference(c) :
           MetricKept(c.reported[m], Reference(c)[m], c.tolerance)

LEMMA CompareIsGood ==
    ASSUME NEW c, WellFormed(c), BothNormalized(c), OverflowFindings(c) = {}, Finite(c.tolerance)
    PROVE  CompareFindings(c) = {} <=> ReportedGood(c)
<1> DEFINE n == Cardinalities(c)
           k == Calculated(c)
           r == c.reported
           Count(m) == CountWrong(r[m], k[m])
           Metric(m) == MetricWrong(r[m], k[m], c.tolerance)
<1>1. CASE r = None
  BY <1>1, Zenon DEF CompareFindings, ReportedGood
<1>2. CASE r # None
  <2>1. k # None
    BY CalculatedIs
  <2> DEFINE a1 == When(Count("pred_size"), <<"EF101", 0>>)
             a2 == When(Count("gold_size"), <<"EF102", 0>>)
             a3 == When(Count("intersection"), <<"EF103", 0>>)
             a4 == When(Metric("precision"), <<"EF104", 0>>)
             a5 == When(Metric("recall"), <<"EF105", 0>>)
             a6 == When(Metric("f1"), <<"EF106", 0>>)
  <2>2. CompareFindings(c) = a1 \cup a2 \cup a3 \cup a4 \cup a5 \cup a6
    BY <1>2, <2>1 DEF CompareFindings
  <2>3. /\ a1 = {} <=> ~Count("pred_size")
        /\ a2 = {} <=> ~Count("gold_size")
        /\ a3 = {} <=> ~Count("intersection")
        /\ a4 = {} <=> ~Metric("precision")
        /\ a5 = {} <=> ~Metric("recall")
        /\ a6 = {} <=> ~Metric("f1")
    <3> HIDE DEF Count, Metric
    <3> QED BY Zenon DEF When
  <2>4. /\ DOMAIN n = {"pred_size", "gold_size", "intersection"}
        /\ \A m \in DOMAIN n : k[m] = n[m]
    <3>1. n = [pred_size |-> n.pred_size, gold_size |-> n.gold_size,
               intersection |-> n.intersection]
      BY SizesAreNumbers
    <3>2. k = [pred_size |-> n.pred_size, gold_size |-> n.gold_size,
               intersection |-> n.intersection, precision |-> k.precision,
               recall |-> k.recall, f1 |-> k.f1]
      BY CalculatedIs
    <3> HIDE DEF n, k
    <3> QED BY <3>1, <3>2
  <2>5. \A m \in {"pred_size", "gold_size", "intersection"} : ~Count(m) <=> r[m] \in {None, n[m]}
    BY <2>4, Zenon DEF CountWrong
  <2>6. DOMAIN Reference(c) = {"precision", "recall", "f1"}
    BY DEF Reference
  <2>7. \A m \in {"precision", "recall", "f1"} :
          ~Metric(m) <=> MetricKept(r[m], Reference(c)[m], c.tolerance)
    <3>1. r.precision \in {None} \cup Fraction /\ r.recall \in {None} \cup Fraction
            /\ r.f1 \in {None} \cup Fraction
      BY <1>2 DEF WellFormed
    <3> SUFFICES ASSUME NEW m \in {"precision", "recall", "f1"}
                 PROVE  ~Metric(m) <=> MetricKept(r[m], Reference(c)[m], c.tolerance)
      OBVIOUS
    <3>2. r[m] \in {None} \cup Fraction
      BY <3>1
    <3>3. Metric(m) <=> ~MetricKept(r[m], Reference(c)[m], c.tolerance)
      BY <3>2, MetricIsKept
    <3> QED BY <3>3, Zenon
  <2>8. ReportedGood(c) <=>
          /\ \A m \in DOMAIN n : r[m] \in {None, n[m]}
          /\ \A m \in DOMAIN Reference(c) : MetricKept(r[m], Reference(c)[m], c.tolerance)
    BY <1>2, Zenon DEF ReportedGood
  <2> HIDE DEF a1, a2, a3, a4, a5, a6, Count, Metric, n, k, r
  <2>9. CompareFindings(c) = {} <=>
          /\ a1 = {} /\ a2 = {} /\ a3 = {} /\ a4 = {} /\ a5 = {} /\ a6 = {}
    BY <2>2
  <2>10. CompareFindings(c) = {} <=>
           /\ \A m \in {"pred_size", "gold_size", "intersection"} : ~Count(m)
           /\ \A m \in {"precision", "recall", "f1"} : ~Metric(m)
    BY <2>3, <2>9, Zenon
  <2> QED BY <2>4, <2>5, <2>6, <2>7, <2>8, <2>10, Zenon
<1> QED BY <1>1, <1>2

(* A case passes exactly when it keeps its contract. *)
LEMMA PassIsContract ==
    ASSUME NEW c, WellFormed(c)
    PROVE  /\ AuditCase(c).passed <=> AuditCase(c).findings = {}
           /\ AuditCase(c).findings = {} <=> KeepsContract(c)
<1> DEFINE header == HeaderFindings(c)
           gold == GoldFindings(c)
           pred == PredictionFindings(c) \cup ReportedSourceFindings(c)
           over == OverflowFindings(c)
           comp == CompareFindings(c)
           r == AuditCase(c)
           Declared == c.reported # None =>
             /\ c.reported.source # None =>
                  SourceGood(c.reported.source, c)
                    /\ Trim(c.reported.source) = Trim(c.prediction.source)
             /\ \A n \in DOMAIN Cardinalities(c) : c.reported[n] \in {None, Cardinalities(c)[n]}
             /\ \A m \in DOMAIN Reference(c) :
                  MetricKept(c.reported[m], Reference(c)[m], c.tolerance)
<1>1. /\ r.findings = UNION {header, gold, PredictionFindings(c), ReportedSourceFindings(c), over, comp}
      /\ r.passed = (r.findings = {})
  BY DEF AuditCase
<1>2. r.passed <=> r.findings = {}
  BY <1>1
<1>3. r.findings = {} <=> header = {} /\ gold = {} /\ pred = {} /\ over = {} /\ comp = {}
  <2> HIDE DEF r, header, gold, over, comp
  <2> QED BY <1>1
<1> HIDE DEF r
<1>4. header = {} <=> /\ c.schemaOk /\ c.caseIdOk /\ Finite(c.tolerance) /\ c.tolerance[1] >= 0
                    /\ \A label \in Range(c.allowed) : label.words # <<>>
  BY HeaderGood DEF WellFormed
<1>5. gold = {} <=> c.gold.source.words # <<>> /\ c.gold.present /\ c.gold.set.kind = "ok"
  BY GoldGood DEF WellFormed
<1>6. gold = {} => (pred = {} <=> PredictionGood(c))
  BY <1>5, PredictionIsGood
<1>7. gold = {} /\ PredictionGood(c) => BothNormalized(c)
  BY <1>5, Zenon DEF PredictionGood, BothNormalized
<1>8. BothNormalized(c) => (over = {} <=> \A n \in Range(Cardinalities(c)) : n <= MaxU64)
  BY OverflowGood
<1>9. BothNormalized(c) /\ over = {} /\ header = {} => (comp = {} <=> ReportedGood(c))
  BY <1>4, CompareIsGood
<1>10. PredictionGood(c) /\ ReportedGood(c) <=>
         /\ c.prediction # None
         /\ c.prediction.present /\ c.prediction.set.kind = "ok"
         /\ SourceGood(c.prediction.source, c)
         /\ Declared
  BY Zenon DEF PredictionGood, ReportedGood, ReportedSource
<1>11. KeepsContract(c) <=>
         /\ c.schemaOk /\ c.caseIdOk /\ Finite(c.tolerance) /\ c.tolerance[1] >= 0
         /\ \A label \in Range(c.allowed) : label.words # <<>>
         /\ c.gold.source.words # <<>> /\ c.gold.present /\ c.gold.set.kind = "ok"
         /\ c.prediction # None
         /\ c.prediction.present /\ c.prediction.set.kind = "ok"
         /\ SourceGood(c.prediction.source, c)
         /\ \A n \in Range(Cardinalities(c)) : n <= MaxU64
         /\ Declared
  <2>1. (\A label \in Range(c.allowed) \cup {c.gold.source} : label.words # <<>>) <=>
          c.gold.source.words # <<>> /\ \A label \in Range(c.allowed) : label.words # <<>>
    BY Zenon
  <2> HIDE DEF Declared
  <2> QED BY <2>1, Zenon DEF KeepsContract, Declared
<1> HIDE DEF header, gold, pred, over, comp, Declared
<1>12. r.findings = {} <=> KeepsContract(c)
  BY <1>3, <1>4, <1>5, <1>6, <1>7, <1>8, <1>9, <1>10, <1>11, Zenon
<1> QED BY <1>2, <1>12, Zenon DEF r

(* The metrics of one case *)
ExactFor(c, k) ==
    IF c.prediction = None \/ c.gold.set.kind # "ok" THEN k = None
    ELSE IF c.prediction.set.kind # "ok" THEN k = None
    ELSE IF \E n \in Range(Cardinalities(c)) : n > MaxU64 THEN k = None
    ELSE \A m \in DOMAIN Reference(c) : SameFraction(k[m], Reference(c)[m])

LEMMA CalculatedIsExact == ASSUME NEW c, WellFormed(c) PROVE ExactFor(c, AuditCase(c).calculated)
<1> DEFINE k == Calculated(c)
           large == \E n \in Range(Cardinalities(c)) : n > MaxU64
<1>1. AuditCase(c).calculated = k
  BY DEF AuditCase
<1>2. CASE ~BothNormalized(c)
  <2>1. k = None
    BY <1>2 DEF Calculated
  <2> HIDE DEF k
  <2> QED BY <1>1, <1>2, <2>1, Zenon DEF BothNormalized, ExactFor
<1>3. CASE BothNormalized(c)
  <2>1. OverflowFindings(c) = {} <=> ~large
    <3>1. \A n \in Range(Cardinalities(c)) : n \in Nat
      <4>1. Cardinalities(c) \in [{"pred_size", "gold_size", "intersection"} -> Nat]
        BY <1>3, SizesAreNumbers
      <4> QED BY <4>1 DEF Range
    <3>2. \A n \in Nat : n <= MaxU64 <=> ~(n > MaxU64)
      BY MaxU64Assumption
    <3>3. OverflowFindings(c) = {} <=> \A n \in Range(Cardinalities(c)) : n <= MaxU64
      BY <1>3, OverflowGood
    <3> QED BY <3>1, <3>2, <3>3, Zenon
  <2>2. CASE large
    <3>1. k = None
      BY <2>1, <2>2 DEF Calculated
    <3> HIDE DEF k
    <3> QED BY <1>1, <2>2, <3>1, Zenon DEF ExactFor
  <2>3. CASE ~large
    <3>1. DOMAIN Reference(c) = {"precision", "recall", "f1"}
      BY DEF Reference
    <3>2. ASSUME NEW m \in {"precision", "recall", "f1"}
          PROVE  SameFraction(Calculated(c)[m], Reference(c)[m])
      BY <1>3, <2>1, <2>3, MetricIsKept
    <3>3. \A m \in DOMAIN Reference(c) : SameFraction(k[m], Reference(c)[m])
      BY <3>1, <3>2
    <3>4. c.prediction # None /\ c.gold.set.kind = "ok" /\ c.prediction.set.kind = "ok"
      BY <1>3, Zenon DEF BothNormalized
    <3> HIDE DEF k, large
    <3>5. ExactFor(c, k)
      BY <2>3, <3>3, <3>4, Zenon DEF ExactFor, large
    <3> QED BY <1>1, <3>5
  <2> QED BY <2>2, <2>3
<1> QED BY <1>2, <1>3

LEMMA SourceFindingsFinite == ASSUME NEW source, NEW c PROVE IsFiniteSet(SourceFindings(source, c))
<1>1. \A e : IsFiniteSet({e}) /\ IsFiniteSet({})
  BY FS_Singleton, FS_EmptySet
<1> DEFINE a == When(IsBlank(source), <<"EF009", "prediction">>)
           b == When(LooksGold(source, c.gold.source), <<"EF002", Trim(source)>>)
           d == When(Trim(source) \notin Range(c.allowed), <<"EF005", Trim(source)>>)
<1>2. IsFiniteSet(a) /\ IsFiniteSet(b) /\ IsFiniteSet(d)
  BY <1>1, Zenon DEF When
<1>3. SourceFindings(source, c) = (a \cup b) \cup d
  BY DEF SourceFindings
<1> HIDE DEF a, b, d
<1>4. IsFiniteSet(a \cup b)
  BY <1>2, FS_Union
<1>5. IsFiniteSet((a \cup b) \cup d)
  BY <1>2, <1>4, FS_Union
<1> QED BY <1>3, <1>5

LEMMA SetFindingsFinite ==
    ASSUME NEW set, SetWellFormed(set), NEW role
    PROVE  IsFiniteSet(SetFindings(role, set))
<1>1. CASE set.kind = "ok"
  BY <1>1, FS_EmptySet DEF SetFindings
<1>2. CASE set.kind # "ok"
  <2> DEFINE f == [code \in set.codes |-> <<code, role>>]
             T == {<<code, role>> : code \in set.codes}
  <2>1. IsFiniteSet(set.codes)
    BY <1>2 DEF SetWellFormed
  <2>2. f \in Surjection(set.codes, T)
    BY DEF Surjection
  <2> HIDE DEF f
  <2>3. IsFiniteSet(T)
    <3> HIDE DEF T
    <3> QED BY <2>1, <2>2, FS_Surjection
  <2> QED BY <1>2, <2>3 DEF SetFindings
<1> QED BY <1>1, <1>2

(* No case has infinitely many findings. *)
LEMMA FindingsFinite == ASSUME NEW c, WellFormed(c) PROVE IsFiniteSet(AuditCase(c).findings)
<1> DEFINE S == {HeaderFindings(c), GoldFindings(c), PredictionFindings(c),
                 ReportedSourceFindings(c), OverflowFindings(c), CompareFindings(c)}
<1>0. \A P, e : IsFiniteSet(When(P, e))
  BY FS_Singleton, FS_EmptySet, Zenon DEF When
<1>1. \A A, B : IsFiniteSet(A) /\ IsFiniteSet(B) => IsFiniteSet(A \cup B)
  BY FS_Union
<1>2. IsFiniteSet(HeaderFindings(c))
  BY <1>0, <1>1, Zenon DEF HeaderFindings
<1>3. IsFiniteSet(GoldFindings(c))
  BY <1>0, <1>1, SetFindingsFinite, Zenon DEF GoldFindings, WellFormed
<1>4. IsFiniteSet(PredictionFindings(c))
  <2>1. CASE c.prediction = None
    BY <1>0, <1>1, <2>1, FS_Singleton, Zenon DEF PredictionFindings
  <2>2. CASE c.prediction # None
    <3>1. IsFiniteSet(SetFindings("prediction", c.prediction.set))
      BY <2>2, SetFindingsFinite DEF WellFormed
    <3> QED BY <1>0, <1>1, <2>2, <3>1, SourceFindingsFinite, Zenon DEF PredictionFindings
  <2> QED BY <2>1, <2>2
<1>5. IsFiniteSet(ReportedSourceFindings(c))
  BY SourceFindingsFinite, FS_EmptySet, Zenon DEF ReportedSourceFindings
<1>6. IsFiniteSet(OverflowFindings(c))
  <2>1. CASE ~BothNormalized(c)
    BY <2>1, FS_EmptySet DEF OverflowFindings
  <2>2. CASE BothNormalized(c)
    <3> DEFINE N == Cardinalities(c)
               T == {m \in DOMAIN N : N[m] > MaxU64}
               f == [n \in T |-> <<"EF012", n>>]
               U == {<<"EF012", n>> : n \in T}
    <3>1. OverflowFindings(c) = U
      BY <2>2 DEF OverflowFindings
    <3>2. T \in SUBSET {"pred_size", "gold_size", "intersection"}
      BY DEF Cardinalities
    <3>3. IsFiniteSet({"pred_size", "gold_size", "intersection"})
      <4>1. IsFiniteSet({"gold_size"} \cup {"intersection"})
        BY <1>1, FS_Singleton
      <4>2. IsFiniteSet({"pred_size"} \cup ({"gold_size"} \cup {"intersection"}))
        BY <1>1, <4>1, FS_Singleton
      <4>3. {"pred_size"} \cup ({"gold_size"} \cup {"intersection"})
              = {"pred_size", "gold_size", "intersection"}
        OBVIOUS
      <4> QED BY <4>2, <4>3
    <3>4. IsFiniteSet(T)
      BY <3>2, <3>3, FS_Subset
    <3>5. f \in Surjection(T, U)
      <4> HIDE DEF T
      <4> QED BY DEF Surjection
    <3> HIDE DEF f, T, U
    <3> QED BY <3>1, <3>4, <3>5, FS_Surjection
  <2> QED BY <2>1, <2>2
<1>7. IsFiniteSet(CompareFindings(c))
  <2>1. CASE c.reported = None \/ Calculated(c) = None
    BY <2>1, FS_EmptySet DEF CompareFindings
  <2>2. CASE ~(c.reported = None \/ Calculated(c) = None)
    BY <1>0, <1>1, <2>2, Zenon DEF CompareFindings
  <2> QED BY <2>1, <2>2
<1>8. AuditCase(c).findings =
        (HeaderFindings(c) \cup (GoldFindings(c) \cup PredictionFindings(c)))
          \cup (ReportedSourceFindings(c) \cup (OverflowFindings(c) \cup CompareFindings(c)))
  BY DEF AuditCase
<1>9. IsFiniteSet(HeaderFindings(c) \cup (GoldFindings(c) \cup PredictionFindings(c)))
  BY <1>1, <1>2, <1>3, <1>4, Zenon
<1>10. IsFiniteSet(ReportedSourceFindings(c) \cup (OverflowFindings(c) \cup CompareFindings(c)))
  BY <1>1, <1>5, <1>6, <1>7, Zenon
<1> QED BY <1>1, <1>8, <1>9, <1>10

-----------------------------------------------------------------------------
(* The batch. *)

(* What audit_batch makes of the reports it has *)
Totals == [total    |-> Len(cases),
           passed   |-> PassedCount,
           failed   |-> Len(cases) - PassedCount,
           counts   |-> [code \in AllCodes |-> CountOf(code)],
           examples |-> Examples(max)]

(* The reports are those of the first cases in their order, and a batch is *)
(* aggregated from the reports of all of them.                             *)
BatchInv ==
    /\ max \in Nat
    /\ cases \in Seq(Range(cases)) /\ \A c \in Range(cases) : WellFormed(c)
    /\ reports \in Seq(Range(reports)) /\ Len(reports) <= Len(cases)
    /\ \A i \in 1 .. Len(reports) : reports[i] = AuditCase(cases[i])
    /\ batch # None => Len(reports) = Len(cases) /\ batch = Totals

Unaudited == /\ max \in Nat
             /\ cases \in Seq(Range(cases)) /\ \A c \in Range(cases) : WellFormed(c)
             /\ reports = <<>> /\ batch = None

LEMMA NothingAudited == Unaudited => BatchInv
<1> SUFFICES ASSUME Unaudited PROVE BatchInv
  OBVIOUS
<1>1. reports \in Seq(Range(reports)) /\ Len(reports) = 0
  BY DEF Unaudited
<1>2. Len(cases) \in Nat
  BY DEF Unaudited
<1> QED BY <1>1, <1>2 DEF BatchInv, Unaudited

LEMMA InitBatchInv == Init => BatchInv
<1> SUFFICES ASSUME Init PROVE BatchInv
  OBVIOUS
<1>1. max \in Nat /\ reports = <<>> /\ batch = None
  BY MaxExamplesAssumption DEF Init
<1>2. cases \in Seq(Range(cases)) /\ \A c \in Range(cases) : WellFormed(c)
  BY BatchesAssumption DEF Init
<1> QED BY <1>1, <1>2, NothingAudited DEF Unaudited

LEMMA AuditNextBatchInv == ASSUME BatchInv, AuditNext PROVE BatchInv'
<1> DEFINE n == Len(reports)
           r == AuditCase(cases[n + 1])
<1>1. n \in Nat /\ n < Len(cases) /\ reports' = Append(reports, r)
  BY DEF BatchInv, AuditNext
<1>2. cases' = cases /\ max' = max /\ batch' = batch
  BY DEF AuditNext
<1>3. batch = None
  BY <1>1 DEF BatchInv
<1>4. reports \in Seq(Range(reports) \cup {r})
  <2>1. Range(reports) \subseteq Range(reports) \cup {r}
    OBVIOUS
  <2>2. reports \in Seq(Range(reports))
    BY DEF BatchInv
  <2> QED BY <2>1, <2>2
<1> HIDE DEF r
<1>5. /\ reports' \in Seq(Range(reports) \cup {r}) /\ Len(reports') = n + 1
      /\ \A i \in 1 .. n : reports'[i] = reports[i]
      /\ reports'[n + 1] = r
  BY <1>1, <1>4
<1>6. reports' \in Seq(Range(reports'))
  <2>1. DOMAIN reports' = 1 .. Len(reports') /\ Len(reports') \in Nat
    BY <1>5
  <2>2. \A i \in 1 .. Len(reports') : reports'[i] \in Range(reports')
    BY <2>1 DEF Range
  <2>3. reports' = [i \in 1 .. Len(reports') |-> reports'[i]]
    BY <1>5
  <2> QED BY <2>1, <2>2, <2>3
<1>7. \A i \in 1 .. n + 1 : reports'[i] = AuditCase(cases[i])
  <2> SUFFICES ASSUME NEW i \in 1 .. n + 1 PROVE reports'[i] = AuditCase(cases[i])
    OBVIOUS
  <2>1. CASE i = n + 1
    BY <1>5, <2>1 DEF r
  <2>2. CASE i \in 1 .. n
    BY <1>5, <2>2 DEF BatchInv
  <2> QED BY <1>1, <2>1, <2>2
<1>8. n + 1 <= Len(cases)
  BY <1>1 DEF BatchInv
<1> QED BY <1>2, <1>3, <1>5, <1>6, <1>7, <1>8 DEF BatchInv

LEMMA AggregateBatchInv == ASSUME BatchInv, Aggregate PROVE BatchInv'
<1>1. /\ cases' = cases /\ max' = max /\ reports' = reports
      /\ batch' = Totals /\ Len(reports) = Len(cases)
  BY DEF Aggregate, Totals
<1>2. Totals' = Totals
  BY <1>1 DEF Totals, PassedCount, AllCodes, AllFindings, CountOf, Examples, Failing
<1> QED BY <1>1, <1>2 DEF BatchInv

LEMMA SameBatchInv == ASSUME BatchInv, UNCHANGED vars PROVE BatchInv'
<1>1. cases' = cases /\ max' = max /\ reports' = reports /\ batch' = batch
  BY DEF vars
<1>2. Totals' = Totals
  BY <1>1 DEF Totals, PassedCount, AllCodes, AllFindings, CountOf, Examples, Failing
<1> QED BY <1>1, <1>2 DEF BatchInv

LEMMA NextBatchInv == BatchInv /\ [Next]_vars => BatchInv'
<1> SUFFICES ASSUME BatchInv, [Next]_vars PROVE BatchInv'
  OBVIOUS
<1>1. AuditNext \/ Aggregate \/ UNCHANGED vars
  BY DEF Next, Done
<1> QED BY <1>1, AuditNextBatchInv, AggregateBatchInv, SameBatchInv

LEMMA AuditedCases ==
    ASSUME BatchInv, NEW i \in DOMAIN reports
    PROVE  i \in DOMAIN cases /\ reports[i] = AuditCase(cases[i]) /\ WellFormed(cases[i])
<1>1. i \in 1 .. Len(reports) /\ Len(reports) \in Nat /\ Len(cases) \in Nat
        /\ Len(reports) <= Len(cases)
  BY DEF BatchInv
<1>2. DOMAIN cases = 1 .. Len(cases)
  BY DEF BatchInv
<1>3. i \in DOMAIN cases
  BY <1>1, <1>2
<1>4. cases[i] \in Range(cases)
  BY <1>3 DEF Range
<1> QED BY <1>1, <1>3, <1>4 DEF BatchInv

LEMMA BatchPasses == ASSUME BatchInv PROVE PassMeansContract
<1> SUFFICES ASSUME NEW i \in DOMAIN reports PROVE reports[i].passed <=> KeepsContract(cases[i])
  BY DEF PassMeansContract
<1>1. reports[i] = AuditCase(cases[i]) /\ WellFormed(cases[i])
  BY AuditedCases
<1>2. AuditCase(cases[i]).passed <=> KeepsContract(cases[i])
  BY <1>1, PassIsContract, Zenon
<1> QED BY <1>1, <1>2, Zenon

LEMMA BatchMetrics == ASSUME BatchInv PROVE MetricsExact
<1>1. ASSUME NEW i \in DOMAIN reports PROVE ExactFor(cases[i], reports[i].calculated)
  BY AuditedCases, CalculatedIsExact
<1> QED BY <1>1 DEF MetricsExact, ExactFor

LEMMA FindingsAreFinite ==
    ASSUME BatchInv
    PROVE  /\ \A i \in DOMAIN reports : IsFiniteSet(reports[i].findings)
           /\ IsFiniteSet(DOMAIN reports)
           /\ IsFiniteSet(AllFindings) /\ IsFiniteSet(AllCodes)
<1> DEFINE D == DOMAIN reports
           Image == {{i} \X reports[i].findings : i \in D}
           g == [i \in D |-> {i} \X reports[i].findings]
           h == [f \in AllFindings |-> f[2][1]]
<1>1. \A i \in D : IsFiniteSet(reports[i].findings)
  BY AuditedCases, FindingsFinite
<1>2. IsFiniteSet(D)
  <2>1. D = 1 .. Len(reports) /\ Len(reports) \in Nat
    BY DEF BatchInv
  <2> QED BY <2>1, FS_Interval
<1>3. \A T \in Image : IsFiniteSet(T)
  <2> SUFFICES ASSUME NEW i \in D PROVE IsFiniteSet({i} \X reports[i].findings)
    OBVIOUS
  <2> QED BY <1>1, FS_Singleton, FS_Product
<1>4. IsFiniteSet(Image)
  <2>1. g \in Surjection(D, Image)
    <3> HIDE DEF D
    <3> QED BY DEF Surjection
  <2> HIDE DEF D, g, Image
  <2> QED BY <1>2, <2>1, FS_Surjection
<1>5. IsFiniteSet(AllFindings)
  <2>1. AllFindings = UNION Image
    BY DEF AllFindings
  <2> HIDE DEF Image
  <2> QED BY <1>3, <1>4, <2>1, FS_UNION
<1>6. IsFiniteSet(AllCodes)
  <2>1. h \in Surjection(AllFindings, AllCodes)
    BY DEF Surjection, AllCodes
  <2> HIDE DEF h
  <2> QED BY <1>5, <2>1, FS_Surjection
<1> QED BY <1>1, <1>2, <1>5, <1>6

(* Counted by code or by case, the findings are the same. *)
LEMMA CountsAddUp ==
    ASSUME BatchInv
    PROVE  /\ SumFunction([code \in AllCodes |-> CountOf(code)]) = Cardinality(AllFindings)
           /\ SumFunction([i \in DOMAIN reports |-> Cardinality(reports[i].findings)])
                = Cardinality(AllFindings)
<1> DEFINE D == DOMAIN reports
           byCode == [code \in AllCodes |-> {f \in AllFindings : f[2][1] = code}]
           byCase == [i \in D |-> {i} \X reports[i].findings]
           count == [code \in AllCodes |-> CountOf(code)]
           size == [i \in D |-> Cardinality(reports[i].findings)]
<1>1. SumFunctionOnSet(count, AllCodes) = Cardinality(Together(byCode, AllCodes))
  <2>1. \A code \in AllCodes : IsFiniteSet(byCode[code]) /\ count[code] = Cardinality(byCode[code])
    <3> SUFFICES ASSUME NEW code \in AllCodes
                 PROVE  IsFiniteSet(byCode[code]) /\ count[code] = Cardinality(byCode[code])
      OBVIOUS
    <3>1. byCode[code] \in SUBSET AllFindings
      OBVIOUS
    <3>2. count[code] = Cardinality(byCode[code])
      BY DEF CountOf
    <3> HIDE DEF byCode, count
    <3> QED BY <3>1, <3>2, FindingsAreFinite, FS_Subset
  <2>2. \A x, y \in AllCodes : x # y => byCode[x] \cap byCode[y] = {}
    OBVIOUS
  <2>3. IsFiniteSet(AllCodes)
    BY FindingsAreFinite
  <2> HIDE DEF byCode, count
  <2> QED BY <2>1, <2>2, <2>3, SumOfSizes
<1>2. Together(byCode, AllCodes) = AllFindings
  <2>1. \A f \in AllFindings : f[2][1] \in AllCodes
    BY DEF AllCodes
  <2> HIDE DEF byCode
  <2>2. \A code \in AllCodes : \A f : f \in byCode[code] <=> f \in AllFindings /\ f[2][1] = code
    BY DEF byCode
  <2>3. ASSUME NEW f PROVE f \in Together(byCode, AllCodes) <=> f \in AllFindings
    <3>1. f \in Together(byCode, AllCodes) <=> \E code \in AllCodes : f \in byCode[code]
      BY DEF Together
    <3> QED BY <2>1, <2>2, <3>1, Zenon
  <2> QED BY <2>3, Zenon
<1>3. SumFunctionOnSet(size, D) = Cardinality(Together(byCase, D))
  <2>1. ASSUME NEW i \in D PROVE IsFiniteSet(byCase[i]) /\ size[i] = Cardinality(byCase[i])
    <3> DEFINE F == reports[i].findings
    <3>1. IsFiniteSet(F) /\ Cardinality(F) \in Nat
      BY FindingsAreFinite, FS_CardinalityType
    <3>2. IsFiniteSet({i}) /\ Cardinality({i}) = 1
      BY FS_Singleton
    <3> HIDE DEF F
    <3>3. IsFiniteSet({i} \X F) /\ Cardinality({i} \X F) = Cardinality({i}) * Cardinality(F)
      BY <3>1, <3>2, FS_Product
    <3>4. Cardinality({i} \X F) = Cardinality(F)
      BY <3>1, <3>2, <3>3
    <3> QED BY <3>3, <3>4 DEF F
  <2>2. \A x, y \in D : x # y => byCase[x] \cap byCase[y] = {}
    OBVIOUS
  <2>3. IsFiniteSet(D)
    BY FindingsAreFinite
  <2> HIDE DEF byCase, size, D
  <2> QED BY <2>1, <2>2, <2>3, SumOfSizes
<1>4. Together(byCase, D) = AllFindings
  BY DEF Together, AllFindings
<1>5. /\ SumFunction(count) = SumFunctionOnSet(count, AllCodes)
      /\ SumFunction(size) = SumFunctionOnSet(size, D)
  <2>1. DOMAIN count = AllCodes /\ DOMAIN size = D
    OBVIOUS
  <2> HIDE DEF count, size, D
  <2> QED BY <2>1 DEF SumFunction
<1> QED BY <1>1, <1>2, <1>3, <1>4, <1>5

LEMMA BatchFailures == ASSUME BatchInv PROVE FailuresAccountedFor
<1> SUFFICES ASSUME batch # None PROVE FailuresAccountedFor
  BY DEF FailuresAccountedFor
<1> DEFINE D == DOMAIN cases
           n == Len(cases)
           P == {i \in D : reports[i].passed}
           F == {i \in D : ~KeepsContract(cases[i])}
<1>1. batch = Totals /\ Len(reports) = n /\ n \in Nat /\ D = 1 .. n /\ DOMAIN reports = D /\ max \in Nat
  BY DEF BatchInv
<1>2. Failing = F
  <2>1. \A i \in D : reports[i].passed <=> KeepsContract(cases[i])
    BY <1>1, BatchPasses DEF PassMeansContract
  <2> QED BY <1>1, <2>1, Zenon DEF Failing
<1>3. PassedCount = Cardinality(P)
  BY <1>1 DEF PassedCount
<1>4. IsFiniteSet(D) /\ Cardinality(D) = n
  <2> HIDE DEF n
  <2>1. IsFiniteSet(1 .. n) /\ Cardinality(1 .. n) = IF 1 > n THEN 0 ELSE n - 1 + 1
    BY <1>1, FS_Interval
  <2>2. Cardinality(1 .. n) = n
    BY <1>1, <2>1
  <2> QED BY <1>1, <2>1, <2>2
<1>5. F \in SUBSET D /\ P = D \ F
  BY <1>1, <1>2, Zenon DEF Failing
<1>6. IsFiniteSet(F) /\ Cardinality(F) \in Nat /\ Cardinality(P) = n - Cardinality(F)
  <2> HIDE DEF D, n, P, F
  <2>1. D \cap F = F
    BY <1>5
  <2>2. Cardinality(D \ F) = Cardinality(D) - Cardinality(D \cap F)
    BY <1>4, FS_Difference
  <2>3. IsFiniteSet(F)
    BY <1>4, <1>5, FS_Subset
  <2> QED BY <1>4, <1>5, <2>1, <2>2, <2>3, FS_CardinalityType
<1> DEFINE m == Least(max, Cardinality(F))
           E == Examples(max)
<1>7. m \in Nat /\ (F # {} /\ max > 0 => m >= 1)
  <2>1. F # {} => Cardinality(F) # 0
    BY <1>6, FS_EmptySet
  <2> HIDE DEF F
  <2> QED BY <1>1, <1>6, <2>1 DEF Least
<1>8. E = [k \in 1 .. m |-> reports[Nth(Failing, k)]]
  BY <1>2 DEF Examples
<1>9. Len(E) = m
  <2> HIDE DEF m, E
  <2> QED BY <1>7, <1>8
<1>10. ASSUME F # {}, max > 0
       PROVE  E[1] = reports[CHOOSE i \in F : \A j \in F : i <= j]
  <2>1. 1 \in 1 .. m
    <3> HIDE DEF m
    <3> QED BY <1>7, <1>10
  <2>2. E[1] = reports[Nth(F, 1)]
    <3> HIDE DEF m, E, F
    <3> QED BY <1>2, <1>8, <2>1
  <2>3. \A i \in F : i \in Nat
    BY <1>1
  <2> HIDE DEF F, E
  <2>4. Nth(F, 1) \in F /\ \A j \in F : Nth(F, 1) <= j
    <3>1. F \in SUBSET Nat
      BY <2>3
    <3> QED BY <1>6, <1>10, <3>1, FirstIsLeast
  <2>5. ASSUME NEW i \in F, \A j \in F : i <= j PROVE i = Nth(F, 1)
    <3>1. i <= Nth(F, 1) /\ Nth(F, 1) <= i /\ i \in Nat /\ Nth(F, 1) \in Nat
      BY <2>3, <2>4, <2>5
    <3> QED BY <3>1
  <2>6. (CHOOSE i \in F : \A j \in F : i <= j) = Nth(F, 1)
    BY <2>4, <2>5
  <2> QED BY <2>2, <2>6
<1>11. /\ batch.failed = n - PassedCount /\ batch.passed = PassedCount /\ batch.total = n
       /\ batch.counts = [code \in AllCodes |-> CountOf(code)] /\ batch.examples = E
  BY <1>1 DEF Totals
<1>12. batch.failed = Cardinality(F) /\ batch.passed + batch.failed = batch.total
  <2> HIDE DEF n, P, F, E
  <2> QED BY <1>1, <1>3, <1>6, <1>11
<1>13. SumFunction(batch.counts) =
         SumFunction([i \in DOMAIN reports |-> Cardinality(reports[i].findings)])
  BY <1>11, CountsAddUp
<1> HIDE DEF m, E, F, P, n
<1>14. Len(batch.examples) = m /\ (F # {} /\ max > 0 =>
         batch.examples[1] = reports[CHOOSE i \in F : \A j \in F : i <= j])
  BY <1>9, <1>10, <1>11
<1> QED BY <1>12, <1>13, <1>14, Zenon DEF FailuresAccountedFor, m, F

-----------------------------------------------------------------------------
(* One row of a dataset: the adapter's arithmetic against evalfence's. *)

LEMMA PlacedFinite ==
    ASSUME NEW ranges, RangesWellFormed(ranges)
    PROVE  /\ IsFiniteSet(Placed(ranges)) /\ RawSize(ranges) \in Nat
           /\ IsFiniteSet(LinesOf(ranges)) /\ Cardinality(LinesOf(ranges)) \in Nat
           /\ Cardinality(LinesOf(ranges)) <= RawSize(ranges)
<1> DEFINE D == DOMAIN ranges
           Part(i) == {i} \X (ranges[i].start .. ranges[i].end)
           Image == {Part(i) : i \in D}
           g == [i \in D |-> Part(i)]
<1>1. ranges \in Seq(Range(ranges)) /\ D = 1 .. Len(ranges) /\ Len(ranges) \in Nat
  BY DEF RangesWellFormed
<1>2. \A i \in D : IsFiniteSet(Part(i))
  <2> SUFFICES ASSUME NEW i \in D PROVE IsFiniteSet({i} \X (ranges[i].start .. ranges[i].end))
    OBVIOUS
  <2>1. ranges[i].start \in Int /\ ranges[i].end \in Int
    <3>1. ranges[i] \in Range(ranges)
      BY DEF Range
    <3> QED BY <3>1 DEF RangesWellFormed
  <2>2. IsFiniteSet(ranges[i].start .. ranges[i].end)
    BY <2>1, FS_Interval
  <2> QED BY <2>2, FS_Singleton, FS_Product
<1>3. IsFiniteSet(Image)
  <2>1. IsFiniteSet(D)
    BY <1>1, FS_Interval
  <2> HIDE DEF D, Part
  <2>2. g \in Surjection(D, Image)
    BY DEF Surjection
  <2> HIDE DEF g, Image
  <2> QED BY <2>1, <2>2, FS_Surjection
<1>4. IsFiniteSet(Placed(ranges))
  <2>1. Placed(ranges) = UNION Image
    BY DEF Placed
  <2>2. \A T \in Image : IsFiniteSet(T)
    BY <1>2
  <2> HIDE DEF Image
  <2> QED BY <1>3, <2>1, <2>2, FS_UNION
<1>5. RawSize(ranges) \in Nat
  BY <1>4, FS_CardinalityType DEF RawSize
<1> DEFINE h == [p \in Placed(ranges) |-> <<PlainKey(ranges[p[1]].key), p[2]>>]
<1>6. h \in Surjection(Placed(ranges), LinesOf(ranges))
  <2>1. \A p \in Placed(ranges) : h[p] \in LinesOf(ranges)
    <3> SUFFICES ASSUME NEW i \in D, NEW l \in ranges[i].start .. ranges[i].end
                 PROVE  <<PlainKey(ranges[i].key), l>> \in LinesOf(ranges)
      BY DEF Placed
    <3>1. ranges[i] \in Range(ranges)
      BY DEF Range
    <3> QED BY <3>1 DEF LinesOf
  <2>2. \A line \in LinesOf(ranges) : \E p \in Placed(ranges) : h[p] = line
    <3> SUFFICES ASSUME NEW line \in LinesOf(ranges) PROVE \E p \in Placed(ranges) : h[p] = line
      OBVIOUS
    <3>1. PICK r \in Range(ranges) : line \in {PlainKey(r.key)} \X (r.start .. r.end)
      BY DEF LinesOf
    <3>2. PICK i \in D : r = ranges[i]
      BY DEF Range
    <3>3. <<i, line[2]>> \in Placed(ranges)
      BY <3>1, <3>2 DEF Placed
    <3>4. h[<<i, line[2]>>] = line
      BY <3>1, <3>2, <3>3
    <3> QED BY <3>3, <3>4
  <2>3. h \in [Placed(ranges) -> LinesOf(ranges)]
    BY <2>1
  <2> HIDE DEF h
  <2> QED BY <2>2, <2>3 DEF Surjection
<1> HIDE DEF h
<1>7. IsFiniteSet(LinesOf(ranges)) /\ Cardinality(LinesOf(ranges)) <= Cardinality(Placed(ranges))
  BY <1>4, <1>6, FS_Surjection
<1> QED BY <1>4, <1>5, <1>7, FS_CardinalityType DEF RawSize

LEMMA HitsNatural == ASSUME NEW row, RangesWellFormed(row.patch) PROVE Hits(row) \in Nat
<1> DEFINE H == {p \in Placed(row.patch) :
                   \E g \in Range(row.gold) : g.key = row.patch[p[1]].key /\ p[2] \in g.start .. g.end}
<1>1. H \in SUBSET Placed(row.patch)
  OBVIOUS
<1>2. IsFiniteSet(Placed(row.patch))
  BY PlacedFinite
<1>3. Hits(row) = Cardinality(H)
  BY DEF Hits
<1> HIDE DEF H
<1> QED BY <1>1, <1>2, <1>3, FS_Subset, FS_CardinalityType

LEMMA RowCase ==
    ASSUME NEW row, RowWellFormed(row)
    PROVE  WellFormed(CaseOf(row))
<1> DEFINE c == CaseOf(row)
<1>1. /\ IsFiniteSet(LinesOf(row.patch)) /\ IsFiniteSet(LinesOf(row.gold))
      /\ RawSize(row.patch) \in Nat /\ Hits(row) \in Nat
  BY PlacedFinite, HitsNatural DEF RowWellFormed
<1>2. /\ c.tolerance = TOLERANCE /\ c.gold.set = [kind |-> "ok", lines |-> LinesOf(row.gold)]
      /\ c.prediction.set = [kind |-> "ok", lines |-> LinesOf(row.patch)]
      /\ c.reported.precision = Current(row) /\ c.reported.recall = Current(row)
      /\ c.reported.f1 = None
  BY DEF CaseOf, EvidenceOf
<1> HIDE DEF c
<1>3. c.tolerance \in Fraction
  BY <1>2, ToleranceAssumption DEF Fraction
<1>4. SetWellFormed(c.gold.set) /\ SetWellFormed(c.prediction.set)
  BY <1>1, <1>2 DEF SetWellFormed
<1>5. Current(row) \in Fraction
  BY <1>1 DEF Current, Fraction
<1>6. \A x \in {c.reported.precision, c.reported.recall, c.reported.f1} : x \in {None} \cup Fraction
  BY <1>2, <1>5
<1>7. WellFormed(c)
  BY <1>3, <1>4, <1>6 DEF WellFormed
<1> QED BY <1>7 DEF c

(* What every case of the adapter is found to be: gold passed off as a     *)
(* prediction.                                                             *)
GoldAsPrediction == {<<"EF001", "materialized">>, <<"EF002", Label(Fallback)>>,
                     <<"EF005", Label(Fallback)>>}

LEMMA TrimLabel == ASSUME NEW w PROVE Trim(Label(w)) = Label(w)
<1> DEFINE r == Label(w)
           s == [r EXCEPT !.padded = FALSE]
<1>1. r = [words |-> w, padded |-> FALSE, upper |-> FALSE]
  BY DEF Label
<1> HIDE DEF r
<1>2. DOMAIN r = {"words", "padded", "upper"} /\ DOMAIN s = DOMAIN r
  BY <1>1
<1>3. s.words = r.words /\ s.upper = r.upper /\ s.padded = r.padded
  BY <1>1
<1>4. s = [k \in DOMAIN s |-> s[k]] /\ r = [k \in DOMAIN r |-> r[k]]
  BY <1>1
<1>5. \A k \in DOMAIN r : s[k] = r[k]
  BY <1>2, <1>3
<1>6. s = r
  BY <1>2, <1>4, <1>5, Zenon
<1> QED BY <1>6 DEF Trim, r

LEMMA FallbackFound ==
    ASSUME NEW row, RowWellFormed(row)
    PROVE  LET c == CaseOf(row)
           IN  /\ HeaderFindings(c) = {} /\ GoldFindings(c) = {}
               /\ PredictionFindings(c) \cup ReportedSourceFindings(c) = GoldAsPrediction
               /\ BothNormalized(c) /\ OverflowFindings(c) = {}
<1> DEFINE c == CaseOf(row)
           L == Label(Fallback)
           A == Label(<<"prediction", "model", "patch">>)
           O == Label(<<"gold", "init", "ctx">>)
<1>1. /\ c.schemaOk = TRUE /\ c.caseIdOk = TRUE /\ c.tolerance = TOLERANCE /\ c.allowed = <<A>>
      /\ c.gold.source = O /\ c.gold.present = TRUE
      /\ c.gold.set = [kind |-> "ok", lines |-> LinesOf(row.gold)]
      /\ c.prediction.source = L /\ c.prediction.present = FALSE
      /\ c.prediction.set = [kind |-> "ok", lines |-> LinesOf(row.patch)]
      /\ c.reported.source = L
  BY DEF CaseOf, EvidenceOf
<1>2. c.prediction # None /\ c.reported # None /\ c.reported.source # None
  BY DEF RowWellFormed
<1>3. WellFormed(c)
  BY RowCase
<1> HIDE DEF c
<1>4. L.words = <<"gold", "patch", "fallback">> /\ A.words = <<"prediction", "model", "patch">>
        /\ O.words = <<"gold", "init", "ctx">>
  BY DEF Label, Fallback
<1>5. Trim(L) = L
  BY TrimLabel
<1>6. Range(c.allowed) = {A}
  BY <1>1 DEF Range
<1>7. L # A
  BY <1>4
<1>8. A.words # <<>> /\ O.words # <<>> /\ L.words # <<>> /\ "gold" \in Range(L.words)
  <2>1. "gold" = L.words[1] /\ 1 \in DOMAIN L.words
    BY <1>4
  <2>2. "gold" \in Range(L.words)
    BY <2>1 DEF Range
  <2> QED BY <1>4, <2>2
<1> HIDE DEF L, A, O
<1>9. HeaderFindings(c) = {}
  <2>1. c.tolerance \in Fraction /\ Finite(c.tolerance) /\ c.tolerance[1] >= 0
    BY <1>1, ToleranceAssumption DEF Fraction, Finite
  <2>2. \A label \in Range(c.allowed) : label.words # <<>>
    BY <1>6, <1>8
  <2> QED BY <1>1, <2>1, <2>2, HeaderGood
<1>10. GoldFindings(c) = {}
  <2>1. c.gold.source.words # <<>> /\ c.gold.present /\ c.gold.set.kind = "ok"
    BY <1>1, <1>8
  <2> QED BY <1>3, <2>1, GoldGood DEF WellFormed
<1>11. SourceFindings(L, c) = {<<"EF002", L>>, <<"EF005", L>>}
  <2>1. ~IsBlank(L) /\ LooksGold(L, c.gold.source)
    BY <1>8, Zenon DEF IsBlank, LooksGold
  <2>2. Trim(L) \notin Range(c.allowed)
    BY <1>5, <1>6, <1>7
  <2>3. SourceFindings(L, c) = {} \cup {<<"EF002", Trim(L)>>} \cup {<<"EF005", Trim(L)>>}
    BY <2>1, <2>2, Zenon DEF SourceFindings, When
  <2> QED BY <1>5, <2>3
<1>12. PredictionFindings(c) \cup ReportedSourceFindings(c) = GoldAsPrediction
  <2>1. ReportedSource(c) = L /\ ReportedSource(c) # None
    BY <1>1, <1>2 DEF ReportedSource
  <2>2. ReportedSourceFindings(c) = SourceFindings(L, c)
    BY <2>1 DEF ReportedSourceFindings
  <2>3. SetFindings("prediction", c.prediction.set) = {}
    BY <1>1 DEF SetFindings
  <2>4. When(~c.prediction.present, <<"EF001", "materialized">>) = {<<"EF001", "materialized">>}
    BY <1>1 DEF When
  <2>5. When(/\ ReportedSource(c) # None
             /\ Trim(ReportedSource(c)) # Trim(c.prediction.source), <<"EF006", 0>>) = {}
    BY <1>1, <2>1 DEF When
  <2>6. PredictionFindings(c) = {<<"EF001", "materialized">>} \cup SourceFindings(L, c) \cup {} \cup {}
    BY <1>1, <1>2, <2>3, <2>4, <2>5, Zenon DEF PredictionFindings
  <2> QED BY <1>11, <2>2, <2>6 DEF GoldAsPrediction, L
<1>13. BothNormalized(c)
  BY <1>1, <1>2 DEF BothNormalized
<1>14. OverflowFindings(c) = {}
  <2> DEFINE P == LinesOf(row.patch)
             G == LinesOf(row.gold)
             N == Cardinalities(c)
  <2>1. Cardinality(P) <= RawSize(row.patch) /\ Cardinality(G) <= RawSize(row.gold)
          /\ Cardinality(P) \in Nat /\ Cardinality(G) \in Nat
          /\ RawSize(row.patch) \in Nat /\ RawSize(row.gold) \in Nat
    BY PlacedFinite DEF RowWellFormed
  <2>2. RawSize(row.patch) <= MaxU64 /\ RawSize(row.gold) <= MaxU64
    BY DEF RowWellFormed, RangesWellFormed
  <2>3. N.pred_size = Cardinality(P) /\ N.gold_size = Cardinality(G)
    BY <1>1 DEF Cardinalities
  <2>4. /\ N = [pred_size |-> N.pred_size, gold_size |-> N.gold_size,
                intersection |-> N.intersection]
        /\ N.intersection <= N.pred_size /\ N.intersection \in Nat
    <3>1. N \in [{"pred_size", "gold_size", "intersection"} -> Nat]
      BY <1>3, <1>13, SizesAreNumbers
    <3>2. N.intersection \in Nat
      <4> HIDE DEF N
      <4> QED BY <3>1
    <3> QED BY <1>3, <1>13, <3>2, SizesAreNumbers
  <2> HIDE DEF N, P, G
  <2>5. N.pred_size <= MaxU64 /\ N.gold_size <= MaxU64 /\ N.intersection <= MaxU64
    BY <2>1, <2>2, <2>3, <2>4, MaxU64Assumption
  <2>6. \A n \in Range(N) : n <= MaxU64
    <3>1. Range(N) = {N.pred_size, N.gold_size, N.intersection}
      <4>1. DOMAIN N = {"pred_size", "gold_size", "intersection"}
        BY <2>4
      <4> QED BY <4>1 DEF Range
    <3> QED BY <2>5, <3>1
  <2> QED BY <1>3, <1>13, <2>6, OverflowGood DEF N
<1> QED BY <1>9, <1>10, <1>12, <1>13, <1>14 DEF c

(* A recall that is declared is found wrong exactly when the two recalls   *)
(* are further apart than the tolerance, either way.                       *)
LEMMA ApartIsNotClose ==
    ASSUME NEW x \in Nat \X Nat, NEW y \in Nat \X Nat
    PROVE  ~Close(x, y, TOLERANCE) <=> Above(x, y) \/ Above(y, x)
<1> DEFINE d == x[1] * y[2] - y[1] * x[2]
           e == y[1] * x[2] - x[1] * y[2]
           t == TOLERANCE[2]
           b == TOLERANCE[1] * x[2] * y[2]
           b2 == TOLERANCE[1] * y[2] * x[2]
<1>1. t \in Nat /\ t > 0 /\ TOLERANCE[1] \in Nat /\ TOLERANCE # NaN
  BY ToleranceAssumption DEF NaN
<1>2. x[1] \in Nat /\ x[2] \in Nat /\ y[1] \in Nat /\ y[2] \in Nat
  OBVIOUS
<1>3. d \in Int /\ e = -d /\ b \in Nat /\ b2 = b
  <2> DEFINE p == x[1] * y[2]
             q == y[1] * x[2]
  <2>1. p \in Nat /\ q \in Nat
    BY <1>2
  <2>2. d = p - q /\ e = q - p
    BY <1>2
  <2>3. b \in Nat /\ b2 = b
    BY <1>1, <1>2
  <2> HIDE DEF p, q, d, e, b, b2
  <2> QED BY <2>1, <2>2, <2>3
<1>4. Close(x, y, TOLERANCE) <=> Abs(d) * t <= b
  BY <1>1, Zenon DEF Close
<1>5. Above(x, y) <=> d * t > b
  BY Zenon DEF Above
<1>6. Above(y, x) <=> e * t > b2
  BY Zenon DEF Above
<1> HIDE DEF d, e, b, b2, t
<1>7. e * t = -(d * t) /\ d * t \in Int
  BY <1>1, <1>3
<1>8. CASE d >= 0
  <2>1. d * t >= 0 /\ Abs(d) = d
    BY <1>1, <1>3, <1>8 DEF Abs
  <2> QED BY <1>3, <1>4, <1>5, <1>6, <1>7, <2>1
<1>9. CASE d < 0
  <2>1. Abs(d) = -d
    BY <1>9 DEF Abs
  <2>2. (-d) * t >= 0 /\ (-d) * t = -(d * t)
    BY <1>1, <1>3, <1>9
  <2> QED BY <1>3, <1>4, <1>5, <1>6, <1>7, <2>1, <2>2
<1> QED BY <1>3, <1>8, <1>9

LEMMA RowNumbers ==
    ASSUME NEW row, RowWellFormed(row), RawSize(row.patch) # 0
    PROVE  LET c == CaseOf(row)
               r == c.reported
               k == Calculated(c)
               p == Cardinality(LinesOf(row.patch))
               g == Cardinality(LinesOf(row.gold))
               i == Cardinality(LinesOf(row.patch) \cap LinesOf(row.gold))
           IN  /\ p \in Nat /\ g \in Nat /\ i \in Nat /\ i <= g
               /\ c.tolerance = TOLERANCE /\ r # None /\ k # None
               /\ r.pred_size = RawSize(row.patch) /\ r.gold_size = RawSize(row.gold)
               /\ r.intersection = Hits(row)
               /\ r.precision = Current(row) /\ r.recall = Current(row) /\ r.f1 = None
               /\ k.pred_size = p /\ k.gold_size = g /\ k.intersection = i
               /\ k.precision = ratio(i, p) /\ k.recall = ratio(i, g)
               /\ RawSize(row.patch) \in Nat \ {0} /\ RawSize(row.gold) \in Nat /\ Hits(row) \in Nat
<1> DEFINE c == CaseOf(row)
           r == c.reported
           k == Calculated(c)
           n == Cardinalities(c)
           P == LinesOf(row.patch)
           G == LinesOf(row.gold)
           i == Cardinality(P \cap G)
<1>1. WellFormed(c) /\ BothNormalized(c) /\ OverflowFindings(c) = {}
  BY RowCase, FallbackFound
<1>2. n = [pred_size |-> Cardinality(P), gold_size |-> Cardinality(G), intersection |-> i]
  BY DEF CaseOf, EvidenceOf, Cardinalities
<1>3. k = [pred_size |-> n.pred_size, gold_size |-> n.gold_size, intersection |-> n.intersection,
           precision |-> ratio(n.intersection, n.pred_size),
           recall |-> ratio(n.intersection, n.gold_size),
           f1 |-> F1(ratio(n.intersection, n.pred_size), ratio(n.intersection, n.gold_size))]
      /\ k # None
  BY <1>1, CalculatedIs
<1>4. /\ k.pred_size = Cardinality(P) /\ k.gold_size = Cardinality(G) /\ k.intersection = i
      /\ k.precision = ratio(i, Cardinality(P)) /\ k.recall = ratio(i, Cardinality(G))
  <2> HIDE DEF n, k, P, G, i
  <2> QED BY <1>2, <1>3
<1>5. /\ c.tolerance = TOLERANCE
      /\ r.pred_size = RawSize(row.patch) /\ r.gold_size = RawSize(row.gold)
      /\ r.intersection = Hits(row)
      /\ r.precision = Current(row) /\ r.recall = Current(row) /\ r.f1 = None
  BY DEF CaseOf
<1>6. r # None
  BY DEF RowWellFormed
<1>7. /\ Cardinality(P) \in Nat /\ Cardinality(G) \in Nat /\ IsFiniteSet(G)
      /\ RawSize(row.patch) \in Nat /\ RawSize(row.gold) \in Nat /\ Hits(row) \in Nat
  BY PlacedFinite, HitsNatural DEF RowWellFormed
<1>8. i \in Nat /\ i <= Cardinality(G)
  <2>1. P \cap G \in SUBSET G
    OBVIOUS
  <2> HIDE DEF P, G
  <2>2. IsFiniteSet(P \cap G) /\ Cardinality(P \cap G) <= Cardinality(G)
    BY <1>7, <2>1, FS_Subset
  <2> QED BY <2>2, FS_CardinalityType
<1> HIDE DEF k, r
<1>9. RawSize(row.patch) \in Nat \ {0}
  BY <1>7
<1> QED BY <1>3, <1>4, <1>5, <1>6, <1>7, <1>8, <1>9 DEF k, r

(* The findings of a row, each of the three sizes first *)
LEMMA SizesFound ==
    ASSUME NEW row, RowWellFormed(row), RawSize(row.patch) # 0, ~SetLike(row)
    PROVE  \E code \in {"EF101", "EF102", "EF103"} : <<code, 0>> \in CompareFindings(CaseOf(row))
<1> DEFINE c == CaseOf(row)
           r == c.reported
           k == Calculated(c)
           a1 == When(CountWrong(r.pred_size, k.pred_size), <<"EF101", 0>>)
           a2 == When(CountWrong(r.gold_size, k.gold_size), <<"EF102", 0>>)
           a3 == When(CountWrong(r.intersection, k.intersection), <<"EF103", 0>>)
<1>1. /\ r # None /\ k # None
      /\ r.pred_size = RawSize(row.patch) /\ r.gold_size = RawSize(row.gold)
      /\ r.intersection = Hits(row)
      /\ k.pred_size = Cardinality(LinesOf(row.patch)) /\ k.gold_size = Cardinality(LinesOf(row.gold))
      /\ k.intersection = Cardinality(LinesOf(row.patch) \cap LinesOf(row.gold))
      /\ RawSize(row.patch) \in Nat /\ RawSize(row.gold) \in Nat /\ Hits(row) \in Nat
  BY RowNumbers
<1>2. /\ a1 \subseteq CompareFindings(c) /\ a2 \subseteq CompareFindings(c)
      /\ a3 \subseteq CompareFindings(c)
  BY <1>1 DEF CompareFindings
<1> HIDE DEF c, r, k
<1>3. r.pred_size # None /\ r.gold_size # None /\ r.intersection # None
  BY <1>1, NoneAssumption
<1>4. r.pred_size # k.pred_size \/ r.gold_size # k.gold_size \/ r.intersection # k.intersection
  BY <1>1 DEF SetLike
<1>5. \/ <<"EF101", 0>> \in a1
      \/ <<"EF102", 0>> \in a2
      \/ <<"EF103", 0>> \in a3
  BY <1>3, <1>4 DEF When, CountWrong
<1> QED BY <1>2, <1>5 DEF c

LEMMA SetLikeFound ==
    ASSUME NEW row, RowWellFormed(row), RawSize(row.patch) # 0, SetLike(row)
    PROVE  CompareFindings(CaseOf(row)) = When(Mismatch(row), <<"EF105", 0>>)
<1> DEFINE c == CaseOf(row)
           r == c.reported
           k == Calculated(c)
           p == RawSize(row.patch)
           g == RawSize(row.gold)
           i == Hits(row)
           t == c.tolerance
<1>1. /\ t = TOLERANCE /\ r # None /\ k # None
      /\ r.pred_size = p /\ r.gold_size = g /\ r.intersection = i
      /\ r.precision = <<i, p>> /\ r.recall = <<i, p>> /\ r.f1 = None
      /\ k.pred_size = p /\ k.gold_size = g /\ k.intersection = i
      /\ k.precision = ratio(i, p) /\ k.recall = ratio(i, g)
      /\ p \in Nat \ {0} /\ g \in Nat /\ i \in Nat /\ i <= g
  BY RowNumbers DEF SetLike, Current
<1>2. CompareFindings(c) =
        When(CountWrong(r.pred_size, k.pred_size), <<"EF101", 0>>)
        \cup When(CountWrong(r.gold_size, k.gold_size), <<"EF102", 0>>)
        \cup When(CountWrong(r.intersection, k.intersection), <<"EF103", 0>>)
        \cup When(MetricWrong(r.precision, k.precision, t), <<"EF104", 0>>)
        \cup When(MetricWrong(r.recall, k.recall, t), <<"EF105", 0>>)
        \cup When(MetricWrong(r.f1, k.f1, t), <<"EF106", 0>>)
  BY <1>1 DEF CompareFindings
<1>3. Current(row) = <<i, p>> /\ Standard(row) = IF g = 0 THEN <<1, 1>> ELSE <<i, g>>
  BY DEF Current, Standard
<1> HIDE DEF c, r, k, p, g, i, t
<1>4. /\ ~CountWrong(r.pred_size, k.pred_size) /\ ~CountWrong(r.gold_size, k.gold_size)
      /\ ~CountWrong(r.intersection, k.intersection) /\ ~MetricWrong(r.f1, k.f1, t)
  BY <1>1 DEF CountWrong, MetricWrong
<1>5. <<i, p>> \in Nat \X Nat /\ <<i, p>> # None /\ Finite(<<i, p>>)
  <2>1. <<i, p>> \in Fraction
    BY <1>1 DEF Fraction
  <2> QED BY <1>1, <2>1, NoneAssumption DEF Finite
<1>6. ~MetricWrong(r.precision, k.precision, t)
  <2>1. k.precision = <<i, p>>
    BY <1>1 DEF ratio
  <2>2. ~Above(<<i, p>>, <<i, p>>)
    <3> DEFINE q == TOLERANCE[1] * p * p
    <3>1. i * p - i * p = 0
      BY <1>1
    <3>2. q \in Nat
      BY <1>1, ToleranceAssumption
    <3>3. 0 * TOLERANCE[2] = 0
      BY ToleranceAssumption
    <3>4. Above(<<i, p>>, <<i, p>>) <=> (i * p - i * p) * TOLERANCE[2] > q
      BY DEF Above
    <3> HIDE DEF q
    <3> QED BY <3>1, <3>2, <3>3, <3>4
  <2>3. Close(<<i, p>>, <<i, p>>, TOLERANCE)
    BY <1>5, <2>2, ApartIsNotClose
  <2> QED BY <1>1, <1>5, <2>1, <2>3, Zenon DEF MetricWrong
<1>7. MetricWrong(r.recall, k.recall, t) <=> Mismatch(row)
  <2>1. CASE g = 0
    <3>1. k.recall = None /\ i = 0
      BY <1>1, <2>1 DEF ratio
    <3>2. MetricWrong(r.recall, k.recall, t)
      BY <1>1, <1>5, <3>1 DEF MetricWrong
    <3>3. Above(<<1, 1>>, <<0, p>>)
      <4>1. Above(<<1, 1>>, <<0, p>>) <=> (1 * p - 0 * 1) * TOLERANCE[2] > TOLERANCE[1] * 1 * p
        BY DEF Above
      <4> DEFINE a == TOLERANCE[1]
                 b == TOLERANCE[2]
      <4>2. a \in Nat /\ b \in Nat /\ a < b /\ p \in Nat /\ p > 0
        BY <1>1, ToleranceAssumption
      <4> HIDE DEF a, b
      <4>3. ~(p * b <= p * a)
        BY <4>2, Scaled
      <4>4. (1 * p - 0 * 1) * b = p * b /\ a * 1 * p = p * a /\ p * b \in Int /\ p * a \in Int
        BY <4>2
      <4>5. (1 * p - 0 * 1) * b > a * 1 * p
        BY <4>3, <4>4
      <4> QED BY <4>1, <4>5 DEF a, b
    <3>4. Mismatch(row)
      BY <1>3, <2>1, <3>1, <3>3 DEF Mismatch
    <3> QED BY <3>2, <3>4
  <2>2. CASE g # 0
    <3>1. k.recall = <<i, g>> /\ Standard(row) = <<i, g>> /\ <<i, g>> \in Nat \X Nat
      BY <1>1, <1>3, <2>2 DEF ratio
    <3>2. k.recall # None
      <4>1. <<i, g>> \in Fraction
        BY <1>1 DEF Fraction
      <4> QED BY <3>1, <4>1, NoneAssumption
    <3>3. MetricWrong(r.recall, k.recall, t) <=> ~Close(<<i, p>>, <<i, g>>, TOLERANCE)
      BY <1>1, <1>5, <3>1, <3>2, Zenon DEF MetricWrong
    <3>4. ~Close(<<i, p>>, <<i, g>>, TOLERANCE)
            <=> Above(<<i, p>>, <<i, g>>) \/ Above(<<i, g>>, <<i, p>>)
      BY <1>5, <3>1, ApartIsNotClose
    <3> QED BY <1>3, <3>1, <3>3, <3>4, Zenon DEF Mismatch, Inflated
  <2> QED BY <2>1, <2>2
<1> HIDE DEF Mismatch
<1>8. CompareFindings(c) = {} \cup {} \cup {} \cup {} \cup When(Mismatch(row), <<"EF105", 0>>) \cup {}
  <2>1. When(CountWrong(r.pred_size, k.pred_size), <<"EF101", 0>>) = {}
    BY <1>4, Zenon DEF When
  <2>2. When(CountWrong(r.gold_size, k.gold_size), <<"EF102", 0>>) = {}
    BY <1>4, Zenon DEF When
  <2>3. When(CountWrong(r.intersection, k.intersection), <<"EF103", 0>>) = {}
    BY <1>4, Zenon DEF When
  <2>4. When(MetricWrong(r.precision, k.precision, t), <<"EF104", 0>>) = {}
    BY <1>6, Zenon DEF When
  <2>5. When(MetricWrong(r.f1, k.f1, t), <<"EF106", 0>>) = {}
    BY <1>4, Zenon DEF When
  <2>6. When(MetricWrong(r.recall, k.recall, t), <<"EF105", 0>>) = When(Mismatch(row), <<"EF105", 0>>)
    BY <1>7, Zenon DEF When
  <2> QED BY <1>2, <2>1, <2>2, <2>3, <2>4, <2>5, <2>6, Zenon
<1>9. CompareFindings(c) = When(Mismatch(row), <<"EF105", 0>>)
  <2> DEFINE w == When(Mismatch(row), <<"EF105", 0>>)
  <2> HIDE DEF w
  <2>1. {} \cup {} \cup {} \cup {} \cup w \cup {} = w
    OBVIOUS
  <2> QED BY <1>8, <2>1 DEF w
<1> QED BY <1>9 DEF c

LEMMA RowFindings ==
    ASSUME NEW row, RowWellFormed(row)
    PROVE  AuditCase(CaseOf(row)).findings = GoldAsPrediction \cup CompareFindings(CaseOf(row))
<1> DEFINE c == CaseOf(row)
<1>1. AuditCase(c).findings = UNION {HeaderFindings(c), GoldFindings(c), PredictionFindings(c),
                           ReportedSourceFindings(c), OverflowFindings(c), CompareFindings(c)}
  BY DEF AuditCase
<1>2. /\ HeaderFindings(c) = {} /\ GoldFindings(c) = {} /\ OverflowFindings(c) = {}
      /\ PredictionFindings(c) \cup ReportedSourceFindings(c) = GoldAsPrediction
  BY FallbackFound
<1> HIDE DEF c
<1>3. AuditCase(c).findings =
        (PredictionFindings(c) \cup ReportedSourceFindings(c)) \cup CompareFindings(c)
  BY <1>1, <1>2
<1> QED BY <1>2, <1>3 DEF c

-----------------------------------------------------------------------------
(* The study. *)

(* The rows a dataset's cases are of, and its cases *)
LEMMA ComparedRows ==
    ASSUME NEW d \in Datasets
    PROVE  /\ Len(Compared(d)) \in Nat /\ Compared(d) \in Seq(Range(d))
           /\ DOMAIN Compared(d) = 1 .. Len(Compared(d))
           /\ \A k \in 1 .. Len(Compared(d)) :
                RowWellFormed(Compared(d)[k]) /\ RawSize(Compared(d)[k].patch) # 0
<1> DEFINE n == Len(d)
           S == {i \in DOMAIN d : RawSize(d[i].patch) # 0}
<1>1. /\ d \in Seq(Range(d)) /\ \A row \in Range(d) : RowWellFormed(row)
  BY DatasetsAssumption
<1>2. n \in Nat /\ DOMAIN d = 1 .. n
  BY <1>1
<1>3. S \in SUBSET (1 .. n) /\ IsFiniteSet(S) /\ Cardinality(S) \in Nat
  <2>1. S \in SUBSET (1 .. n)
    BY <1>2
  <2>2. IsFiniteSet(1 .. n)
    BY <1>2, FS_Interval
  <2> HIDE DEF S
  <2> QED BY <2>1, <2>2, FS_Subset, FS_CardinalityType
<1>4. Compared(d) = [k \in 1 .. Cardinality(S) |-> d[Nth(S, k)]]
  BY DEF Compared
<1>5. \A k \in 1 .. Cardinality(S) : Nth(S, k) \in S
  <2> HIDE DEF S
  <2> QED BY <1>2, <1>3, NthIsMember
<1>6. ASSUME NEW k \in 1 .. Cardinality(S)
      PROVE  /\ d[Nth(S, k)] \in Range(d)
             /\ RawSize(d[Nth(S, k)].patch) # 0
  <2>1. Nth(S, k) \in S
    BY <1>5
  <2>2. Nth(S, k) \in DOMAIN d /\ RawSize(d[Nth(S, k)].patch) # 0
    BY <2>1
  <2> QED BY <2>2 DEF Range
<1> HIDE DEF S
<1>7. Compared(d) \in Seq(Range(d)) /\ Len(Compared(d)) = Cardinality(S)
  BY <1>3, <1>4, <1>6
<1> QED BY <1>1, <1>3, <1>4, <1>6, <1>7

LEMMA SizeUpTo == ASSUME NEW n \in Nat PROVE Cardinality(1 .. n) = n
<1>1. Cardinality(1 .. n) = IF 1 > n THEN 0 ELSE n - 1 + 1
  BY FS_Interval
<1> QED BY <1>1

(* No row is left out of a list of rows that all have deleted lines. *)
LEMMA ComparedAgain ==
    ASSUME NEW n \in Nat, NEW d, d = [i \in 1 .. n |-> d[i]],
           \A i \in 1 .. n : RawSize(d[i].patch) # 0
    PROVE  Compared(d) = d
<1> DEFINE S == {i \in DOMAIN d : RawSize(d[i].patch) # 0}
<1>1. S = 1 .. n
  OBVIOUS
<1>2. Cardinality(1 .. n) = n
  BY SizeUpTo
<1>3. Compared(d) = [k \in 1 .. Cardinality(S) |-> d[Nth(S, k)]]
  BY DEF Compared
<1> HIDE DEF S
<1>4. Compared(d) = [k \in 1 .. n |-> d[Nth(1 .. n, k)]]
  BY <1>1, <1>2, <1>3
<1>5. \A k \in 1 .. n : d[Nth(1 .. n, k)] = d[k]
  BY NthOfAll
<1> QED BY <1>4, <1>5

LEMMA DatasetCases ==
    ASSUME NEW d \in Datasets
    PROVE  /\ CasesOf(d) \in Seq(Range(CasesOf(d)))
           /\ Len(CasesOf(d)) = Len(Compared(d)) /\ Len(CasesOf(d)) \in Nat
           /\ \A i \in 1 .. Len(CasesOf(d)) :
                CasesOf(d)[i] = CaseOf(Compared(d)[i]) /\ WellFormed(CasesOf(d)[i])
<1> DEFINE n == Len(Compared(d))
<1>1. /\ n \in Nat /\ DOMAIN Compared(d) = 1 .. n
      /\ \A i \in 1 .. n : RowWellFormed(Compared(d)[i])
  BY ComparedRows
<1>2. CasesOf(d) = [i \in 1 .. n |-> CaseOf(Compared(d)[i])]
  BY <1>1 DEF CasesOf
<1> HIDE DEF n
<1>3. \A i \in 1 .. n : CasesOf(d)[i] \in Range(CasesOf(d))
  BY <1>2 DEF Range
<1>4. CasesOf(d) \in Seq(Range(CasesOf(d))) /\ Len(CasesOf(d)) = n
  BY <1>1, <1>2, <1>3
<1>5. \A i \in 1 .. n : WellFormed(CaseOf(Compared(d)[i]))
  BY <1>1, RowCase
<1> QED BY <1>1, <1>2, <1>4, <1>5 DEF n

(* A prefix of a dataset's cases is a batch that nothing has been audited of. *)
LEMMA PrefixIsBatch ==
    ASSUME NEW d \in Datasets, NEW n \in 0 .. Len(CasesOf(d)), NEW list,
           list = SubSeq(CasesOf(d), 1, n)
    PROVE  /\ list \in Seq(Range(list)) /\ Len(list) = n
           /\ \A i \in 1 .. n : list[i] = CaseOf(Compared(d)[i])
           /\ \A c \in Range(list) : WellFormed(c)
<1> DEFINE cs == CasesOf(d)
<1>1. /\ cs \in Seq(Range(cs)) /\ Len(cs) \in Nat
      /\ \A i \in 1 .. Len(cs) : cs[i] = CaseOf(Compared(d)[i]) /\ WellFormed(cs[i])
  BY DatasetCases
<1> HIDE DEF cs
<1>2. n \in Nat /\ n <= Len(cs)
  BY <1>1 DEF cs
<1>3. list = [i \in 1 .. n |-> cs[i]]
  BY <1>1, <1>2 DEF cs
<1>4. \A i \in 1 .. n : i \in 1 .. Len(cs)
  BY <1>1, <1>2
<1>5. list \in Seq(Range(list)) /\ Len(list) = n
  <2>1. \A i \in 1 .. n : list[i] \in Range(list)
    BY <1>3 DEF Range
  <2> QED BY <1>2, <1>3, <2>1
<1>6. \A c \in Range(list) : WellFormed(c)
  <2>1. ASSUME NEW c \in Range(list) PROVE WellFormed(c)
    <3>1. PICK i \in 1 .. n : c = list[i]
      BY <1>3 DEF Range
    <3> QED BY <1>1, <1>3, <1>4, <3>1
  <2> QED BY <2>1
<1>7. \A i \in 1 .. n : list[i] = CaseOf(Compared(d)[i])
  BY <1>1, <1>3, <1>4
<1> QED BY <1>5, <1>6, <1>7

-----------------------------------------------------------------------------
(* The rows of the dataset that are in the file of cases *)
FileWhole == /\ dataset \in Datasets
             /\ casesFile \in [rows : 0 .. Len(CasesOf(dataset)), torn : BOOLEAN]

(* Whatever is killed and started again: evalfence has a prefix of the     *)
(* dataset's cases, the summary is of the whole dataset if it is one, and  *)
(* so is the one the verifier has read.                                    *)
StudyInv ==
    /\ BatchInv
    /\ dataset = None \/ dataset \in Datasets
    /\ dataset # None =>
         \E n \in 0 .. Len(CasesOf(dataset)) : cases = SubSeq(CasesOf(dataset), 1, n)
    /\ casesFile = None \/ FileWhole
    /\ gen = "cases" => FileWhole
    /\ summaryFile = None \/ summaryFile = Partial \/ summaryFile = Observations(dataset)
    /\ ver = "report" => got = Observations(dataset)
    /\ VerifiedIsWhole

LEMMA InitStudyInv == StudyInit => StudyInv
<1> SUFFICES ASSUME StudyInit PROVE StudyInv
  OBVIOUS
<1>1. /\ gen = "idle" /\ ver = "idle" /\ casesFile = None /\ summaryFile = None /\ verdict = None
      /\ VerifiedIsWhole
  BY DEF StudyInit, VerifiedIsWhole
<1>2. CASE Init /\ dataset = None
  <2>1. BatchInv
    BY <1>2, InitBatchInv
  <2> QED BY <1>1, <1>2, <2>1 DEF StudyInv
<1>3. CASE /\ dataset \in Datasets
           /\ cases = <<>> /\ max \in MaxExamples /\ reports = <<>> /\ batch = None
  <2>1. 0 \in 0 .. Len(CasesOf(dataset)) /\ cases = SubSeq(CasesOf(dataset), 1, 0)
    <3>1. Len(CasesOf(dataset)) \in Nat
      BY <1>3, DatasetCases
    <3>2. SubSeq(CasesOf(dataset), 1, 0) = <<>>
      BY <1>3, DatasetCases
    <3> QED BY <1>3, <3>1, <3>2
  <2>2. cases \in Seq(Range(cases)) /\ \A c \in Range(cases) : WellFormed(c)
    BY <1>3, <2>1, DatasetCases, PrefixIsBatch
  <2>3. max \in Nat
    BY <1>3, MaxExamplesAssumption
  <2>4. BatchInv
    BY <1>3, <2>2, <2>3, NothingAudited DEF Unaudited
  <2> QED BY <1>1, <1>3, <2>1, <2>4 DEF StudyInv
<1> QED BY <1>2, <1>3 DEF StudyInit

(* What a step that leaves the batch, the dataset and the verdict alone keeps *)
LEMMA SameBatch ==
    ASSUME StudyInv, UNCHANGED <<vars, dataset>>
    PROVE  /\ BatchInv' /\ (dataset = None \/ dataset \in Datasets)'
           /\ (dataset # None =>
                 \E n \in 0 .. Len(CasesOf(dataset)) : cases = SubSeq(CasesOf(dataset), 1, n))'
<1>1. UNCHANGED vars /\ cases' = cases /\ dataset' = dataset
  BY DEF vars
<1>2. BatchInv'
  BY <1>1, SameBatchInv DEF StudyInv
<1> QED BY <1>1, <1>2 DEF StudyInv

LEMMA SameVerdict ==
    ASSUME StudyInv, UNCHANGED <<dataset, verdict>>
    PROVE  VerifiedIsWhole'
BY DEF StudyInv, VerifiedIsWhole

LEMMA SameFile ==
    ASSUME StudyInv, UNCHANGED <<dataset, casesFile>>
    PROVE  /\ (casesFile = None \/ FileWhole)'
           /\ gen = "cases" => FileWhole'
BY DEF StudyInv, FileWhole

LEMMA OpenCasesInv == ASSUME StudyInv, OpenCases PROVE StudyInv'
<1>1. /\ dataset # None /\ casesFile' = [rows |-> 0, torn |-> FALSE]
      /\ UNCHANGED <<vars, dataset>> /\ UNCHANGED <<dataset, verdict>>
      /\ dataset' = dataset /\ summaryFile' = summaryFile /\ ver' = ver /\ got' = got
  BY DEF OpenCases
<1>2. FileWhole'
  <2>1. dataset \in Datasets
    BY <1>1 DEF StudyInv
  <2>2. 0 \in 0 .. Len(CasesOf(dataset))
    BY <2>1, DatasetCases
  <2> QED BY <1>1, <2>1, <2>2 DEF FileWhole
<1>3. VerifiedIsWhole'
  BY <1>1, SameVerdict
<1> QED BY <1>1, <1>2, <1>3, SameBatch DEF StudyInv

LEMMA FlushCasesInv == ASSUME StudyInv, FlushCases PROVE StudyInv'
<1>1. /\ gen = "cases" /\ casesFile.rows < Len(CasesOf(dataset))
      /\ casesFile' = IF casesFile.torn THEN [rows |-> casesFile.rows + 1, torn |-> FALSE]
                      ELSE [casesFile EXCEPT !.torn = TRUE]
      /\ UNCHANGED <<vars, dataset>> /\ UNCHANGED <<dataset, verdict>>
      /\ dataset' = dataset /\ summaryFile' = summaryFile /\ ver' = ver /\ got' = got
  BY DEF FlushCases
<1>2. FileWhole'
  <2> DEFINE n == Len(CasesOf(dataset))
  <2>1. dataset \in Datasets /\ casesFile \in [rows : 0 .. n, torn : BOOLEAN] /\ n \in Nat
    BY <1>1, DatasetCases DEF StudyInv, FileWhole
  <2>2. casesFile' \in [rows : 0 .. n, torn : BOOLEAN]
    <3> HIDE DEF n
    <3>0. casesFile.rows < n
      BY <1>1 DEF n
    <3>1. [rows |-> casesFile.rows + 1, torn |-> FALSE] \in [rows : 0 .. n, torn : BOOLEAN]
      <4>1. casesFile.rows \in 0 .. n
        BY <2>1
      <4>2. casesFile.rows + 1 \in 0 .. n
        BY <2>1, <3>0, <4>1
      <4> QED BY <4>2
    <3>2. [casesFile EXCEPT !.torn = TRUE] \in [rows : 0 .. n, torn : BOOLEAN]
      BY <2>1
    <3> QED BY <1>1, <3>1, <3>2
  <2> QED BY <1>1, <2>1, <2>2 DEF FileWhole
<1>3. VerifiedIsWhole'
  BY <1>1, SameVerdict
<1> QED BY <1>1, <1>2, <1>3, SameBatch DEF StudyInv

LEMMA OpenSummaryInv == ASSUME StudyInv, OpenSummary PROVE StudyInv'
<1>1. /\ gen' # "cases"
      /\ summaryFile' = Partial \/ summaryFile' = summaryFile
      /\ UNCHANGED <<vars, dataset>> /\ UNCHANGED <<dataset, verdict>>
      /\ UNCHANGED <<dataset, casesFile>>
      /\ dataset' = dataset /\ ver' = ver /\ got' = got
  BY DEF OpenSummary
<1>2. VerifiedIsWhole'
  BY <1>1, SameVerdict
<1> QED BY <1>1, <1>2, SameBatch, SameFile DEF StudyInv

LEMMA WriteSummaryInv == ASSUME StudyInv, WriteSummary PROVE StudyInv'
<1>1. /\ gen' = "idle" /\ summaryFile' = Observations(dataset)
      /\ UNCHANGED <<vars, dataset>> /\ UNCHANGED <<dataset, verdict>>
      /\ UNCHANGED <<dataset, casesFile>>
      /\ dataset' = dataset /\ ver' = ver /\ got' = got
  BY DEF WriteSummary
<1>2. VerifiedIsWhole'
  BY <1>1, SameVerdict
<1> QED BY <1>1, <1>2, SameBatch, SameFile DEF StudyInv

LEMMA ReadCasesInv == ASSUME StudyInv, ReadCases PROVE StudyInv'
<1>1. /\ dataset # None /\ casesFile # None
      /\ cases' = SubSeq(CasesOf(dataset), 1, casesFile.rows)
      /\ reports' = <<>> /\ batch' = None /\ max' = max
      /\ UNCHANGED <<dataset, verdict>> /\ UNCHANGED <<dataset, casesFile>>
      /\ dataset' = dataset /\ summaryFile' = summaryFile /\ gen' = gen /\ ver' = ver /\ got' = got
  BY DEF ReadCases, Readable
<1> DEFINE n == casesFile.rows
<1>2. dataset \in Datasets /\ n \in 0 .. Len(CasesOf(dataset))
  BY <1>1 DEF StudyInv, FileWhole
<1>3. BatchInv'
  <2>1. cases' \in Seq(Range(cases')) /\ \A c \in Range(cases') : WellFormed(c)
    BY <1>1, <1>2, PrefixIsBatch
  <2>2. max' \in Nat
    BY <1>1 DEF StudyInv, BatchInv
  <2>3. (Unaudited => BatchInv)'
    BY NothingAudited, PTL
  <2>4. Unaudited'
    BY <1>1, <2>1, <2>2 DEF Unaudited
  <2> QED BY <2>3, <2>4
<1>4. VerifiedIsWhole'
  BY <1>1, SameVerdict
<1>5. \E k \in 0 .. Len(CasesOf(dataset')) : cases' = SubSeq(CasesOf(dataset'), 1, k)
  BY <1>1, <1>2
<1> QED BY <1>1, <1>2, <1>3, <1>4, <1>5, SameFile DEF StudyInv

LEMMA AuditInv == ASSUME StudyInv, Audit PROVE StudyInv'
<1>1. /\ Next
      /\ UNCHANGED <<dataset, verdict>> /\ UNCHANGED <<dataset, casesFile>>
      /\ dataset' = dataset /\ summaryFile' = summaryFile /\ gen' = gen /\ ver' = ver /\ got' = got
  BY DEF Audit, studyVars
<1>2. BatchInv'
  BY <1>1, NextBatchInv DEF StudyInv
<1>3. cases' = cases
  BY <1>1 DEF Next, AuditNext, Aggregate, Done, vars
<1>4. VerifiedIsWhole'
  BY <1>1, SameVerdict
<1> QED BY <1>1, <1>2, <1>3, <1>4, SameFile DEF StudyInv

LEMMA ReadSummaryInv == ASSUME StudyInv, ReadSummary PROVE StudyInv'
<1>1. /\ summaryFile # None /\ summaryFile # Partial /\ got' = summaryFile /\ verdict' = None
      /\ UNCHANGED <<vars, dataset>> /\ UNCHANGED <<dataset, casesFile>>
      /\ dataset' = dataset /\ gen' = gen /\ summaryFile' = summaryFile
  BY DEF ReadSummary
<1>2. VerifiedIsWhole'
  BY <1>1 DEF VerifiedIsWhole
<1> QED BY <1>1, <1>2, SameBatch, SameFile DEF StudyInv

(* The counts that are registered are those of the dataset when the        *)
(* summary of the dataset is the registered one.                           *)
LEMMA VerifyInv == ASSUME StudyInv, Verify PROVE StudyInv'
<1>1. /\ ver = "report" /\ ver' = "idle"
      /\ verdict' = IF reportFile \in {None, Partial} THEN [code |-> 1, report |-> None]
                    ELSE [code |-> IF VerifySummary(got) /\ VerifyReport(reportFile) THEN 0 ELSE 1,
                          report |-> reportFile]
      /\ UNCHANGED <<vars, dataset>> /\ UNCHANGED <<dataset, casesFile>>
      /\ dataset' = dataset /\ gen' = gen /\ summaryFile' = summaryFile
  BY DEF Verify
<1>2. VerifiedIsWhole'
  <2> SUFFICES ASSUME verdict' # None, verdict'.code = 0
               PROVE  /\ verdict'.report.total = Len(Compared(dataset))
                      /\ verdict'.report.counts["EF105"] = Observations(dataset).mismatches
    BY <1>1 DEF VerifiedIsWhole
  <2>1. reportFile \notin {None, Partial} /\ verdict'.report = reportFile
          /\ VerifySummary(got) /\ VerifyReport(reportFile)
    BY <1>1
  <2>2. Observations(dataset) = Observations(Registered)
    BY <1>1, <2>1 DEF StudyInv, VerifySummary
  <2>3. reportFile.total = Observations(dataset).cases
          /\ reportFile.counts["EF105"] = Observations(dataset).mismatches
    BY <2>1, <2>2 DEF VerifyReport, ExpectedCounts, Codes
  <2>4. Observations(dataset).cases = Len(Compared(dataset))
    BY DEF Observations
  <2> QED BY <2>1, <2>3, <2>4
<1> QED BY <1>1, <1>2, SameBatch, SameFile DEF StudyInv

(* The steps that open and write the report, or stop a program *)
LEMMA OtherStepsInv ==
    ASSUME StudyInv, UNCHANGED <<vars, dataset, casesFile, summaryFile, got, verdict>>,
           gen' = gen \/ gen' = "idle", ver' = ver \/ ver' = "idle"
    PROVE  StudyInv'
<1>1. /\ UNCHANGED <<vars, dataset>> /\ UNCHANGED <<dataset, verdict>>
      /\ UNCHANGED <<dataset, casesFile>>
      /\ dataset' = dataset /\ summaryFile' = summaryFile /\ got' = got
  OBVIOUS
<1>2. VerifiedIsWhole'
  BY <1>1, SameVerdict
<1> QED BY <1>1, <1>2, SameBatch, SameFile DEF StudyInv

LEMMA NextStudyInv == StudyInv /\ [StudyNext]_<<vars, studyVars>> => StudyInv'
<1> SUFFICES ASSUME StudyInv, [StudyNext]_<<vars, studyVars>> PROVE StudyInv'
  OBVIOUS
<1>1. CASE OpenReport \/ WriteReport
  BY <1>1, OtherStepsInv DEF OpenReport, WriteReport
<1>2. CASE Kill
  BY <1>2, OtherStepsInv DEF Kill
<1>3. CASE UNCHANGED <<vars, studyVars>>
  BY <1>3, OtherStepsInv DEF studyVars
<1> QED BY <1>1, <1>2, <1>3, OpenCasesInv, FlushCasesInv, OpenSummaryInv, WriteSummaryInv,
           ReadCasesInv, AuditInv, ReadSummaryInv, VerifyInv DEF StudyNext

(* As many pairs as there are first elements *)
LEMMA TaggedSize ==
    ASSUME NEW M, IsFiniteSet(M), NEW w
    PROVE  Cardinality({<<j, w>> : j \in M}) = Cardinality(M)
<1> DEFINE T == {<<j, w>> : j \in M}
           f == [j \in M |-> <<j, w>>]
<1>1. f \in Bijection(M, T)
  <2>1. f \in [M -> T]
    OBVIOUS
  <2>2. \A j, k \in M : f[j] = f[k] => j = k
    OBVIOUS
  <2>3. \A t \in T : \E j \in M : f[j] = t
    OBVIOUS
  <2> HIDE DEF f, T
  <2> QED BY <2>1, <2>2, <2>3 DEF Bijection, Injection, Surjection, IsInjective
<1> HIDE DEF f, T
<1>2. Cardinality(T) = Cardinality(M)
  BY <1>1, FS_Bijection DEF ExistsBijection
<1> QED BY <1>2 DEF T

(* Of the cases of the rows a batch is of, the findings of every row *)
LEMMA BatchOfRows ==
    ASSUME StudyInv, dataset # None, batch # None
    PROVE  LET n == batch.total
               audited == SubSeq(Compared(dataset), 1, n)
           IN  /\ n \in Nat /\ Len(reports) = n /\ DOMAIN reports = 1 .. n
               /\ batch.counts = [code \in AllCodes |-> CountOf(code)]
               /\ audited = [i \in 1 .. n |-> audited[i]]
               /\ \A i \in 1 .. n :
                    /\ RowWellFormed(audited[i]) /\ RawSize(audited[i].patch) # 0
                    /\ reports[i].findings = GoldAsPrediction \cup CompareFindings(CaseOf(audited[i]))
<1> DEFINE m == batch.total
           d == Compared(dataset)
           list == SubSeq(d, 1, m)
<1>1. dataset \in Datasets
  BY DEF StudyInv
<1>2. PICK n \in 0 .. Len(CasesOf(dataset)) : cases = SubSeq(CasesOf(dataset), 1, n)
  BY DEF StudyInv
<1>3. /\ Len(cases) = n
      /\ \A i \in 1 .. n : cases[i] = CaseOf(d[i])
  BY <1>1, <1>2, PrefixIsBatch
<1>4. /\ batch = Totals /\ Len(reports) = Len(cases) /\ DOMAIN reports = 1 .. Len(reports)
      /\ \A i \in 1 .. Len(reports) : reports[i] = AuditCase(cases[i])
  BY DEF StudyInv, BatchInv
<1>5. m = n /\ batch.counts = [code \in AllCodes |-> CountOf(code)]
  BY <1>3, <1>4 DEF Totals
<1>6. /\ Len(d) \in Nat /\ DOMAIN d = 1 .. Len(d) /\ n \in 0 .. Len(d) /\ d \in Seq(Range(dataset))
      /\ \A k \in 1 .. Len(d) : RowWellFormed(d[k]) /\ RawSize(d[k].patch) # 0
  <2>1. Len(CasesOf(dataset)) = Len(d)
    BY <1>1, DatasetCases
  <2> HIDE DEF d
  <2> QED BY <1>1, <2>1, ComparedRows DEF d
<1> HIDE DEF d, m
<1>7. list = [i \in 1 .. n |-> d[i]]
  BY <1>5, <1>6
<1> HIDE DEF list
<1>8. \A i \in 1 .. n : list[i] = d[i] /\ i \in 1 .. Len(d)
  BY <1>6, <1>7
<1>9. list = [i \in 1 .. n |-> list[i]]
  BY <1>7
<1>10. ASSUME NEW i \in 1 .. n
       PROVE  /\ RowWellFormed(list[i]) /\ RawSize(list[i].patch) # 0
              /\ reports[i].findings = GoldAsPrediction \cup CompareFindings(CaseOf(list[i]))
  <2>1. RowWellFormed(list[i]) /\ RawSize(list[i].patch) # 0
    BY <1>6, <1>8
  <2>2. reports[i] = AuditCase(CaseOf(list[i]))
    BY <1>3, <1>4, <1>8
  <2> QED BY <2>1, <2>2, RowFindings
<1> QED BY <1>3, <1>4, <1>5, <1>6, <1>9, <1>10 DEF m, list, d

LEMMA InAllFindings ==
    ASSUME NEW i \in DOMAIN reports, NEW f \in reports[i].findings
    PROVE  <<i, f>> \in AllFindings /\ f[1] \in AllCodes
<1>1. <<i, f>> \in {i} \X reports[i].findings
  OBVIOUS
<1>2. <<i, f>> \in AllFindings
  BY <1>1 DEF AllFindings
<1> QED BY <1>2 DEF AllCodes

LEMMA OfAllFindings ==
    ASSUME NEW p \in AllFindings
    PROVE  \E i \in DOMAIN reports : \E f \in reports[i].findings : p = <<i, f>>
BY DEF AllFindings

(* A code that one finding may have, counted *)
LEMMA CountedOnce ==
    ASSUME NEW n \in Nat, DOMAIN reports = 1 .. n, NEW w, NEW M \in SUBSET (1 .. n),
           \A i \in 1 .. n : w \in reports[i].findings <=> i \in M,
           \A i \in 1 .. n : \A f \in reports[i].findings : f[1] = w[1] => f = w
    PROVE  (IF w[1] \in AllCodes THEN CountOf(w[1]) ELSE 0) = Cardinality(M)
<1> DEFINE T == {<<j, w>> : j \in M}
           U == {p \in AllFindings : p[2][1] = w[1]}
<1>1. T = U
  <2>1. ASSUME NEW p \in T PROVE p \in U
    <3>1. PICK i \in M : p = <<i, w>>
      OBVIOUS
    <3>2. p \in AllFindings
      BY <3>1, InAllFindings
    <3> QED BY <3>1, <3>2
  <2>2. ASSUME NEW p \in U PROVE p \in T
    <3>1. PICK i \in DOMAIN reports : \E f \in reports[i].findings : p = <<i, f>>
      BY OfAllFindings
    <3>2. PICK f \in reports[i].findings : p = <<i, f>>
      BY <3>1
    <3>3. f[1] = w[1]
      BY <3>2
    <3>4. f = w
      BY <3>3
    <3>5. i \in M
      BY <3>4
    <3> QED BY <3>2, <3>4, <3>5
  <2> QED BY <2>1, <2>2
<1>2. IsFiniteSet(M) /\ Cardinality(T) = Cardinality(M)
  <2>1. IsFiniteSet(1 .. n)
    BY FS_Interval
  <2>2. IsFiniteSet(M)
    BY <2>1, FS_Subset
  <2> QED BY <2>2, TaggedSize
<1>3. CountOf(w[1]) = Cardinality(U)
  BY DEF CountOf
<1>4. w[1] \notin AllCodes => U = {}
  BY DEF AllCodes
<1>5. Cardinality({}) = 0
  BY FS_EmptySet
<1> HIDE DEF T, U
<1> QED BY <1>1, <1>2, <1>3, <1>4, <1>5

LEMMA StudyCounts == ASSUME StudyInv PROVE CountsAgree
<1> SUFFICES ASSUME dataset # None, batch # None
             PROVE  LET audited == SubSeq(Compared(dataset), 1, batch.total)
                    IN  /\ DOMAIN batch.counts \subseteq Codes
                             <=> \A row \in Range(audited) : SetLike(row)
                        /\ DOMAIN batch.counts \subseteq Codes =>
                             \A code \in Codes :
                               (IF code \in DOMAIN batch.counts THEN batch.counts[code] ELSE 0)
                                 = IF code = "EF105" THEN Observations(audited).mismatches
                                   ELSE batch.total
  BY DEF CountsAgree
<1> DEFINE n == batch.total
           audited == SubSeq(Compared(dataset), 1, n)
           Count(code) == IF code \in AllCodes THEN CountOf(code) ELSE 0
<1>1. /\ n \in Nat /\ DOMAIN reports = 1 .. n
      /\ batch.counts = [code \in AllCodes |-> CountOf(code)]
      /\ audited = [i \in 1 .. n |-> audited[i]]
      /\ \A i \in 1 .. n :
           /\ RowWellFormed(audited[i]) /\ RawSize(audited[i].patch) # 0
           /\ reports[i].findings = GoldAsPrediction \cup CompareFindings(CaseOf(audited[i]))
  BY BatchOfRows
<1> HIDE DEF n, audited
<1>2. Range(audited) = {audited[i] : i \in 1 .. n}
  BY <1>1 DEF Range
<1>3. DOMAIN batch.counts = AllCodes
  BY <1>1
<1>4. (\A row \in Range(audited) : SetLike(row)) <=> \A i \in 1 .. n : SetLike(audited[i])
  BY <1>2
<1>5. ASSUME NEW i \in 1 .. n, ~SetLike(audited[i])
      PROVE  ~(AllCodes \subseteq Codes)
  <2>1. PICK code \in {"EF101", "EF102", "EF103"} : <<code, 0>> \in CompareFindings(CaseOf(audited[i]))
    BY <1>1, <1>5, SizesFound
  <2>2. <<code, 0>> \in reports[i].findings
    BY <1>1, <2>1
  <2>3. code \in AllCodes
    <3>1. <<code, 0>>[1] \in AllCodes
      BY <1>1, <2>2, InAllFindings
    <3> QED BY <3>1
  <2> QED BY <2>3 DEF Codes
<1>6. ASSUME \A i \in 1 .. n : SetLike(audited[i])
      PROVE  /\ AllCodes \subseteq Codes
             /\ \A code \in Codes :
                  Count(code) = IF code = "EF105" THEN Observations(audited).mismatches ELSE n
  <2> DEFINE L == Label(Fallback)
             M == {i \in 1 .. n : Mismatch(audited[i])}
  <2>1. ASSUME NEW i \in 1 .. n
        PROVE  reports[i].findings = {<<"EF001", "materialized">>, <<"EF002", L>>, <<"EF005", L>>}
                                       \cup (IF i \in M THEN {<<"EF105", 0>>} ELSE {})
    BY <1>1, <1>6, SetLikeFound DEF GoldAsPrediction, When
  <2> HIDE DEF L, M
  <2>2. AllCodes \subseteq Codes
    <3> SUFFICES ASSUME NEW p \in AllFindings PROVE p[2][1] \in Codes
      BY DEF AllCodes
    <3>1. PICK i \in DOMAIN reports : \E f \in reports[i].findings : p = <<i, f>>
      BY OfAllFindings
    <3>2. PICK f \in reports[i].findings : p = <<i, f>>
      BY <3>1
    <3>3. i \in 1 .. n
      BY <1>1
    <3>4. f[1] \in {"EF001", "EF002", "EF005", "EF105"}
      BY <2>1, <3>3
    <3> QED BY <3>2, <3>4 DEF Codes
  <2>3. Cardinality(1 .. n) = n
    BY <1>1, SizeUpTo
  <2>9. ASSUME NEW K \in SUBSET (1 .. n), NEW w,
               \A i \in 1 .. n : w \in reports[i].findings <=> i \in K,
               \A i \in 1 .. n : \A f \in reports[i].findings : f[1] = w[1] => f = w
        PROVE  Count(w[1]) = Cardinality(K)
    <3>1. n \in Nat /\ DOMAIN reports = 1 .. n
      BY <1>1
    <3> QED BY <2>9, <3>1, CountedOnce
  <2>4. Count("EF001") = n
    <3> DEFINE w == <<"EF001", "materialized">>
    <3>1. \A i \in 1 .. n : w \in reports[i].findings <=> i \in 1 .. n
      BY <2>1
    <3>2. \A i \in 1 .. n : \A f \in reports[i].findings : f[1] = w[1] => f = w
      BY <2>1
    <3>3. 1 .. n \in SUBSET (1 .. n) /\ w[1] = "EF001"
      OBVIOUS
    <3> HIDE DEF w
    <3>4. Count(w[1]) = Cardinality(1 .. n)
      BY <2>9, <3>1, <3>2, <3>3
    <3> QED BY <2>3, <3>3, <3>4
  <2>5. Count("EF002") = n
    <3> DEFINE w == <<"EF002", L>>
    <3>1. \A i \in 1 .. n : w \in reports[i].findings <=> i \in 1 .. n
      BY <2>1
    <3>2. \A i \in 1 .. n : \A f \in reports[i].findings : f[1] = w[1] => f = w
      BY <2>1
    <3>3. 1 .. n \in SUBSET (1 .. n) /\ w[1] = "EF002"
      OBVIOUS
    <3> HIDE DEF w
    <3>4. Count(w[1]) = Cardinality(1 .. n)
      BY <2>9, <3>1, <3>2, <3>3
    <3> QED BY <2>3, <3>3, <3>4
  <2>6. Count("EF005") = n
    <3> DEFINE w == <<"EF005", L>>
    <3>1. \A i \in 1 .. n : w \in reports[i].findings <=> i \in 1 .. n
      BY <2>1
    <3>2. \A i \in 1 .. n : \A f \in reports[i].findings : f[1] = w[1] => f = w
      BY <2>1
    <3>3. 1 .. n \in SUBSET (1 .. n) /\ w[1] = "EF005"
      OBVIOUS
    <3> HIDE DEF w
    <3>4. Count(w[1]) = Cardinality(1 .. n)
      BY <2>9, <3>1, <3>2, <3>3
    <3> QED BY <2>3, <3>3, <3>4
  <2>7. Count("EF105") = Cardinality(M)
    <3> DEFINE w == <<"EF105", 0>>
    <3>1. \A i \in 1 .. n : w \in reports[i].findings <=> i \in M
      BY <2>1
    <3>2. \A i \in 1 .. n : \A f \in reports[i].findings : f[1] = w[1] => f = w
      BY <2>1
    <3>3. M \in SUBSET (1 .. n) /\ w[1] = "EF105"
      BY DEF M
    <3> HIDE DEF w
    <3>4. Count(w[1]) = Cardinality(M)
      BY <2>9, <3>1, <3>2, <3>3
    <3> QED BY <3>3, <3>4
  <2>8. Observations(audited).mismatches = Cardinality(M)
    <3>1. Compared(audited) = audited
      BY <1>1, ComparedAgain
    <3>2. Observations(audited).mismatches
            = Cardinality({i \in DOMAIN Compared(audited) : Mismatch(Compared(audited)[i])})
      BY DEF Observations, CountRows
    <3>3. DOMAIN audited = 1 .. n
      BY <1>1
    <3> QED BY <3>1, <3>2, <3>3 DEF M
  <2> HIDE DEF Count
  <2> QED BY <2>2, <2>4, <2>5, <2>6, <2>7, <2>8 DEF Codes
<1>7. \A code \in AllCodes : batch.counts[code] = CountOf(code)
  BY <1>1
<1>8. \A code : (IF code \in AllCodes THEN batch.counts[code] ELSE 0) = Count(code)
  BY <1>7
<1> HIDE DEF Count
<1> QED BY <1>3, <1>4, <1>5, <1>6, <1>8 DEF n, audited

LEMMA StudyInvariant == StudySpec => []StudyInv
<1> QED BY InitStudyInv, NextStudyInv, PTL DEF StudySpec

(* A case passes exactly when it keeps its contract: audit_case has no     *)
(* early return and no null metric that lets one through.  The metrics and *)
(* the tolerance are compared as rational numbers.                         *)
THEOREM PassesMeanContract == StudySpec => []PassMeansContract
<1>1. StudyInv => PassMeansContract
  BY BatchPasses DEF StudyInv
<1> QED BY <1>1, StudyInvariant, PTL

(* The metrics of a report, before f64 rounds them, are the ones of the    *)
(* reference definition, and missing exactly when the evidence does not    *)
(* determine them.                                                         *)
THEOREM MetricsAreExact == StudySpec => []MetricsExact
<1>1. StudyInv => MetricsExact
  BY BatchMetrics DEF StudyInv
<1> QED BY <1>1, StudyInvariant, PTL

(* No failing case is hidden behind the bound on the examples, and every   *)
(* finding is counted once.                                                *)
THEOREM FailuresAreCounted == StudySpec => []FailuresAccountedFor
<1>1. StudyInv => FailuresAccountedFor
  BY BatchFailures DEF StudyInv
<1> QED BY <1>1, StudyInvariant, PTL

(* The recall mismatches of the adapter's list arithmetic are evalfence's  *)
(* EF105 findings exactly on the rows whose ranges are sets.               *)
THEOREM StudyCountsAgree == StudySpec => []CountsAgree
<1>1. StudyInv => CountsAgree
  BY StudyCounts
<1> QED BY <1>1, StudyInvariant, PTL

(* Whatever is started, killed and started again meanwhile, the verifier   *)
(* passes the report of a whole dataset only.                              *)
THEOREM VerifierSeesWhole == StudySpec => []VerifiedIsWhole
<1>1. StudyInv => VerifiedIsWhole
  BY DEF StudyInv
<1> QED BY <1>1, StudyInvariant, PTL

-----------------------------------------------------------------------------
(* The checkout. *)

(* What the labels tell: HEAD, the status and the files as they were       *)
(* looked at hold on while nobody else is at work; the output of the       *)
(* STATE-Bench generator is known to be outside before anything is looked  *)
(* at; and a blob that got past its hash is the registered one, whatever   *)
(* HEAD is now.                                                            *)
Verifying == {"files", "blob", "tree"}

Checked ==
    /\ pc \in {"head", "status", "import", "write", "ended"} \cup Verifying
    /\ study = "statebench" /\ pc \in {"status", "import", "write"} \cup Verifying
         => target = "outside"
    /\ ~disturbed /\ pc \in {"status", "import"} \cup Verifying => head
    /\ ~disturbed /\ pc \in {"import"} \cup Verifying => Clean
    /\ ~disturbed /\ pc \in {"head", "status", "import"} \cup Verifying =>
         \A f \in ExpectedFiles \ todo : tree[f] \in Accepted(f)
    /\ pc = "import" => todo = {}
    /\ ~alien

CheckoutInv == TypeOK /\ Checked /\ ParsedIsRegistered /\ ImportedIsRegistered

LEMMA InitCheckoutInv == CheckoutInit => CheckoutInv
<1> SUFFICES ASSUME CheckoutInit PROVE CheckoutInv
  OBVIOUS
<1>1. TypeOK
  BY DEF CheckoutInit, TypeOK
<1>2. Checked
  BY DEF CheckoutInit, Checked, Verifying
<1>3. ParsedIsRegistered /\ ImportedIsRegistered
  BY DEF CheckoutInit, ParsedIsRegistered, ImportedIsRegistered
<1> QED BY <1>1, <1>2, <1>3 DEF CheckoutInv

LEMMA NextCheckoutInv == CheckoutInv /\ [CheckoutNext]_checkoutVars => CheckoutInv'
<1> SUFFICES ASSUME CheckoutInv, [CheckoutNext]_checkoutVars PROVE CheckoutInv'
  OBVIOUS
<1> USE DEF CheckoutInv
<1>1. CASE CheckHead
  BY <1>1 DEF CheckHead, TargetAllowed, End, checkout, TypeOK, Checked, Clean,
              Verifying, Unchanged, Accepted, ParsedIsRegistered, ImportedIsRegistered
<1>2. CASE CheckStatus
  BY <1>2 DEF CheckStatus, End, checkout, TypeOK, Checked, Clean,
              Verifying, Unchanged, Accepted, ParsedIsRegistered, ImportedIsRegistered
<1>3. CASE LookUp
  <2>1. PICK f \in todo : \/ current' = {f} /\ pc' = "blob" /\ UNCHANGED passed
                          \/ End(FALSE) /\ UNCHANGED current
    BY <1>3 DEF LookUp
  <2>2. pc = "files" /\ UNCHANGED <<study, target, todo, alien, parsed, loaded, disturbed, checkout>>
    BY <1>3 DEF LookUp
  <2>3. TypeOK'
    BY <2>1, <2>2 DEF TypeOK, checkout, End
  <2>4. Checked'
    BY <2>1, <2>2 DEF Checked, Verifying, Clean, Unchanged, Accepted, checkout, End
  <2> QED BY <2>2, <2>3, <2>4 DEF ParsedIsRegistered, ImportedIsRegistered
<1>4. CASE Extract
  <2>1. \/ ~alien' /\ alien' \in BOOLEAN /\ pc' = "tree" /\ UNCHANGED passed
        \/ End(FALSE) /\ UNCHANGED alien
    <3>1. PICK f \in current :
            IF f \notin blobs THEN alien' = (f \in blobs) /\ pc' = "tree" /\ UNCHANGED passed
                              ELSE End(FALSE) /\ UNCHANGED alien
      BY <1>4 DEF Extract, HashRegistered
    <3>2. CASE f \notin blobs
      <4>1. (f \in blobs) = FALSE
        BY <3>2
      <4>2. alien' = FALSE
        BY <3>1, <3>2, <4>1, Zenon
      <4> QED BY <3>1, <3>2, <4>2
    <3> QED BY <3>1, <3>2
  <2>2. /\ pc = "blob"
        /\ UNCHANGED <<study, target, todo, current, parsed, loaded, disturbed, checkout>>
    BY <1>4 DEF Extract
  <2>3. TypeOK'
    BY <2>1, <2>2 DEF TypeOK, checkout, End
  <2>4. Checked'
    BY <2>1, <2>2 DEF Checked, Verifying, Clean, Unchanged, Accepted, checkout, End
  <2> QED BY <2>2, <2>3, <2>4 DEF ParsedIsRegistered, ImportedIsRegistered
<1>5. CASE Compare
  <2>1. PICK f \in current : \/ /\ tree[f] \in Accepted(f)
                                /\ todo' = todo \ {f} /\ current' = {}
                                /\ pc' = "files" /\ UNCHANGED <<parsed, passed>>
                             \/ End(FALSE) /\ UNCHANGED <<todo, current, parsed>>
    BY <1>5 DEF Compare, Checked
  <2>2. pc = "tree" /\ UNCHANGED <<study, target, alien, loaded, disturbed, checkout>>
    BY <1>5 DEF Compare
  <2>3. UNCHANGED tree /\ \A g : Accepted(g)' = Accepted(g)
    BY <2>2 DEF checkout, Accepted
  <2>4. TypeOK'
    BY <2>1, <2>2 DEF TypeOK, checkout, End
  <2>5. ~disturbed' /\ pc' = "files" =>
          \A g \in ExpectedFiles \ todo' : tree'[g] \in Accepted(g)'
    <3> SUFFICES ASSUME ~disturbed, pc' = "files", NEW g \in ExpectedFiles \ todo'
                 PROVE tree[g] \in Accepted(g)
      BY <2>2, <2>3
    <3>1. g = f \/ g \in ExpectedFiles \ todo
      BY <2>1 DEF End
    <3>2. CASE g = f
      BY <2>1, <3>2 DEF End
    <3>3. CASE g \in ExpectedFiles \ todo
      BY <2>2, <3>3 DEF Checked, Verifying
    <3> QED BY <3>1, <3>2, <3>3
  <2>6. Checked'
    BY <2>1, <2>2, <2>5 DEF Checked, Verifying, Clean, Unchanged, checkout, End
  <2> QED BY <2>1, <2>2, <2>4, <2>6 DEF ParsedIsRegistered, ImportedIsRegistered
<1>6. CASE EndFiles
  BY <1>6 DEF EndFiles, checkout, TypeOK, Checked, Verifying, Clean, Unchanged, Accepted,
              ParsedIsRegistered, ImportedIsRegistered
<1>7. CASE Import
  <2>1. ~disturbed => loaded' = {}
    <3> SUFFICES ASSUME ~disturbed, NEW f \in Tracked PROVE tree[f] \in Accepted(f)
      BY <1>7 DEF Import
    <3>1. head /\ blobs = {} /\ Clean /\ todo = {}
      BY <1>7 DEF Import, Checked, TypeOK
    <3>2. CASE f \in ExpectedFiles
      BY <1>7, <3>1, <3>2 DEF Import, Checked
    <3>3. CASE f \notin ExpectedFiles
      <4>1. f \notin BinaryFiles
        BY <3>3, FilesAssumption
      <4> QED BY <3>1, <4>1 DEF Clean, Unchanged, Accepted
    <3> QED BY <3>2, <3>3
  <2>2. TypeOK'
    BY <1>7 DEF Import, TypeOK
  <2>3. Checked'
    BY <1>7 DEF Import, Checked, Verifying
  <2> QED BY <1>7, <2>1, <2>2, <2>3 DEF Import, ParsedIsRegistered, ImportedIsRegistered
<1>8. CASE WriteOutput
  BY <1>8 DEF WriteOutput, End, TypeOK, Checked, Verifying, ParsedIsRegistered, ImportedIsRegistered
<1>9. CASE Again
  BY <1>9 DEF Again, checkout, TypeOK, Checked, Verifying, ParsedIsRegistered, ImportedIsRegistered
<1>10. CASE Disturb
  <2>1. UNCHANGED program /\ disturbed'
    BY <1>10 DEF Disturb
  <2>2. /\ head' \in BOOLEAN /\ blobs' \subseteq Tracked /\ (head' => blobs' = {})
        /\ residue' \subseteq {"bytecode", "output", "other"}
    <3>1. CASE head' \in BOOLEAN /\ blobs' \in SUBSET Tracked /\ (head' => blobs' = {})
               /\ residue' = residue
      BY <3>1 DEF TypeOK
    <3>2. CASE UNCHANGED <<head, blobs, residue>>
      BY <3>2 DEF TypeOK
    <3>3. CASE residue' \in {{}, {"other"}} /\ UNCHANGED <<head, blobs>>
      <4>1. residue' \subseteq {"bytecode", "output", "other"}
        BY <3>3, Zenon
      <4> QED BY <3>3, <4>1 DEF TypeOK
    <3> QED BY <1>10, <3>1, <3>2, <3>3, Zenon DEF Disturb
  <2>3. tree' \in [Tracked -> Contents]
    BY <1>10 DEF Disturb, TypeOK
  <2>4. TypeOK'
    BY <1>10, <2>1, <2>2, <2>3 DEF Disturb, program, TypeOK
  <2> QED BY <2>1, <2>4 DEF program, Checked, Verifying, ParsedIsRegistered, ImportedIsRegistered
<1>11. CASE UNCHANGED checkoutVars
  BY <1>11 DEF checkoutVars, TypeOK, Checked, Verifying, Clean, Unchanged, Accepted,
              ParsedIsRegistered, ImportedIsRegistered
<1> QED
  BY <1>1, <1>2, <1>3, <1>4, <1>5, <1>6, <1>7, <1>8, <1>9, <1>10, <1>11 DEF CheckoutNext, Program

LEMMA CheckoutInvariant == CheckoutSpec => []CheckoutInv
<1> QED BY InitCheckoutInv, NextCheckoutInv, PTL DEF CheckoutSpec

(* Every state of checkout and programs is of its type. *)
THEOREM TypeCorrect == CheckoutSpec => []TypeOK
<1>1. CheckoutInv => TypeOK
  BY DEF CheckoutInv
<1> QED BY <1>1, CheckoutInvariant, PTL

(* Whoever moves HEAD between the checks, the syntax checks read           *)
(* registered blobs only.                                                  *)
THEOREM ParsesRegistered == CheckoutSpec => []ParsedIsRegistered
<1>1. CheckoutInv => ParsedIsRegistered
  BY DEF CheckoutInv
<1> QED BY <1>1, CheckoutInvariant, PTL

(* With nobody else at work, every file imported or read is of the         *)
(* registered commit, also those no hash is registered of, and a binary    *)
(* one is its blob.                                                        *)
THEOREM ImportsRegistered == CheckoutSpec => []ImportedIsRegistered
<1>1. CheckoutInv => ImportedIsRegistered
  BY DEF CheckoutInv
<1> QED BY <1>1, CheckoutInvariant, PTL

(* No step of a STATE-Bench run changes the checkout. *)
THEOREM Repeatable == CheckoutSpec => LeavesNoTrace
<1>1. ASSUME CheckoutInv, study = "statebench", Program PROVE UNCHANGED checkout
  <2>1. CASE Import
    BY <1>1, <2>1 DEF Import, Caches, checkout
  <2>2. CASE WriteOutput
    <3>1. target = "outside"
      BY <1>1, <2>2 DEF WriteOutput, CheckoutInv, Checked
    <3> QED BY <2>2, <3>1 DEF WriteOutput, checkout
  <2>3. CASE CheckHead \/ CheckStatus \/ LookUp \/ Extract \/ Compare \/ EndFiles
    BY <2>3 DEF CheckHead, CheckStatus, LookUp, Extract, Compare, EndFiles
  <2> QED BY <1>1, <2>1, <2>2, <2>3 DEF Program
<1>2. CheckoutInv /\ [CheckoutNext]_checkoutVars
        => [study = "statebench" /\ Program => UNCHANGED checkout]_checkoutVars
  BY <1>1
<1>3. CheckoutSpec => [][study = "statebench" /\ Program => UNCHANGED checkout]_checkoutVars
  BY <1>2, CheckoutInvariant, PTL DEF CheckoutSpec
<1> QED BY <1>3 DEF LeavesNoTrace
=============================================================================
