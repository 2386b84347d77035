----------------------- MODULE IntervalMetricsProofs -----------------------
(***************************************************************************)
(* Proofs about IntervalMetrics, for every MaxU64, every set of file keys  *)
(* and every set of normalized sets.  No bound on the sets is assumed: a   *)
(* loop that returns has visited finitely many files.                      *)
(***************************************************************************)
EXTENDS IntervalMetrics, FiniteSetTheorems, TLAPS

USE MaxU64Assumption, NoFileAssumption, SetsAssumption, OverflowAssumption

-----------------------------------------------------------------------------
(* Lemmas about intervals. *)

(* The bounds of a well-formed interval. *)
LEMMA Bounds ==
    ASSUME NEW a \in WellFormedInterval
    PROVE  /\ a.start \in Nat /\ a.end \in Nat
           /\ 1 <= a.start /\ a.start <= a.end
  BY DEF WellFormedInterval, WellFormed, Interval, U64

(* Width is the number of lines of an interval. *)
LEMMA WidthIsCardinality ==
    ASSUME NEW a \in WellFormedInterval
    PROVE  /\ IsFiniteSet(Points(a))
           /\ Cardinality(Points(a)) = Width(a)
           /\ Width(a) \in Nat
<1>1. a.start \in Int /\ a.end \in Int /\ a.start <= a.end
  BY Bounds
<1>2. /\ IsFiniteSet(a.start .. a.end)
      /\ Cardinality(a.start .. a.end) =
           IF a.start > a.end THEN 0 ELSE a.end - a.start + 1
  BY <1>1, FS_Interval
<1> QED BY <1>1, <1>2 DEF Points, Width

(* Overlap is the number of lines two intervals share. *)
LEMMA OverlapIsCardinality ==
    ASSUME NEW a \in WellFormedInterval, NEW b \in WellFormedInterval
    PROVE  /\ IsFiniteSet(Points(a) \cap Points(b))
           /\ Cardinality(Points(a) \cap Points(b)) = Overlap(a, b)
           /\ Overlap(a, b) \in Nat
<1> DEFINE s == MaxOf(a.start, b.start)
           e == MinOf(a.end, b.end)
<1>1. /\ a.start \in Int /\ a.end \in Int /\ b.start \in Int /\ b.end \in Int
  BY Bounds
<1>2. s \in Int /\ e \in Int
  BY <1>1 DEF MaxOf, MinOf
<1>3. Points(a) \cap Points(b) = s .. e
  BY <1>1 DEF Points, MaxOf, MinOf
<1>4. IsFiniteSet(s .. e) /\ Cardinality(s .. e) = IF s > e THEN 0 ELSE e - s + 1
  BY <1>2, FS_Interval
<1>5. Overlap(a, b) = IF s <= e THEN e - s + 1 ELSE 0
  BY DEF Overlap, Shared, Width
<1>6. s <= e \/ s > e
  BY <1>2
<1> HIDE DEF s, e
<1>7. CASE s <= e
  <2>1. Overlap(a, b) = e - s + 1 /\ e - s + 1 \in Nat
    BY <1>2, <1>5, <1>7
  <2>2. Cardinality(s .. e) = e - s + 1
    BY <1>2, <1>4, <1>7
  <2> QED BY <1>3, <1>4, <2>1, <2>2, Zenon
<1>8. CASE s > e
  <2>1. Overlap(a, b) = 0 /\ 0 \in Nat
    BY <1>2, <1>5, <1>8
  <2>2. Cardinality(s .. e) = 0
    BY <1>2, <1>4, <1>8
  <2> QED BY <1>3, <1>4, <2>1, <2>2, Zenon
<1> QED BY <1>6, <1>7, <1>8

(* A list of a normalized set. *)
Canonical(list) == list \in Seq(WellFormedInterval) /\ Separated(list)

(* No line is in two intervals of a canonical list, and an interval after  *)
(* another one starts after its end.                                       *)
LEMMA LaterStartsAfter ==
    ASSUME NEW list, Canonical(list),
           NEW m \in 1 .. Len(list), NEW n \in 1 .. Len(list), m < n
    PROVE  list[m].end < list[n].start
<1>1. list \in Seq(WellFormedInterval)
  BY DEF Canonical
<1>2. DOMAIN list = 1 .. Len(list)
  BY <1>1
<1>3. list[m].end + 1 < list[n].start
  BY <1>2 DEF Canonical, Separated
<1>4. list[m] \in WellFormedInterval /\ list[n] \in WellFormedInterval
  BY <1>1
<1> QED BY <1>3, <1>4, Bounds

LEMMA OneInterval ==
    ASSUME NEW list, Canonical(list),
           NEW m \in 1 .. Len(list), NEW n \in 1 .. Len(list),
           NEW p, p \in Points(list[m]), p \in Points(list[n])
    PROVE  m = n
<1>1. list \in Seq(WellFormedInterval)
  BY DEF Canonical
<1>2. list[m] \in WellFormedInterval /\ list[n] \in WellFormedInterval
  BY <1>1
<1>3. /\ list[m].start \in Nat /\ list[m].end \in Nat
      /\ list[n].start \in Nat /\ list[n].end \in Nat
  BY <1>2, Bounds
<1>4. ~(m < n)
  BY <1>3, LaterStartsAfter DEF Points
<1>5. ~(n < m)
  BY <1>3, LaterStartsAfter DEF Points
<1>6. Len(list) \in Nat
  BY <1>1
<1> QED BY <1>4, <1>5, <1>6

(* set_size: one interval more is its lines more, and they are new. *)
LEMMA PrefixStep ==
    ASSUME NEW list, Canonical(list), NEW n \in 1 .. Len(list)
    PROVE  /\ CoveredUpTo(list, (n + 1) - 1) =
                CoveredUpTo(list, n - 1) \cup Points(list[n])
           /\ CoveredUpTo(list, n - 1) \cap Points(list[n]) = {}
<1>1. Len(list) \in Nat /\ n \in Nat
  BY DEF Canonical
<1>2. 1 .. (n + 1) - 1 = (1 .. n - 1) \cup {n} /\ n \notin 1 .. n - 1
      /\ 1 .. n - 1 \subseteq 1 .. Len(list)
  BY <1>1
<1>3. CoveredUpTo(list, (n + 1) - 1) =
        CoveredUpTo(list, n - 1) \cup Points(list[n])
  BY <1>2 DEF CoveredUpTo
<1>4. ASSUME NEW p \in CoveredUpTo(list, n - 1), p \in Points(list[n])
      PROVE  FALSE
  <2>1. PICK m \in 1 .. n - 1 : p \in Points(list[m])
    BY <1>4 DEF CoveredUpTo
  <2>2. m = n
    BY <1>2, <1>4, <2>1, OneInterval
  <2> QED BY <1>2, <2>1, <2>2
<1> QED BY <1>3, <1>4

-----------------------------------------------------------------------------
(* The two-pointer loop on two lists. *)

(* The lines shared by a pair of intervals one of which is behind. *)
Passed(A, B, m, n) ==
    UNION {Points(A[p[1]]) \cap Points(B[p[2]]) :
             p \in {q \in (DOMAIN A) \X (DOMAIN B) : q[1] < m \/ q[2] < n}}

(* A line is passed exactly when such a pair shares it. *)
LEMMA PassedMember ==
    ASSUME NEW A, NEW B, NEW m, NEW n, NEW p
    PROVE  p \in Passed(A, B, m, n) <=>
             \E k \in DOMAIN A, l \in DOMAIN B :
               (k < m \/ l < n) /\ p \in Points(A[k]) /\ p \in Points(B[l])
<1>1. ASSUME p \in Passed(A, B, m, n)
      PROVE  \E k \in DOMAIN A, l \in DOMAIN B :
               (k < m \/ l < n) /\ p \in Points(A[k]) /\ p \in Points(B[l])
  BY <1>1 DEF Passed
<1>2. ASSUME NEW k \in DOMAIN A, NEW l \in DOMAIN B, k < m \/ l < n,
             p \in Points(A[k]), p \in Points(B[l])
      PROVE  p \in Passed(A, B, m, n)
  <2>1. <<k, l>> \in {q \in (DOMAIN A) \X (DOMAIN B) : q[1] < m \/ q[2] < n}
    BY <1>2
  <2> QED BY <1>2, <2>1 DEF Passed
<1> QED BY <1>1, <1>2

(* Nothing is passed when the loop starts. *)
LEMMA PassedStart ==
    ASSUME NEW A, Canonical(A), NEW B, Canonical(B)
    PROVE  Passed(A, B, 1, 1) = {}
<1>1. DOMAIN A = 1 .. Len(A) /\ DOMAIN B = 1 .. Len(B)
      /\ Len(A) \in Nat /\ Len(B) \in Nat
  BY DEF Canonical
<1>2. ASSUME NEW p \in Passed(A, B, 1, 1) PROVE FALSE
  <2>1. PICK k \in DOMAIN A, l \in DOMAIN B : k < 1 \/ l < 1
    BY PassedMember
  <2> QED BY <1>1, <2>1
<1> QED BY <1>2

(* The loop ends with either list: then every shared line was passed. *)
LEMMA PassedEnd ==
    ASSUME NEW A, Canonical(A), NEW B, Canonical(B), NEW m \in Nat, NEW n \in Nat,
           m > Len(A) \/ n > Len(B)
    PROVE  Passed(A, B, m, n) = Covered(A) \cap Covered(B)
<1>1. DOMAIN A = 1 .. Len(A) /\ DOMAIN B = 1 .. Len(B)
      /\ Len(A) \in Nat /\ Len(B) \in Nat
  BY DEF Canonical
<1>2. ASSUME NEW p
      PROVE  p \in Passed(A, B, m, n) <=> p \in Covered(A) /\ p \in Covered(B)
  <2>1. p \in Covered(A) <=> \E k \in DOMAIN A : p \in Points(A[k])
    BY <1>1 DEF Covered, CoveredUpTo
  <2>2. p \in Covered(B) <=> \E l \in DOMAIN B : p \in Points(B[l])
    BY <1>1 DEF Covered, CoveredUpTo
  <2>3. \A k \in DOMAIN A, l \in DOMAIN B : k < m \/ l < n
    BY <1>1
  <2> QED BY <2>1, <2>2, <2>3, PassedMember
<1> QED BY <1>2

(* One turn.  The interval left behind ends first, so it meets no interval *)
(* further along the other list: the lines passed grow by the lines of the *)
(* current pair, and none of these was passed before.                      *)
LEMMA PassedStep ==
    ASSUME NEW A, Canonical(A), NEW B, Canonical(B),
           NEW m \in 1 .. Len(A), NEW n \in 1 .. Len(B)
    PROVE  /\ Passed(A, B, m, n) \cap (Points(A[m]) \cap Points(B[n])) = {}
           /\ AdvanceLeft(A[m], B[n]) =>
                Passed(A, B, m + 1, n) =
                  Passed(A, B, m, n) \cup (Points(A[m]) \cap Points(B[n]))
           /\ ~AdvanceLeft(A[m], B[n]) =>
                Passed(A, B, m, n + 1) =
                  Passed(A, B, m, n) \cup (Points(A[m]) \cap Points(B[n]))
<1>1. /\ DOMAIN A = 1 .. Len(A) /\ DOMAIN B = 1 .. Len(B)
      /\ Len(A) \in Nat /\ Len(B) \in Nat /\ m \in Nat /\ n \in Nat
      /\ \A k \in 1 .. Len(A) : A[k] \in WellFormedInterval
      /\ \A l \in 1 .. Len(B) : B[l] \in WellFormedInterval
  BY DEF Canonical
<1>2. ASSUME NEW p \in Passed(A, B, m, n), p \in Points(A[m]), p \in Points(B[n])
      PROVE  FALSE
  <2>1. PICK k \in DOMAIN A, l \in DOMAIN B :
               (k < m \/ l < n) /\ p \in Points(A[k]) /\ p \in Points(B[l])
    BY PassedMember
  <2>2. k = m /\ l = n
    BY <1>1, <1>2, <2>1, OneInterval
  <2> QED BY <1>1, <2>1, <2>2
<1>3. ASSUME AdvanceLeft(A[m], B[n]), NEW p
      PROVE  p \in Passed(A, B, m + 1, n) <=>
               p \in Passed(A, B, m, n) \/ (p \in Points(A[m]) /\ p \in Points(B[n]))
  <2>1. ASSUME NEW l \in DOMAIN B, ~(l < n), p \in Points(A[m]), p \in Points(B[l])
        PROVE  l = n
    <3>1. CASE n < l
      <4>1. B[n].end < B[l].start
        BY <1>1, <3>1, LaterStartsAfter
      <4>2. A[m].end < B[n].end
        BY <1>3 DEF AdvanceLeft
      <4>3. /\ A[m].start \in Nat /\ A[m].end \in Nat /\ B[n].end \in Nat
            /\ B[l].start \in Nat /\ B[l].end \in Nat
        BY <1>1, Bounds
      <4> QED BY <2>1, <4>1, <4>2, <4>3 DEF Points
    <3> QED BY <1>1, <2>1, <3>1
  <2>2. \A k \in DOMAIN A : k < m + 1 <=> k < m \/ k = m
    BY <1>1
  <2>3. m \in DOMAIN A /\ n \in DOMAIN B /\ m < m + 1
    BY <1>1
  <2>4. p \in Passed(A, B, m + 1, n) <=>
          \E k \in DOMAIN A, l \in DOMAIN B :
            (k < m + 1 \/ l < n) /\ p \in Points(A[k]) /\ p \in Points(B[l])
    BY PassedMember
  <2>5. p \in Passed(A, B, m, n) <=>
          \E k \in DOMAIN A, l \in DOMAIN B :
            (k < m \/ l < n) /\ p \in Points(A[k]) /\ p \in Points(B[l])
    BY PassedMember
  <2> QED BY <2>1, <2>2, <2>3, <2>4, <2>5
<1>4. ASSUME ~AdvanceLeft(A[m], B[n]), NEW p
      PROVE  p \in Passed(A, B, m, n + 1) <=>
               p \in Passed(A, B, m, n) \/ (p \in Points(A[m]) /\ p \in Points(B[n]))
  <2>1. ASSUME NEW k \in DOMAIN A, ~(k < m), p \in Points(A[k]), p \in Points(B[n])
        PROVE  k = m
    <3>1. CASE m < k
      <4>1. A[m].end < A[k].start
        BY <1>1, <3>1, LaterStartsAfter
      <4>2. ~(A[m].end < B[n].end)
        BY <1>4 DEF AdvanceLeft
      <4>3. /\ B[n].start \in Nat /\ A[m].end \in Nat /\ B[n].end \in Nat
            /\ A[k].start \in Nat /\ A[k].end \in Nat
        BY <1>1, Bounds
      <4> QED BY <2>1, <4>1, <4>2, <4>3 DEF Points
    <3> QED BY <1>1, <2>1, <3>1
  <2>2. \A l \in DOMAIN B : l < n + 1 <=> l < n \/ l = n
    BY <1>1
  <2>3. m \in DOMAIN A /\ n \in DOMAIN B /\ n < n + 1
    BY <1>1
  <2>4. p \in Passed(A, B, m, n + 1) <=>
          \E k \in DOMAIN A, l \in DOMAIN B :
            (k < m \/ l < n + 1) /\ p \in Points(A[k]) /\ p \in Points(B[l])
    BY PassedMember
  <2>5. p \in Passed(A, B, m, n) <=>
          \E k \in DOMAIN A, l \in DOMAIN B :
            (k < m \/ l < n) /\ p \in Points(A[k]) /\ p \in Points(B[l])
    BY PassedMember
  <2> QED BY <2>1, <2>2, <2>3, <2>4, <2>5
<1> QED BY <1>2, <1>3, <1>4
-----------------------------------------------------------------------------
(* What the files visited contribute. *)

(* A pair is evidence when its line is covered in its file. *)
LEMMA EvidenceMember ==
    ASSUME NEW set, NEW f, NEW p
    PROVE  <<f, p>> \in Evidence(set) <=> f \in Files /\ p \in Covered(set[f])
<1>1. ASSUME <<f, p>> \in Evidence(set)
      PROVE  f \in Files /\ p \in Covered(set[f])
  BY <1>1 DEF Evidence
<1>2. ASSUME f \in Files, p \in Covered(set[f])
      PROVE  <<f, p>> \in Evidence(set)
  BY <1>2 DEF Evidence
<1> QED BY <1>1, <1>2

LEMMA EvidenceIsPairs ==
    ASSUME NEW set, NEW e \in Evidence(set)
    PROVE  e = <<e[1], e[2]>> /\ e[1] \in Files
  BY DEF Evidence

(* The lists of a normalized set, and those of a file it has no key for. *)
LEMMA Lists ==
    ASSUME NEW set \in Sets, NEW f \in Files
    PROVE  /\ Canonical(set[f])
           /\ f \notin Keys(set) => Covered(set[f]) = {}
<1>1. set \in NormalizedSet
  OBVIOUS
<1>2. set[f] \in Seq(WellFormedInterval) /\ Separated(set[f])
  BY <1>1 DEF NormalizedSet
<1>3. ASSUME f \notin Keys(set) PROVE Covered(set[f]) = {}
  <2>1. set[f] = <<>>
    BY <1>3 DEF Keys
  <2>2. Len(set[f]) = 0 /\ 1 .. 0 = {}
    BY <2>1
  <2> QED BY <2>2 DEF Covered, CoveredUpTo
<1> QED BY <1>2, <1>3 DEF Canonical

(* The pairs D of other files and the lines H of file f. *)
WithFile(D, f, H) == D \cup ({f} \X H)

(* Counting a few lines more of the file being visited. *)
LEMMA Grow ==
    ASSUME NEW D, NEW f, NEW H, NEW N,
           IsFiniteSet(WithFile(D, f, H)), IsFiniteSet(N), H \cap N = {},
           \A e \in D : e[1] # f
    PROVE  /\ IsFiniteSet(WithFile(D, f, H \cup N))
           /\ Cardinality(WithFile(D, f, H \cup N)) =
                Cardinality(WithFile(D, f, H)) + Cardinality(N)
<1> DEFINE B == WithFile(D, f, H)
           X == {f} \X N
<1>1. IsFiniteSet({f}) /\ Cardinality({f}) = 1
  BY FS_Singleton
<1>2. Cardinality(N) \in Nat
  BY FS_CardinalityType
<1>3. IsFiniteSet(X) /\ Cardinality(X) = 1 * Cardinality(N)
  BY <1>1, FS_Product
<1>4. WithFile(D, f, H \cup N) = B \cup X
  BY DEF WithFile
<1>5. B \cap X = {}
  <2>1. ASSUME NEW e \in B, e \in X PROVE FALSE
    <3>1. e[1] = f /\ e[2] \in N
      BY <2>1
    <3>2. e \notin {f} \X H
      BY <3>1
    <3> QED BY <2>1, <3>1, <3>2 DEF WithFile
  <2> QED BY <2>1
<1>6. IsFiniteSet(B)
  OBVIOUS
<1>7. Cardinality(B) \in Nat
  BY <1>6, FS_CardinalityType
<1>8. Cardinality(B \cap X) = 0
  BY <1>5, FS_EmptySet
<1> HIDE DEF B, X
<1>9. IsFiniteSet(B \cup X)
      /\ Cardinality(B \cup X) = Cardinality(B) + Cardinality(X) - Cardinality(B \cap X)
  BY <1>3, <1>6, FS_Union
<1>10. Cardinality(B \cup X) = Cardinality(B) + Cardinality(N)
  BY <1>2, <1>3, <1>7, <1>8, <1>9
<1> USE DEF B
<1> QED BY <1>4, <1>9, <1>10, Zenon

-----------------------------------------------------------------------------
(***************************************************************************)
(* The inductive invariant.  CountExact alone is not inductive: its step   *)
(* needs the pairs counted to be a finite set that the loop's position     *)
(* lies inside, and what was returned to be what the earlier loops         *)
(* counted.                                                                *)
(***************************************************************************)
Types ==
    /\ left \in Sets /\ right \in Sets
    /\ pc \in Loops \cup {"done"}
    /\ i \in Nat \ {0} /\ j \in Nat \ {0}
    /\ total \in Nat
    /\ result \in [Loops -> Nat \cup {Overflow}]

(* The file being visited is a key that will not be visited again, and     *)
(* set_size reads no further than the end of its list.                     *)
Position ==
    /\ todo \subseteq Keys(Iterated(pc))
    /\ file \in Files \cup {NoFile}
    /\ file # NoFile => pc \in Loops /\ file \in Keys(Iterated(pc)) /\ file \notin todo
    /\ file # NoFile /\ pc # "inter" => i <= Len(Iterated(pc)[file]) + 1

CountedFinite == pc \in Loops => IsFiniteSet(Counted(pc))

TargetFinite == \A loop \in Loops : Returned(loop) => IsFiniteSet(Target(loop))

IInv == /\ Types
        /\ Position
        /\ CountedFinite
        /\ TargetFinite
        /\ CountExact
        /\ CardinalitiesExact

(* The two parts of what a loop has counted. *)
Seen == {e \in Target(pc) : e[1] \in Visited}

LEMMA CountedParts ==
    /\ file = NoFile => Counted(pc) = Seen
    /\ file # NoFile => Counted(pc) = Seen \cup ({file} \X CountedHere(pc))
    /\ \A e \in Seen : e[1] # file
  BY DEF Counted, Seen, Visited

(* Evidence is in the files the set has a key for. *)
LEMMA EvidenceHasKey ==
    ASSUME NEW set \in Sets, NEW e \in Evidence(set)
    PROVE  e[1] \in Keys(set)
<1>1. e = <<e[1], e[2]>> /\ e[1] \in Files
  BY EvidenceIsPairs
<1>2. e[2] \in Covered(set[e[1]])
  BY <1>1, EvidenceMember
<1> QED BY <1>1, <1>2, Lists

(* A loop that has visited every file has counted its target. *)
LEMMA AllSeen ==
    ASSUME pc \in Loops, todo = {}, file = NoFile
    PROVE  Counted(pc) = Target(pc)
<1>1. ASSUME NEW e \in Target(pc) PROVE e[1] \in Visited
  <2>1. e \in Evidence(Iterated(pc))
    BY DEF Target, Iterated, Loops
  <2>2. e[1] \in Files
    BY <2>1, EvidenceIsPairs
  <2> QED BY <2>2 DEF Visited
<1> QED BY <1>1 DEF Counted

-----------------------------------------------------------------------------
(* Each action keeps the types and the position. *)

LEMMA TypedStep == IInv /\ [Next]_vars => Types' /\ Position'
<1> SUFFICES ASSUME IInv, [Next]_vars PROVE Types' /\ Position'
  OBVIOUS
<1>0. Types /\ Position /\ left \in Sets /\ right \in Sets
  BY DEF IInv, Types
<1>1. Iterated(pc) \in Sets
  BY <1>0 DEF Iterated
<1>2. CASE NextFile
  <2>1. Types'
    BY <1>0, <1>2 DEF NextFile, Types
  <2>2. PICK f \in todo :
          todo' = todo \ {f} /\
          file' = (IF pc = "inter" /\ right[f] = <<>> THEN NoFile ELSE f)
    BY <1>2 DEF NextFile
  <2>3. f \in Keys(Iterated(pc)) /\ Keys(Iterated(pc)) \subseteq Files
    BY <1>0 DEF Position, Keys
  <2>4. Iterated(pc)' = Iterated(pc) /\ pc' = pc /\ pc \in Loops
    BY <1>2 DEF NextFile, Iterated
  <2>5. Keys(Iterated(pc))' = Keys(Iterated(pc))
    BY <2>4
  <2>6. f \in Files /\ Len(Iterated(pc)[f]) \in Nat
    BY <1>1, <2>3, Lists DEF Canonical
  <2>7. i' = 1
    BY <1>2 DEF NextFile
  <2>8. file' # NoFile => i' <= Len(Iterated(pc)'[file']) + 1
    BY <2>2, <2>4, <2>6, <2>7
  <2>9. Position'
    BY <1>0, <2>2, <2>3, <2>4, <2>5, <2>8 DEF Position
  <2> QED BY <2>1, <2>9
<1>3. CASE AddWidth
  <2>1. Iterated(pc)[file][i] \in WellFormedInterval
    <3>1. file \in Files /\ i \in Nat \ {0} /\ i <= Len(Iterated(pc)[file])
      BY <1>0, <1>3 DEF AddWidth, Position, Types
    <3>2. Iterated(pc)[file] \in Seq(WellFormedInterval)
      BY <1>1, <3>1, Lists DEF Canonical
    <3> QED BY <3>1, <3>2
  <2>2. Width(Iterated(pc)[file][i]) \in Nat
    BY <2>1, WidthIsCardinality
  <2>3. total' \in Nat /\ i' \in Nat \ {0}
    BY <1>0, <1>3, <2>2 DEF AddWidth, Types
  <2>4. Types'
    BY <1>0, <1>3, <2>3 DEF AddWidth, Types
  <2>5. Iterated(pc)' = Iterated(pc)
    BY <1>3 DEF AddWidth, Iterated
  <2>6. file \in Files /\ Len(Iterated(pc)[file]) \in Nat
    BY <1>0, <1>1, <1>3, Lists DEF AddWidth, Position, Canonical
  <2>7. i' <= Len(Iterated(pc)[file]) + 1
    BY <1>0, <1>3, <2>6 DEF AddWidth, Types
  <2>8. Position'
    BY <1>0, <1>3, <2>5, <2>7 DEF AddWidth, Position
  <2> QED BY <2>4, <2>8
<1>4. CASE AddOverlap
  <2>1. left[file][i] \in WellFormedInterval /\ right[file][j] \in WellFormedInterval
    <3>1. /\ file \in Files /\ i \in Nat \ {0} /\ i <= Len(left[file])
          /\ j \in Nat \ {0} /\ j <= Len(right[file])
      BY <1>0, <1>4 DEF AddOverlap, Position, Types
    <3>2. left[file] \in Seq(WellFormedInterval) /\ right[file] \in Seq(WellFormedInterval)
      BY <1>0, <3>1, Lists DEF Canonical
    <3> QED BY <3>1, <3>2
  <2>2. Overlap(left[file][i], right[file][j]) \in Nat
    BY <2>1, OverlapIsCardinality
  <2>3. total' \in Nat /\ i' \in Nat \ {0} /\ j' \in Nat \ {0}
    BY <1>0, <1>4, <2>2 DEF AddOverlap, Types
  <2>4. Types'
    BY <1>0, <1>4, <2>3 DEF AddOverlap, Types
  <2>5. Iterated(pc)' = Iterated(pc)
    BY <1>4 DEF AddOverlap, Iterated
  <2>6. Position'
    BY <1>0, <1>4, <2>5 DEF AddOverlap, Position
  <2> QED BY <2>4, <2>6
<1>5. CASE FileDone
  <2>1. Iterated(pc)' = Iterated(pc)
    BY <1>5 DEF FileDone, Iterated
  <2> QED BY <1>0, <1>5, <2>1 DEF FileDone, Types, Position
<1>6. CASE Return
  <2>1. ToU64(total) \in Nat \cup {Overflow}
    BY <1>0 DEF Types, ToU64
  <2>2. pc' \in Loops \cup {"done"}
    BY <1>6 DEF Return, After, Loops
  <2>3. Types'
    BY <1>0, <1>6, <2>1, <2>2 DEF Return, Types
  <2>4. Iterated(pc)' = Iterated(After(pc))
    BY <1>6 DEF Return, Iterated
  <2>5. todo' = Keys(Iterated(pc))'
    BY <1>6, <2>4 DEF Return, Loops
  <2>6. file' = NoFile
    BY <1>6 DEF Return
  <2> QED BY <2>3, <2>5, <2>6 DEF Position
<1>7. CASE Done \/ UNCHANGED vars
  <2>1. UNCHANGED vars
    BY <1>7 DEF Done
  <2>2. Iterated(pc)' = Iterated(pc)
    BY <2>1 DEF vars, Iterated
  <2> QED BY <1>0, <2>1, <2>2 DEF vars, Types, Position
<1> QED BY <1>2, <1>3, <1>4, <1>5, <1>6, <1>7 DEF Next

-----------------------------------------------------------------------------
(* Each action keeps the count exact. *)

Exact == CountedFinite /\ CountExact

(* The turn of a loop that adds the lines N of the file being visited. *)
LEMMA ExactTurn ==
    ASSUME pc \in Loops, file # NoFile, Exact,
           NEW N, IsFiniteSet(N), CountedHere(pc) \cap N = {},
           Seen' = Seen, file' = file, pc' = pc,
           CountedHere(pc)' = CountedHere(pc) \cup N,
           total' = total + Cardinality(N)
    PROVE  Exact'
<1>1. Counted(pc) = WithFile(Seen, file, CountedHere(pc))
  BY CountedParts DEF WithFile
<1>2. \A e \in Seen : e[1] # file
  BY CountedParts
<1>3. Counted(pc)' = WithFile(Seen, file, CountedHere(pc) \cup N)
  <2>1. Counted(pc)' = Seen' \cup ({file'} \X CountedHere(pc)')
    BY DEF Counted, Seen
  <2> QED BY <2>1 DEF WithFile
<1>4. IsFiniteSet(Counted(pc)) /\ total = Cardinality(Counted(pc))
  BY DEF Exact, CountedFinite, CountExact
<1>5. /\ IsFiniteSet(WithFile(Seen, file, CountedHere(pc) \cup N))
      /\ Cardinality(WithFile(Seen, file, CountedHere(pc) \cup N)) =
           Cardinality(WithFile(Seen, file, CountedHere(pc))) + Cardinality(N)
  BY <1>1, <1>2, <1>4, Grow
<1> QED BY <1>1, <1>3, <1>4, <1>5 DEF Exact, CountedFinite, CountExact

LEMMA SameTarget ==
    ASSUME left' = left, right' = right, pc' = pc
    PROVE  Target(pc)' = Target(pc) /\ Iterated(pc)' = Iterated(pc)
  BY DEF Target, Iterated

LEMMA AddWidthExact == IInv /\ AddWidth => Exact'
<1> SUFFICES ASSUME IInv, AddWidth PROVE Exact'
  OBVIOUS
<1> DEFINE set == Iterated(pc)
           list == set[file]
<1>1. /\ pc \in {"pred", "gold"} /\ pc \in Loops /\ file # NoFile /\ file \in Files
      /\ i \in Nat \ {0} /\ i <= Len(list) /\ set \in Sets /\ Exact
  BY DEF IInv, AddWidth, Types, Position, Iterated, Loops, Exact
<1>2. Canonical(list)
  BY <1>1, Lists
<1>3. i \in 1 .. Len(list) /\ list[i] \in WellFormedInterval
  BY <1>1, <1>2 DEF Canonical
<1>4. /\ CoveredUpTo(list, (i + 1) - 1) = CoveredUpTo(list, i - 1) \cup Points(list[i])
      /\ CoveredUpTo(list, i - 1) \cap Points(list[i]) = {}
  BY <1>2, <1>3, PrefixStep
<1>5. /\ Target(pc)' = Target(pc) /\ Iterated(pc)' = set
      /\ file' = file /\ todo' = todo /\ pc' = pc
  BY SameTarget DEF AddWidth
<1>6. Seen' = Seen
  BY <1>5 DEF Seen, Visited
<1>7. CountedHere(pc) = CoveredUpTo(list, i - 1)
  BY <1>1 DEF CountedHere
<1>8. CountedHere(pc)' = CoveredUpTo(list, (i + 1) - 1)
  BY <1>1, <1>5 DEF CountedHere, AddWidth
<1>9. IsFiniteSet(Points(list[i])) /\ total' = total + Cardinality(Points(list[i]))
  BY <1>3, WidthIsCardinality DEF AddWidth
<1> HIDE DEF list, set
<1> QED BY <1>1, <1>4, <1>5, <1>6, <1>7, <1>8, <1>9, ExactTurn

LEMMA AddOverlapExact == IInv /\ AddOverlap => Exact'
<1> SUFFICES ASSUME IInv, AddOverlap PROVE Exact'
  OBVIOUS
<1> DEFINE A == left[file]
           B == right[file]
           N == Points(A[i]) \cap Points(B[j])
<1>1. /\ pc = "inter" /\ pc \in Loops /\ file # NoFile /\ file \in Files
      /\ i \in Nat \ {0} /\ i <= Len(A) /\ j \in Nat \ {0} /\ j <= Len(B)
      /\ left \in Sets /\ right \in Sets /\ Exact
  BY DEF IInv, AddOverlap, Types, Position, Loops, Exact
<1>2. Canonical(A) /\ Canonical(B)
  BY <1>1, Lists
<1>3. /\ i \in 1 .. Len(A) /\ j \in 1 .. Len(B)
      /\ A[i] \in WellFormedInterval /\ B[j] \in WellFormedInterval
  BY <1>1, <1>2 DEF Canonical
<1>4. /\ Passed(A, B, i, j) \cap N = {}
      /\ AdvanceLeft(A[i], B[j]) => Passed(A, B, i + 1, j) = Passed(A, B, i, j) \cup N
      /\ ~AdvanceLeft(A[i], B[j]) => Passed(A, B, i, j + 1) = Passed(A, B, i, j) \cup N
  BY <1>2, <1>3, PassedStep
<1>5. /\ Target(pc)' = Target(pc) /\ file' = file /\ todo' = todo /\ pc' = pc
      /\ left' = left /\ right' = right
  BY SameTarget DEF AddOverlap
<1>6. Seen' = Seen
  BY <1>5 DEF Seen, Visited
<1>7. CountedHere(pc) = Passed(A, B, i, j)
  BY <1>1 DEF CountedHere, Passed
<1>8. CountedHere(pc)' = Passed(A, B, i', j')
  BY <1>1, <1>5 DEF CountedHere, Passed
<1>9. /\ total' = total + Overlap(A[i], B[j])
      /\ AdvanceLeft(A[i], B[j]) => i' = i + 1 /\ j' = j
      /\ ~AdvanceLeft(A[i], B[j]) => i' = i /\ j' = j + 1
  BY DEF AddOverlap
<1>10. CountedHere(pc)' = CountedHere(pc) \cup N /\ CountedHere(pc) \cap N = {}
  BY <1>4, <1>7, <1>8, <1>9, Zenon
<1>11. IsFiniteSet(N) /\ total' = total + Cardinality(N)
  BY <1>3, <1>9, OverlapIsCardinality
<1> HIDE DEF N, A, B
<1> QED BY <1>1, <1>5, <1>6, <1>10, <1>11, ExactTurn

(* A file whose list has been passed has counted all its pairs. *)
LEMMA FileDoneExact == IInv /\ FileDone => Exact'
<1> SUFFICES ASSUME IInv, FileDone PROVE Exact'
  OBVIOUS
<1>1. /\ pc \in Loops /\ file # NoFile /\ file \in Files /\ file \notin todo
      /\ i \in Nat /\ j \in Nat /\ left \in Sets /\ right \in Sets
      /\ Iterated(pc) \in Sets /\ Exact
      /\ i > Len(Iterated(pc)[file]) \/ (pc = "inter" /\ j > Len(right[file]))
      /\ file' = NoFile /\ todo' = todo /\ pc' = pc /\ total' = total
      /\ left' = left /\ right' = right
  BY DEF IInv, FileDone, Types, Position, Iterated, Exact
<1>2. ASSUME NEW p
      PROVE  p \in CountedHere(pc) <=> <<file, p>> \in Target(pc)
  <2>1. CASE pc = "inter"
    <3>1. CountedHere(pc) = Passed(left[file], right[file], i, j)
      BY <2>1 DEF CountedHere, Passed
    <3>2. Canonical(left[file]) /\ Canonical(right[file])
      BY <1>1, Lists
    <3>3. i > Len(left[file]) \/ j > Len(right[file])
      BY <1>1, <2>1 DEF Iterated
    <3>4. CountedHere(pc) = Covered(left[file]) \cap Covered(right[file])
      BY <1>1, <3>1, <3>2, <3>3, PassedEnd
    <3>5. Target(pc) = Evidence(left) \cap Evidence(right)
      BY <2>1 DEF Target
    <3> QED BY <1>1, <3>4, <3>5, EvidenceMember
  <2>2. CASE pc # "inter"
    <3>1. CountedHere(pc) = CoveredUpTo(Iterated(pc)[file], i - 1)
      BY <2>2 DEF CountedHere
    <3>2. Canonical(Iterated(pc)[file]) /\ i > Len(Iterated(pc)[file])
      BY <1>1, <2>2, Lists
    <3>3. i <= Len(Iterated(pc)[file]) + 1
      BY <1>1, <2>2 DEF IInv, Position
    <3>4. Len(Iterated(pc)[file]) \in Nat
      BY <3>2 DEF Canonical
    <3>5. i - 1 = Len(Iterated(pc)[file])
      BY <1>1, <3>2, <3>3, <3>4
    <3>6. CountedHere(pc) = Covered(Iterated(pc)[file])
      BY <3>1, <3>5 DEF Covered
    <3>7. Target(pc) = Evidence(Iterated(pc))
      BY <2>2 DEF Target
    <3> QED BY <1>1, <3>6, <3>7, EvidenceMember
  <2> QED BY <2>1, <2>2
<1>3. Target(pc)' = Target(pc)
  BY <1>1, SameTarget
<1>4. ASSUME NEW e \in Target(pc)
      PROVE  e = <<e[1], e[2]>> /\ e[1] \in Files
  <2>1. e \in Evidence(Iterated(pc))
    BY <1>1 DEF Target, Iterated, Loops
  <2> QED BY <2>1, EvidenceIsPairs
<1>5. Counted(pc)' = {e \in Target(pc) : e[1] \in Files /\ e[1] \notin todo /\ e[1] # NoFile}
  BY <1>1, <1>3 DEF Counted, Visited
<1>6. Counted(pc) = {e \in Target(pc) : e[1] \in Files /\ e[1] \notin todo /\ e[1] # file}
                      \cup ({file} \X CountedHere(pc))
  BY <1>1 DEF Counted, Visited
<1>7. ASSUME NEW e PROVE e \in Counted(pc)' <=> e \in Counted(pc)
  <2>1. ASSUME e \in {file} \X CountedHere(pc) PROVE e \in Target(pc) /\ e[1] = file
    <3>1. e = <<file, e[2]>> /\ e[2] \in CountedHere(pc) /\ e[1] = file
      BY <2>1
    <3> QED BY <1>2, <3>1
  <2>2. ASSUME e \in Target(pc), e[1] = file PROVE e \in {file} \X CountedHere(pc)
    <3>1. e = <<file, e[2]>>
      BY <1>4, <2>2
    <3>2. e[2] \in CountedHere(pc)
      BY <1>2, <2>2, <3>1
    <3> QED BY <3>1, <3>2
  <2> QED BY <1>1, <1>4, <1>5, <1>6, <2>1, <2>2
<1>8. Counted(pc)' = Counted(pc)
  BY <1>7
<1> QED BY <1>1, <1>8 DEF Exact, CountedFinite, CountExact

(* A file right lacks shares no line, so skipping it loses none. *)
LEMMA NextFileExact == IInv /\ NextFile => Exact'
<1> SUFFICES ASSUME IInv, NextFile PROVE Exact'
  OBVIOUS
<1>1. /\ pc \in Loops /\ file = NoFile /\ left \in Sets /\ right \in Sets
      /\ Iterated(pc) \in Sets /\ Exact /\ todo \subseteq Keys(Iterated(pc))
      /\ i' = 1 /\ j' = 1 /\ pc' = pc /\ total' = total
      /\ left' = left /\ right' = right
  BY DEF IInv, NextFile, Types, Position, Iterated, Exact
<1>2. PICK f \in todo :
        todo' = todo \ {f} /\
        file' = (IF pc = "inter" /\ right[f] = <<>> THEN NoFile ELSE f)
  BY DEF NextFile
<1>3. f \in Files /\ f # NoFile
  BY <1>1 DEF Keys
<1>4. Target(pc)' = Target(pc) /\ Iterated(pc)' = Iterated(pc)
  BY <1>1, SameTarget
<1>5. Counted(pc) = {e \in Target(pc) : e[1] \in Files /\ e[1] \notin todo /\ e[1] # NoFile}
  BY <1>1 DEF Counted, Visited
<1>6. CASE pc = "inter" /\ right[f] = <<>>
  <2>1. Counted(pc)' =
          {e \in Target(pc) : e[1] \in Files /\ e[1] \notin todo \ {f} /\ e[1] # NoFile}
    BY <1>1, <1>2, <1>4, <1>6 DEF Counted, Visited
  <2>2. ASSUME NEW e \in Target(pc) PROVE e[1] # f
    <3>1. e \in Evidence(right)
      BY <1>6 DEF Target
    <3>2. e = <<e[1], e[2]>> /\ e[1] \in Files
      BY <3>1, EvidenceIsPairs
    <3>3. e[2] \in Covered(right[e[1]])
      BY <3>1, <3>2, EvidenceMember
    <3>4. f \notin Keys(right)
      BY <1>6 DEF Keys
    <3>5. Covered(right[f]) = {}
      BY <1>1, <1>3, <3>4, Lists
    <3> QED BY <3>3, <3>5
  <2>3. Counted(pc)' = Counted(pc)
    BY <1>5, <2>1, <2>2
  <2> QED BY <1>1, <2>3 DEF Exact, CountedFinite, CountExact
<1>7. CASE ~(pc = "inter" /\ right[f] = <<>>)
  <2>1. file' = f
    BY <1>2, <1>7
  <2>2. CountedHere(pc)' = {}
    <3>1. CASE pc = "inter"
      <4>1. CountedHere(pc)' = Passed(left[f], right[f], 1, 1)
        BY <1>1, <2>1, <3>1 DEF CountedHere, Passed
      <4> QED BY <1>1, <1>3, <4>1, Lists, PassedStart
    <3>2. CASE pc # "inter"
      <4>1. CountedHere(pc)' = CoveredUpTo(Iterated(pc)[f], 1 - 1)
        BY <1>1, <1>4, <2>1, <3>2 DEF CountedHere
      <4>2. 1 .. 1 - 1 = {}
        OBVIOUS
      <4> QED BY <4>1, <4>2 DEF CoveredUpTo
    <3> QED BY <3>1, <3>2
  <2>3. Counted(pc)' =
          {e \in Target(pc) : e[1] \in Files /\ e[1] \notin todo \ {f} /\ e[1] # f}
            \cup ({f} \X {})
    BY <1>2, <1>3, <1>4, <2>1, <2>2 DEF Counted, Visited
  <2>4. Counted(pc)' = Counted(pc)
    BY <1>2, <1>3, <1>5, <2>3
  <2> QED BY <1>1, <2>4 DEF Exact, CountedFinite, CountExact
<1> QED BY <1>6, <1>7

(* A loop that returns has counted its target, and the next starts afresh. *)
LEMMA ReturnExact == IInv /\ Return => Exact' /\ CardinalitiesExact' /\ TargetFinite'
<1> SUFFICES ASSUME IInv, Return PROVE Exact' /\ CardinalitiesExact' /\ TargetFinite'
  OBVIOUS
<1>1. /\ pc \in Loops /\ file = NoFile /\ todo = {} /\ left \in Sets /\ right \in Sets
      /\ Exact /\ CardinalitiesExact /\ result \in [Loops -> Nat \cup {Overflow}]
      /\ result' = [result EXCEPT ![pc] = ToU64(total)]
      /\ pc' = After(pc) /\ todo' = Keys(Iterated(After(pc))) /\ total' = 0
      /\ left' = left /\ right' = right /\ file' = NoFile
  BY DEF IInv, Return, Types, Exact, Loops
<1>2. Counted(pc) = Target(pc)
  BY <1>1, AllSeen
<1>3. IsFiniteSet(Target(pc)) /\ total = Cardinality(Target(pc))
  BY <1>1, <1>2 DEF Exact, CountedFinite, CountExact
<1>4. Cardinality(Target(pc)) \in Nat
  BY <1>3, FS_CardinalityType
<1>5. result'[pc] = IF Cardinality(Target(pc)) \in U64
                    THEN Cardinality(Target(pc)) ELSE Overflow
  BY <1>1, <1>3, <1>4 DEF ToU64, U64
<1>6. \A loop \in Loops : Target(loop)' = Target(loop)
  BY <1>1 DEF Target, Iterated
<1>7. \A loop \in Loops : Returned(loop)' <=> Returned(loop) \/ loop = pc
  BY <1>1 DEF Returned, Loops, After
<1>8. ASSUME NEW loop \in Loops, Returned(loop)'
      PROVE  result'[loop] = IF Cardinality(Target(loop)') \in U64
                             THEN Cardinality(Target(loop)') ELSE Overflow
  <2>1. CASE loop = pc
    BY <1>5, <1>6, <2>1
  <2>2. CASE loop # pc
    <3>1. Returned(loop) /\ result'[loop] = result[loop]
      BY <1>1, <1>7, <1>8, <2>2
    <3> QED BY <1>1, <1>6, <3>1 DEF CardinalitiesExact
  <2> QED BY <2>1, <2>2
<1>9. CardinalitiesExact'
  BY <1>8 DEF CardinalitiesExact
<1>10. Exact'
  <2>1. CASE pc' \in Loops
    <3>1. Iterated(pc)' = Iterated(After(pc))
      BY <1>1 DEF Iterated
    <3>2. todo' = Keys(Iterated(pc)')
      BY <1>1, <3>1
    <3>3. Iterated(pc)' \in Sets
      BY <1>1 DEF Iterated
    <3>4. Target(pc)' \subseteq Evidence(Iterated(pc)')
      BY <2>1 DEF Target, Iterated, Loops
    <3>5. \A e \in Target(pc)' : e[1] \in todo'
      BY <3>2, <3>3, <3>4, EvidenceHasKey
    <3>6. Counted(pc)' = {}
      BY <1>1, <3>5 DEF Counted, Visited
    <3> QED BY <1>1, <3>6, FS_EmptySet DEF Exact, CountedFinite, CountExact
  <2>2. CASE pc' \notin Loops
    BY <2>2 DEF Exact, CountedFinite, CountExact
  <2> QED BY <2>1, <2>2
<1>11. TargetFinite'
  <2>1. ASSUME NEW loop \in Loops, Returned(loop)' PROVE IsFiniteSet(Target(loop)')
    <3>1. CASE loop = pc
      BY <1>3, <1>6, <3>1
    <3>2. CASE loop # pc
      BY <1>6, <1>7, <2>1, <3>2 DEF IInv, TargetFinite
    <3> QED BY <3>1, <3>2
  <2> QED BY <2>1 DEF TargetFinite
<1> QED BY <1>9, <1>10, <1>11

-----------------------------------------------------------------------------
(* The theorems. *)

LEMMA InitIInv == Init => IInv
<1> SUFFICES ASSUME Init PROVE IInv
  OBVIOUS
<1>1. Types /\ Position
  BY DEF Init, Types, Position, Loops, Iterated
<1>2. \A e \in Target(pc) : e[1] \in todo
  <2>1. Target(pc) \subseteq Evidence(left) /\ left \in Sets /\ todo = Keys(left)
    BY DEF Init, Target, Iterated
  <2> QED BY <2>1, EvidenceHasKey
<1>3. Counted(pc) = {}
  BY <1>2 DEF Init, Counted, Visited
<1>4. CountedFinite /\ CountExact
  BY <1>3, FS_EmptySet DEF Init, CountedFinite, CountExact
<1>5. CardinalitiesExact /\ TargetFinite
  BY DEF Init, CardinalitiesExact, TargetFinite, Returned, Loops
<1> QED BY <1>1, <1>4, <1>5 DEF IInv

(* Only Return changes what was returned. *)
LEMMA ResultsKept ==
    ASSUME IInv, left' = left, right' = right, pc' = pc, result' = result
    PROVE  CardinalitiesExact' /\ TargetFinite'
<1>1. \A loop \in Loops : Target(loop)' = Target(loop) /\ (Returned(loop)' <=> Returned(loop))
  BY DEF Target, Iterated, Returned
<1> QED BY <1>1 DEF IInv, CardinalitiesExact, TargetFinite

LEMMA NextIInv == IInv /\ [Next]_vars => IInv'
<1> SUFFICES ASSUME IInv, [Next]_vars PROVE IInv'
  OBVIOUS
<1>1. Types' /\ Position'
  BY TypedStep
<1>2. CASE NextFile
  BY <1>1, <1>2, NextFileExact, ResultsKept DEF NextFile, IInv, Exact
<1>3. CASE AddWidth
  BY <1>1, <1>3, AddWidthExact, ResultsKept DEF AddWidth, IInv, Exact
<1>4. CASE AddOverlap
  BY <1>1, <1>4, AddOverlapExact, ResultsKept DEF AddOverlap, IInv, Exact
<1>5. CASE FileDone
  BY <1>1, <1>5, FileDoneExact, ResultsKept DEF FileDone, IInv, Exact
<1>6. CASE Return
  BY <1>1, <1>6, ReturnExact DEF IInv, Exact
<1>7. CASE Done \/ UNCHANGED vars
  <2>1. UNCHANGED vars
    BY <1>7 DEF Done
  <2>2. Counted(pc)' = Counted(pc)
    BY <2>1 DEF vars, Counted, Target, Iterated, Visited, CountedHere
  <2>3. CardinalitiesExact' /\ TargetFinite'
    BY <2>1, ResultsKept DEF vars
  <2> QED BY <1>1, <2>1, <2>2, <2>3 DEF vars, IInv, CountedFinite, CountExact
<1> QED BY <1>2, <1>3, <1>4, <1>5, <1>6, <1>7 DEF Next

(* Between any two turns of set_size and intersection_size the accumulator *)
(* is the number of (file, line) pairs the loop has passed: leaving the    *)
(* interval that ends first behind skips no shared line and counts none    *)
(* twice.                                                                  *)
THEOREM CountIsExact == Spec => []CountExact
<1>1. IInv => CountExact
  BY DEF IInv
<1> QED BY <1>1, InitIInv, NextIInv, PTL DEF Spec

(* Every call of set_size and intersection_size returns the exact number   *)
(* of pairs when it is a u64, and the overflow error otherwise.            *)
THEOREM CardinalitiesAreExact == Spec => []CardinalitiesExact
<1>1. IInv => CardinalitiesExact
  BY DEF IInv
<1> QED BY <1>1, InitIInv, NextIInv, PTL DEF Spec

(* A size that fits in a u64 has an intersection that fits and is no      *)
(* larger: audit_case refuses an intersection only beside both sizes, and *)
(* the precision and the recall it divides never exceed 1.                *)
IntersectionFits ==
    pc = "done" =>
      \A size \in {"pred", "gold"} :
        result[size] # Overflow =>
          result["inter"] # Overflow /\ result["inter"] <= result[size]

(* Every shared pair is in either set, so when a size fits in a u64 the     *)
(* intersection does, and it is no larger: the precision and the recall    *)
(* audit_case computes from them are at most 1.                            *)
THEOREM IntersectionAlwaysFits == Spec => []IntersectionFits
<1>1. IInv => IntersectionFits
  <2> SUFFICES ASSUME IInv, pc = "done", NEW size \in {"pred", "gold"},
                      result[size] # Overflow
               PROVE  result["inter"] # Overflow /\ result["inter"] <= result[size]
    BY DEF IntersectionFits
  <2>1. /\ IsFiniteSet(Target(size)) /\ Target("inter") \subseteq Target(size)
    BY DEF IInv, TargetFinite, Returned, Loops, Target, Iterated
  <2>2. /\ Cardinality(Target("inter")) <= Cardinality(Target(size))
        /\ Cardinality(Target("inter")) \in Nat /\ Cardinality(Target(size)) \in Nat
    BY <2>1, FS_Subset, FS_CardinalityType
  <2>3. /\ result[size] = IF Cardinality(Target(size)) \in U64
                          THEN Cardinality(Target(size)) ELSE Overflow
        /\ result["inter"] = IF Cardinality(Target("inter")) \in U64
                             THEN Cardinality(Target("inter")) ELSE Overflow
    BY DEF IInv, CardinalitiesExact, Returned, Loops
  <2>4. result[size] = Cardinality(Target(size)) /\ Cardinality(Target(size)) \in U64
    BY <2>3
  <2>5. Cardinality(Target("inter")) \in U64
    BY <2>2, <2>4 DEF U64
  <2> QED BY <2>2, <2>3, <2>4, <2>5
<1> QED BY <1>1, InitIInv, NextIInv, PTL DEF Spec
=============================================================================
