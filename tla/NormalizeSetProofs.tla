------------------------ MODULE NormalizeSetProofs ------------------------
(***************************************************************************)
(* Proofs about NormalizeSet, for every MaxU64, every set of file keys and *)
(* every set of inputs.                                                    *)
(***************************************************************************)
EXTENDS NormalizeSet, TLAPS

USE MaxU64Assumption, NoFileAssumption, InputsAssumption

-----------------------------------------------------------------------------
(* Lemmas about the operators of Intervals. *)

(* A line is covered exactly when an interval of the list names it. *)
LEMMA CoveredMember ==
    ASSUME NEW list, NEW n, NEW p
    PROVE  p \in CoveredUpTo(list, n) <=> \E i \in 1 .. n : p \in Points(list[i])
  BY DEF CoveredUpTo

(* A sorted version is an ascending list of the same lines. *)
LEMMA SortedVersion ==
    ASSUME NEW list \in Seq(WellFormedInterval), NEW s \in SortedVersions(list)
    PROVE  /\ s \in Seq(WellFormedInterval)
           /\ Ascending(s)
           /\ Covered(s) = Covered(list)
<1>1. PICK p \in Bijection(DOMAIN list, DOMAIN list) :
         s = [i \in DOMAIN list |-> list[p[i]]] /\ Ascending(s)
  BY DEF SortedVersions
<1>2. DOMAIN list = 1 .. Len(list) /\ Len(list) \in Nat
  OBVIOUS
<1>3. p \in [1 .. Len(list) -> 1 .. Len(list)]
  BY <1>2 DEF Bijection, Injection
<1>4. \A j \in 1 .. Len(list) : \E i \in 1 .. Len(list) : p[i] = j
  BY <1>2 DEF Bijection, Surjection
<1>5. s \in [1 .. Len(list) -> WellFormedInterval]
  BY <1>1, <1>2, <1>3
<1>6. s \in Seq(WellFormedInterval) /\ Len(s) = Len(list)
  BY <1>2, <1>5
<1>7. ASSUME NEW q PROVE q \in Covered(s) <=> q \in Covered(list)
  <2>1. \A i \in 1 .. Len(list) : s[i] = list[p[i]]
    BY <1>1, <1>2
  <2>2. q \in Covered(s) <=> \E i \in 1 .. Len(list) : q \in Points(list[p[i]])
    BY <1>6, <2>1, CoveredMember DEF Covered
  <2>3. q \in Covered(list) <=> \E j \in 1 .. Len(list) : q \in Points(list[j])
    BY CoveredMember DEF Covered
  <2> QED BY <1>3, <1>4, <2>2, <2>3
<1> QED
  BY <1>1, <1>6, <1>7

(* Appending an interval adds exactly its lines. *)
LEMMA CoveredAppend ==
    ASSUME NEW list \in Seq(WellFormedInterval), NEW iv \in WellFormedInterval
    PROVE  Covered(Append(list, iv)) = Covered(list) \cup Points(iv)
<1> DEFINE new == Append(list, iv)
<1>1. Len(new) = Len(list) + 1 /\ new[Len(list) + 1] = iv
      /\ \A i \in 1 .. Len(list) : new[i] = list[i]
  OBVIOUS
<1>2. Len(list) \in Nat
  OBVIOUS
<1>3. ASSUME NEW q PROVE q \in Covered(new) <=> q \in Covered(list) \cup Points(iv)
  <2>1. q \in Covered(new) <=> \E i \in 1 .. Len(list) + 1 : q \in Points(new[i])
    BY <1>1, CoveredMember DEF Covered
  <2>2. q \in Covered(list) <=> \E i \in 1 .. Len(list) : q \in Points(list[i])
    BY CoveredMember DEF Covered
  <2> HIDE DEF new
  <2> QED BY <1>1, <1>2, <2>1, <2>2
<1> QED BY <1>3

(* Joining an interval that starts no earlier gives the union of both. *)
LEMMA ExtendPoints ==
    ASSUME NEW a \in WellFormedInterval, NEW b \in WellFormedInterval,
           a.start <= b.start, Joins(a, b)
    PROVE  /\ Extend(a, b) \in WellFormedInterval
           /\ Extend(a, b).start = a.start
           /\ Extend(a, b).end >= a.end
           /\ Points(Extend(a, b)) = Points(a) \cup Points(b)
<1>1. /\ a \in [start : U64, end : U64] /\ 1 <= a.start /\ a.start <= a.end
      /\ b \in [start : U64, end : U64] /\ 1 <= b.start /\ b.start <= b.end
  BY DEF WellFormedInterval, WellFormed, Interval, U64
<1>2. b.start <= a.end + 1
  BY <1>1 DEF Joins, SatAdd, U64
<1>3. /\ Extend(a, b) \in [start : U64, end : U64]
      /\ Extend(a, b).start = a.start
      /\ Extend(a, b).end = IF b.end > a.end THEN b.end ELSE a.end
  BY <1>1 DEF Extend
<1>4. Extend(a, b) \in WellFormedInterval
  BY <1>1, <1>3 DEF WellFormedInterval, WellFormed, Interval, U64
<1>5. ASSUME NEW q
      PROVE  q \in Points(Extend(a, b)) <=> q \in Points(a) \cup Points(b)
  BY <1>1, <1>2, <1>3 DEF Points, U64
<1> QED BY <1>1, <1>3, <1>4, <1>5 DEF U64

(* Replacing the last interval by one that adds the lines of iv. *)
LEMMA CoveredReplaceLast ==
    ASSUME NEW list \in Seq(WellFormedInterval), list # <<>>,
           NEW new \in WellFormedInterval, NEW iv,
           Points(new) = Points(list[Len(list)]) \cup Points(iv)
    PROVE  /\ [list EXCEPT ![Len(list)] = new] \in Seq(WellFormedInterval)
           /\ Covered([list EXCEPT ![Len(list)] = new]) = Covered(list) \cup Points(iv)
<1> DEFINE n == Len(list)
           l2 == [list EXCEPT ![n] = new]
<1>1. n \in Nat /\ n >= 1
  OBVIOUS
<1>2. /\ l2 \in Seq(WellFormedInterval) /\ Len(l2) = n /\ l2[n] = new
      /\ \A i \in 1 .. n - 1 : l2[i] = list[i]
  BY <1>1
<1>3. ASSUME NEW q PROVE q \in Covered(l2) <=> q \in Covered(list) \cup Points(iv)
  <2>1. q \in Covered(l2) <=> \E i \in 1 .. n : q \in Points(l2[i])
    BY <1>2, CoveredMember DEF Covered
  <2>2. q \in Covered(list) <=> \E i \in 1 .. n : q \in Points(list[i])
    BY CoveredMember DEF Covered
  <2>3. \A i \in 1 .. n : i \in 1 .. n - 1 \/ i = n
    BY <1>1
  <2>4. n \in 1 .. n /\ 1 .. n - 1 \subseteq 1 .. n
    BY <1>1
  <2>5. Points(l2[n]) = Points(list[n]) \cup Points(iv)
    BY <1>2
  <2> HIDE DEF l2, n
  <2> QED BY <1>2, <2>1, <2>2, <2>3, <2>4, <2>5
<1> QED BY <1>2, <1>3

(* One more element of a list is one more set of lines. *)
LEMMA CoveredNext ==
    ASSUME NEW list, NEW n \in Nat
    PROVE  CoveredUpTo(list, n + 1) = CoveredUpTo(list, n) \cup Points(list[n + 1])
<1>1. 1 .. n + 1 = (1 .. n) \cup {n + 1}
  OBVIOUS
<1>2. ASSUME NEW q
      PROVE  q \in CoveredUpTo(list, n + 1)
               <=> q \in CoveredUpTo(list, n) \cup Points(list[n + 1])
  BY <1>1, CoveredMember
<1> QED BY <1>2

-----------------------------------------------------------------------------
(***************************************************************************)
(* The inductive invariant.  EvidencePreserved survives the end of a merge *)
(* only because the sorted copy covers what the list covered, and the      *)
(* merge step covers what it should only because the sort makes the last   *)
(* merged interval start no later than the next one.                       *)
(***************************************************************************)
MergeLoop ==
    pc = "merge" =>
      /\ file \in todo
      /\ Ascending(sorted)
      /\ Covered(sorted) = Covered(byFile[file])
      /\ at = 1 => merged = <<>>
      /\ at > 1 => /\ merged # <<>>
                   /\ merged[Len(merged)].start <= sorted[at - 1].start

IInv == /\ TypeOK
        /\ EvidencePreserved
        /\ MergeCoversPrefix
        /\ CanonicalForm
        /\ MergeLoop

-----------------------------------------------------------------------------
(* Lemmas about single steps. *)

(* A good item's bounds are a well-formed interval of a file of Files. *)
LEMMA GoodBounds ==
    ASSUME NEW item \in Item, GoodItem(item)
    PROVE  /\ NormalizeFileKey(item.file) \in Files
           /\ Bounds(item) \in WellFormedInterval
           /\ Points(Bounds(item)) = Points(item)
  BY DEF Item, RawKey, GoodItem, NormalizeFileKey, Bounds, WellFormedInterval,
         WellFormed, Interval, Points

(* The items read so far are members of Item. *)
LEMMA ItemType ==
    ASSUME TypeOK
    PROVE  /\ items \in Seq(Item)
           /\ index \in Nat \ {0} /\ index <= Len(items) + 1
           /\ Len(items) \in Nat
           /\ \A i \in 1 .. Len(items) : items[i] \in Item
<1>1. items \in Seq(Item)
  BY DEF TypeOK
<1> QED BY <1>1 DEF TypeOK

(* The validation loop, one item on. *)
LEMMA NamedNext ==
    ASSUME TypeOK, index <= Len(items), items' = items, index' = index + 1,
           NEW f \in Files
    PROVE  Named(f)' = Named(f) \cup
             (IF GoodItem(items[index]) /\ NormalizeFileKey(items[index].file) = f
              THEN Points(items[index]) ELSE {})
<1>1. index \in Nat /\ 1 .. index' - 1 = (1 .. index - 1) \cup {index}
  BY ItemType DEF TypeOK
<1> DEFINE Hit(k) == GoodItem(items[k]) /\ NormalizeFileKey(items[k].file) = f
<1>2. ASSUME NEW q
      PROVE  q \in Named(f) <=> \E k \in 1 .. index - 1 : Hit(k) /\ q \in Points(items[k])
  BY DEF Named
<1>3. ASSUME NEW q
      PROVE  q \in Named(f)' <=> \E k \in 1 .. index' - 1 : Hit(k) /\ q \in Points(items[k])
  BY DEF Named
<1>4. ASSUME NEW q
      PROVE  q \in Named(f)' <=>
               q \in Named(f) \cup (IF Hit(index) THEN Points(items[index]) ELSE {})
  <2> HIDE DEF Hit
  <2> QED BY <1>1, <1>2, <1>3
<1> QED BY <1>4

(* Nothing but the validation loop changes what the items name. *)
LEMMA NamedStable ==
    ASSUME items' = items, index' = index, NEW f
    PROVE  Named(f)' = Named(f)
  BY DEF Named

(* What the merge loop knows of the two intervals it compares. *)
LEMMA MergeStepOrder ==
    ASSUME TypeOK, MergeLoop, pc = "merge", at <= Len(sorted), merged # <<>>
    PROVE  /\ merged[Len(merged)] \in WellFormedInterval
           /\ sorted[at] \in WellFormedInterval
           /\ merged[Len(merged)].start <= sorted[at].start
<1>1. /\ sorted \in Seq(WellFormedInterval) /\ merged \in Seq(WellFormedInterval)
      /\ at \in 1 .. Len(sorted)
  BY DEF TypeOK
<1>2. /\ at > 1
      /\ merged[Len(merged)].start <= sorted[at - 1].start
      /\ at - 1 \in DOMAIN sorted /\ at \in DOMAIN sorted /\ at - 1 < at
  BY <1>1 DEF MergeLoop
<1>3. LexLeq(sorted[at - 1], sorted[at])
  BY <1>2 DEF MergeLoop, Ascending
<1>4. /\ sorted[at - 1] \in WellFormedInterval /\ sorted[at] \in WellFormedInterval
      /\ merged[Len(merged)] \in WellFormedInterval
  BY <1>1, <1>2
<1>5. /\ sorted[at - 1].start \in Int /\ sorted[at].start \in Int
      /\ merged[Len(merged)].start \in Int
  BY <1>4 DEF WellFormedInterval, Interval, U64
<1> QED BY <1>2, <1>3, <1>4, <1>5 DEF LexLeq

(* The merge loop extends the last interval: the list stays separated. *)
LEMMA SeparatedReplaceLast ==
    ASSUME NEW list \in Seq(WellFormedInterval), list # <<>>, Separated(list),
           NEW new \in WellFormedInterval, new.start = list[Len(list)].start
    PROVE  Separated([list EXCEPT ![Len(list)] = new])
  BY DEF Separated

(* The merge loop pushes an interval that does not join the last one. *)
LEMMA SeparatedAppend ==
    ASSUME NEW list \in Seq(WellFormedInterval), Separated(list),
           NEW iv \in WellFormedInterval,
           list # <<>> => ~Joins(list[Len(list)], iv)
    PROVE  Separated(Append(list, iv))
<1> DEFINE n == Len(list)
<1>1. n \in Nat /\ \A i \in 1 .. n : list[i] \in WellFormedInterval
  OBVIOUS
<1>2. \A w \in WellFormedInterval : w.start \in U64 /\ w.end \in U64 /\ w.start <= w.end
  BY DEF WellFormedInterval, WellFormed, Interval
<1>3. ASSUME NEW i \in 1 .. n PROVE list[i].end + 1 < iv.start
  <2>1. n >= 1 /\ list # <<>> /\ n \in 1 .. n
    BY <1>1
  <2>2. list[n].end + 1 < iv.start
    BY <1>1, <1>2, <2>1 DEF Joins, SatAdd, U64
  <2>3. CASE i = n
    BY <2>2, <2>3
  <2>4. CASE i # n
    <3>1. list[i].end + 1 < list[n].start
      BY <1>1, <2>1, <2>4 DEF Separated
    <3> QED BY <1>1, <1>2, <2>1, <2>2, <3>1 DEF U64
  <2> QED BY <2>3, <2>4
<1>4. ASSUME NEW i \in 1 .. n + 1, NEW j \in 1 .. n + 1, i < j
      PROVE  Append(list, iv)[i].end + 1 < Append(list, iv)[j].start
  <2>1. i \in 1 .. n /\ Append(list, iv)[i] = list[i]
    BY <1>1, <1>4
  <2>2. CASE j = n + 1
    BY <1>3, <2>1, <2>2
  <2>3. CASE j \in 1 .. n
    BY <1>4, <2>1, <2>3 DEF Separated
  <2> QED BY <1>1, <2>2, <2>3
<1> QED BY <1>4 DEF Separated

LEMMA EmptyList == Covered(<<>>) = {} /\ Separated(<<>>)
<1>1. \A q : q \notin Covered(<<>>)
  BY CoveredMember DEF Covered
<1> QED BY <1>1 DEF Separated

-----------------------------------------------------------------------------
(* The invariant holds initially. *)
LEMMA InitIInv == Init => IInv
<1> SUFFICES ASSUME Init PROVE IInv
  OBVIOUS
<1>1. items \in Seq(Item)
  BY DEF Init
<1>2. TypeOK
  BY <1>1 DEF Init, TypeOK
<1>3. ASSUME NEW f \in Files PROVE Covered(byFile[f]) = Named(f)
  <2>1. 1 .. index - 1 = {}
    BY DEF Init
  <2>2. Named(f) = {}
    BY <2>1 DEF Named
  <2> QED BY <2>2, EmptyList DEF Init
<1> QED BY <1>2, <1>3, EmptyList
        DEF IInv, Init, EvidencePreserved, MergeCoversPrefix, CanonicalForm, MergeLoop

(* Reading a good item. *)
LEMMA ScanGoodStep == IInv /\ ScanGood => IInv'
<1> SUFFICES ASSUME IInv, ScanGood PROVE IInv'
  OBVIOUS
<1> DEFINE key == NormalizeFileKey(items[index].file)
           iv == Bounds(items[index])
<1>1. TypeOK /\ pc = "scan" /\ pc' = "scan"
  BY DEF IInv, ScanGood
<1>2. index \in 1 .. Len(items) /\ items[index] \in Item
  BY <1>1, ItemType DEF ScanGood, TypeOK
<1>3. key \in Files /\ iv \in WellFormedInterval /\ Points(iv) = Points(items[index])
  BY <1>2, GoodBounds DEF ScanGood
<1>4. byFile' = [byFile EXCEPT ![key] = Append(byFile[key], iv)]
  BY DEF ScanGood
<1> HIDE DEF iv
<1>5. TypeOK'
  <2>1. Append(byFile[key], iv) \in Seq(WellFormedInterval)
    BY <1>1, <1>3 DEF TypeOK
  <2>2. byFile' \in [Files -> Seq(WellFormedInterval)]
    BY <1>1, <1>3, <1>4, <2>1 DEF TypeOK
  <2> QED BY <1>1, <1>2, <2>2, ItemType DEF TypeOK, ScanGood, mergeVars
<1>6. EvidencePreserved'
  <2> SUFFICES ASSUME NEW f \in Files PROVE Covered(byFile'[f]) = Named(f)'
    BY DEF EvidencePreserved
  <2>1. Named(f)' = Named(f) \cup (IF key = f THEN Points(items[index]) ELSE {})
    BY <1>1, NamedNext DEF ScanGood
  <2>2. Covered(byFile[f]) = Named(f) /\ byFile[f] \in Seq(WellFormedInterval)
    BY <1>1 DEF IInv, EvidencePreserved, TypeOK
  <2>3. CASE f = key
    <3>1. byFile'[f] = Append(byFile[f], iv)
      BY <1>1, <1>3, <1>4, <2>3 DEF TypeOK
    <3> QED BY <1>3, <2>1, <2>2, <2>3, <3>1, CoveredAppend
  <2>4. CASE f # key
    <3>1. byFile'[f] = byFile[f]
      BY <1>1, <1>3, <1>4, <2>4 DEF TypeOK
    <3> QED BY <2>1, <2>2, <2>4, <3>1
  <2> QED BY <2>3, <2>4
<1>7. MergeCoversPrefix' /\ CanonicalForm' /\ MergeLoop'
  BY <1>1 DEF IInv, ScanGood, mergeVars, MergeCoversPrefix, CanonicalForm, MergeLoop
<1> QED BY <1>5, <1>6, <1>7 DEF IInv

(* Reading a bad item. *)
LEMMA ScanBadStep == IInv /\ ScanBad => IInv'
<1> SUFFICES ASSUME IInv, ScanBad PROVE IInv'
  OBVIOUS
<1>1. TypeOK /\ pc = "scan" /\ pc' = "scan"
  BY DEF IInv, ScanBad
<1>2. index \in 1 .. Len(items) /\ index \in Nat \ {0}
  BY <1>1, ItemType DEF ScanBad, TypeOK
<1>3. TypeOK'
  <2>1. violations' \subseteq Violation
    BY <1>1, <1>2 DEF TypeOK, ScanBad, Violation, Refusal
  <2> QED BY <1>1, <1>2, <2>1, ItemType DEF TypeOK, ScanBad, mergeVars
<1>4. EvidencePreserved'
  <2> SUFFICES ASSUME NEW f \in Files PROVE Covered(byFile'[f]) = Named(f)'
    BY DEF EvidencePreserved
  <2>1. Named(f)' = Named(f)
    BY <1>1, NamedNext DEF ScanBad
  <2> QED BY <2>1 DEF IInv, EvidencePreserved, ScanBad
<1>5. MergeCoversPrefix' /\ CanonicalForm' /\ MergeLoop'
  BY <1>1 DEF IInv, ScanBad, mergeVars, MergeCoversPrefix, CanonicalForm, MergeLoop
<1> QED BY <1>3, <1>4, <1>5 DEF IInv

(* Leaving the validation loop: no list is merged yet. *)
LEMMA EndScanStep == IInv /\ EndScan => IInv'
<1> SUFFICES ASSUME IInv, EndScan PROVE IInv'
  OBVIOUS
<1>1. TypeOK'
  BY DEF IInv, EndScan, TypeOK, mergeVars
<1>2. EvidencePreserved'
  BY NamedStable DEF IInv, EvidencePreserved, EndScan
<1>3. CanonicalForm'
  <2>1. \A f \in Files : f \notin todo' => byFile'[f] = <<>>
    BY DEF EndScan
  <2> QED BY <2>1, EmptyList DEF IInv, CanonicalForm, EndScan, mergeVars
<1>4. MergeCoversPrefix' /\ MergeLoop'
  BY DEF EndScan, MergeCoversPrefix, MergeLoop
<1> QED BY <1>1, <1>2, <1>3, <1>4 DEF IInv

(* Sorting the list of a file and entering the merge loop. *)
LEMMA StartFileStep == IInv /\ StartFile => IInv'
<1> SUFFICES ASSUME IInv, StartFile PROVE IInv'
  OBVIOUS
<1>1. PICK f \in todo : file' = f /\ sorted' \in SortedVersions(byFile[f])
  BY DEF StartFile
<1>2. TypeOK /\ f \in Files /\ byFile[f] \in Seq(WellFormedInterval)
  BY DEF IInv, TypeOK
<1>3. /\ sorted' \in Seq(WellFormedInterval) /\ Ascending(sorted')
      /\ Covered(sorted') = Covered(byFile[f])
  BY <1>1, <1>2, SortedVersion
<1>4. TypeOK'
  <2>1. 1 \in 1 .. Len(sorted') + 1
    BY <1>3
  <2> QED BY <1>1, <1>2, <1>3, <2>1 DEF TypeOK, StartFile
<1>5. EvidencePreserved'
  BY NamedStable DEF IInv, EvidencePreserved, StartFile
<1>6. MergeCoversPrefix'
  <2>1. CoveredUpTo(sorted', 0) = {}
    <3>1. 1 .. 0 = {}
      OBVIOUS
    <3>2. \A q : q \notin CoveredUpTo(sorted', 0)
      BY <3>1, CoveredMember
    <3> QED BY <3>2
  <2>2. at' - 1 = 0 /\ merged' = <<>>
    BY DEF StartFile
  <2> QED BY <2>1, <2>2, EmptyList DEF MergeCoversPrefix
<1>7. CanonicalForm'
  BY EmptyList DEF IInv, CanonicalForm, StartFile
<1>8. MergeLoop'
  BY <1>1, <1>3 DEF MergeLoop, StartFile
<1> QED BY <1>4, <1>5, <1>6, <1>7, <1>8 DEF IInv

(* An iteration that extends the last merged interval. *)
LEMMA MergeExtendStep == IInv /\ MergeExtend => IInv'
<1> SUFFICES ASSUME IInv, MergeExtend PROVE IInv'
  OBVIOUS
<1> DEFINE a == merged[Len(merged)]
           b == sorted[at]
<1>1. TypeOK /\ MergeLoop /\ pc = "merge" /\ at \in Nat \ {0}
  BY DEF IInv, MergeExtend, TypeOK
<1>2. a \in WellFormedInterval /\ b \in WellFormedInterval /\ a.start <= b.start
  BY <1>1, MergeStepOrder DEF MergeExtend
<1>3. /\ Extend(a, b) \in WellFormedInterval
      /\ Extend(a, b).start = a.start
      /\ Points(Extend(a, b)) = Points(a) \cup Points(b)
  BY <1>2, ExtendPoints DEF MergeExtend
<1>4. merged' = [merged EXCEPT ![Len(merged)] = Extend(a, b)]
  BY DEF MergeExtend
<1>5. merged \in Seq(WellFormedInterval) /\ merged # <<>> /\ Separated(merged)
  BY <1>1 DEF IInv, MergeExtend, TypeOK, CanonicalForm
<1>6. /\ merged' \in Seq(WellFormedInterval)
      /\ Covered(merged') = Covered(merged) \cup Points(b)
  BY <1>3, <1>4, <1>5, CoveredReplaceLast
<1>7. TypeOK'
  BY <1>1, <1>6 DEF TypeOK, MergeExtend
<1>8. EvidencePreserved'
  BY NamedStable DEF IInv, EvidencePreserved, MergeExtend
<1>9. MergeCoversPrefix'
  <2>1. CoveredUpTo(sorted, (at - 1) + 1) = CoveredUpTo(sorted, at - 1) \cup Points(sorted[(at - 1) + 1])
    BY <1>1, CoveredNext
  <2>2. (at - 1) + 1 = at /\ (at + 1) - 1 = at
    BY <1>1
  <2> QED BY <1>1, <1>6, <2>1, <2>2 DEF IInv, MergeCoversPrefix, MergeExtend
<1>10. CanonicalForm'
  BY <1>3, <1>4, <1>5, SeparatedReplaceLast DEF IInv, CanonicalForm, MergeExtend
<1>11. MergeLoop'
  <2>1. Len(merged') = Len(merged) /\ merged' # <<>> /\ merged'[Len(merged')] = Extend(a, b)
    BY <1>4, <1>5, <1>6
  <2>2. (at + 1) - 1 = at /\ at + 1 # 1
    BY <1>1
  <2> QED BY <1>1, <1>2, <1>3, <2>1, <2>2 DEF MergeLoop, MergeExtend
<1> QED BY <1>7, <1>8, <1>9, <1>10, <1>11 DEF IInv

(* An iteration that pushes an interval. *)
LEMMA MergePushStep == IInv /\ MergePush => IInv'
<1> SUFFICES ASSUME IInv, MergePush PROVE IInv'
  OBVIOUS
<1> DEFINE b == sorted[at]
<1>1. TypeOK /\ MergeLoop /\ pc = "merge" /\ at \in 1 .. Len(sorted) /\ at \in Nat \ {0}
  BY DEF IInv, MergePush, TypeOK
<1>2. b \in WellFormedInterval /\ b.start \in Int
  <2>1. b \in WellFormedInterval
    BY <1>1 DEF TypeOK
  <2> QED BY <2>1 DEF WellFormedInterval, Interval, U64
<1>3. merged' = Append(merged, b)
  BY DEF MergePush
<1>4. merged \in Seq(WellFormedInterval) /\ Separated(merged)
  BY <1>1 DEF IInv, TypeOK, CanonicalForm
<1>5. /\ merged' \in Seq(WellFormedInterval)
      /\ Covered(merged') = Covered(merged) \cup Points(b)
  BY <1>2, <1>3, <1>4, CoveredAppend
<1>6. TypeOK'
  BY <1>1, <1>5 DEF TypeOK, MergePush
<1>7. EvidencePreserved'
  BY NamedStable DEF IInv, EvidencePreserved, MergePush
<1>8. MergeCoversPrefix'
  <2>1. CoveredUpTo(sorted, (at - 1) + 1) = CoveredUpTo(sorted, at - 1) \cup Points(sorted[(at - 1) + 1])
    BY <1>1, CoveredNext
  <2>2. (at - 1) + 1 = at /\ (at + 1) - 1 = at
    BY <1>1
  <2> QED BY <1>1, <1>5, <2>1, <2>2 DEF IInv, MergeCoversPrefix, MergePush
<1>9. CanonicalForm'
  BY <1>2, <1>3, <1>4, SeparatedAppend DEF IInv, CanonicalForm, MergePush
<1>10. MergeLoop'
  <2>1. Len(merged') = Len(merged) + 1 /\ merged' # <<>> /\ merged'[Len(merged')] = b
    BY <1>2, <1>3, <1>4
  <2>2. (at + 1) - 1 = at /\ at + 1 # 1
    BY <1>1
  <2> QED BY <1>1, <1>2, <2>1, <2>2 DEF MergeLoop, MergePush
<1> QED BY <1>6, <1>7, <1>8, <1>9, <1>10 DEF IInv

(* Storing the merged list of a file. *)
LEMMA FinishFileStep == IInv /\ FinishFile => IInv'
<1> SUFFICES ASSUME IInv, FinishFile PROVE IInv'
  OBVIOUS
<1>1. /\ TypeOK /\ file \in Files
      /\ merged \in Seq(WellFormedInterval) /\ Separated(merged)
  BY DEF IInv, FinishFile, TypeOK, MergeLoop, CanonicalForm
<1>2. at - 1 = Len(sorted)
  BY <1>1 DEF TypeOK, FinishFile
<1>3. Covered(merged) = Covered(byFile[file])
  BY <1>2 DEF IInv, FinishFile, MergeCoversPrefix, MergeLoop, Covered
<1>4. \A f \in Files : byFile'[f] = IF f = file THEN merged ELSE byFile[f]
  BY <1>1 DEF TypeOK, FinishFile
<1>5. TypeOK'
  BY <1>1 DEF TypeOK, FinishFile, mergeVars
<1>6. EvidencePreserved'
  BY <1>3, <1>4, NamedStable DEF IInv, EvidencePreserved, FinishFile
<1>7. CanonicalForm'
  BY <1>1, <1>4 DEF IInv, CanonicalForm, FinishFile, mergeVars
<1>8. MergeCoversPrefix' /\ MergeLoop'
  BY DEF FinishFile, MergeCoversPrefix, MergeLoop
<1> QED BY <1>5, <1>6, <1>7, <1>8 DEF IInv

(* Returning, and steps that change nothing. *)
LEMMA ReturnStep == IInv /\ Return => IInv'
<1> SUFFICES ASSUME IInv, Return PROVE IInv'
  OBVIOUS
<1>1. TypeOK'
  BY DEF IInv, Return, TypeOK, mergeVars
<1>2. EvidencePreserved'
  BY NamedStable DEF IInv, EvidencePreserved, Return
<1>3. CanonicalForm' /\ MergeCoversPrefix' /\ MergeLoop'
  BY DEF IInv, Return, CanonicalForm, MergeCoversPrefix, MergeLoop, mergeVars
<1> QED BY <1>1, <1>2, <1>3 DEF IInv

LEMMA StutterStep == IInv /\ UNCHANGED vars => IInv'
<1> SUFFICES ASSUME IInv, UNCHANGED vars PROVE IInv'
  OBVIOUS
<1>1. EvidencePreserved'
  BY NamedStable DEF IInv, EvidencePreserved, vars
<1>2. TypeOK' /\ CanonicalForm' /\ MergeCoversPrefix' /\ MergeLoop'
  BY DEF IInv, vars, TypeOK, CanonicalForm, MergeCoversPrefix, MergeLoop
<1> QED BY <1>1, <1>2 DEF IInv

-----------------------------------------------------------------------------
(* The inductive invariant holds in every state of normalize_set. *)
THEOREM Invariance == Spec => []IInv
<1>1. IInv /\ [Next]_vars => IInv'
  BY ScanGoodStep, ScanBadStep, EndScanStep, StartFileStep, MergeExtendStep,
     MergePushStep, FinishFileStep, ReturnStep, StutterStep
     DEF Next, Done
<1> QED BY InitIInv, <1>1, PTL DEF Spec

(* Every state of normalize_set is of its type. *)
THEOREM TypeCorrect == Spec => []TypeOK
<1>1. IInv => TypeOK
  BY DEF IInv
<1> QED BY Invariance, <1>1, PTL

(* Grouping, sorting and merging neither lose nor invent a line of the     *)
(* evidence, in any iteration of either loop.                              *)
THEOREM NoLineLost == Spec => []EvidencePreserved
<1>1. IInv => EvidencePreserved
  BY DEF IInv
<1> QED BY Invariance, <1>1, PTL

(* The merge loop covers the sorted prefix it has consumed. *)
THEOREM MergeCorrect == Spec => []MergeCoversPrefix
<1>1. IInv => MergeCoversPrefix
  BY DEF IInv
<1> QED BY Invariance, <1>1, PTL

(* Every list the merge stores is in canonical form: disjoint intervals,   *)
(* no two of which touch, also next to u64::MAX.                           *)
THEOREM AlwaysCanonical == Spec => []CanonicalForm
<1>1. IInv => CanonicalForm
  BY DEF IInv
<1> QED BY Invariance, <1>1, PTL

-----------------------------------------------------------------------------
(***************************************************************************)
(* normalize_set implements EvidenceSpec.  The step that returns must know *)
(* that the loop has read every item and recorded exactly the bad ones.    *)
(***************************************************************************)
BadSoFar == {k \in 1 .. index - 1 : ~GoodItem(items[k])}

Recorded ==
    /\ violations = {<<Refusal(items[k]), k>> : k \in BadSoFar}
    /\ pc # "scan" => index = Len(items) + 1
    /\ pc \in {"files", "merge", "ok"} => violations = {}
    /\ pc = "err" => violations # {}

LEMMA RecordedStep == TypeOK /\ Recorded /\ [Next]_vars => Recorded'
<1> SUFFICES ASSUME TypeOK, Recorded, [Next]_vars PROVE Recorded'
  OBVIOUS
<1>1. index \in Nat \ {0} /\ index <= Len(items) + 1 /\ Len(items) \in Nat
  BY ItemType
<1>2. CASE ScanGood
  <2>1. 1 .. index' - 1 = (1 .. index - 1) \cup {index}
    BY <1>1, <1>2 DEF ScanGood
  <2>2. BadSoFar' = BadSoFar
    BY <1>2, <2>1 DEF ScanGood, BadSoFar
  <2> QED BY <1>2, <2>2 DEF ScanGood, Recorded
<1>3. CASE ScanBad
  <2>1. 1 .. index' - 1 = (1 .. index - 1) \cup {index}
    BY <1>1, <1>3 DEF ScanBad
  <2>2. BadSoFar' = BadSoFar \cup {index}
    BY <1>3, <2>1 DEF ScanBad, BadSoFar
  <2>3. violations' = {<<Refusal(items[k]), k>> : k \in BadSoFar'}
    BY <1>3, <2>2 DEF ScanBad, Recorded
  <2> QED BY <1>3, <2>3 DEF ScanBad, Recorded
<1>4. CASE EndScan
  <2>1. index' = Len(items') + 1
    BY <1>1, <1>4 DEF EndScan, TypeOK
  <2> QED BY <1>4, <2>1 DEF EndScan, Recorded, BadSoFar
<1>5. CASE StartFile \/ MergeExtend \/ MergePush \/ FinishFile \/ Return
  BY <1>5 DEF StartFile, MergeExtend, MergePush, FinishFile, Return,
              Recorded, BadSoFar
<1>6. CASE UNCHANGED vars
  BY <1>6 DEF vars, Recorded, BadSoFar
<1> QED BY <1>2, <1>3, <1>4, <1>5, <1>6 DEF Next, Done

LEMMA InitRecorded == Init => Recorded
<1> SUFFICES ASSUME Init PROVE Recorded
  OBVIOUS
<1>1. 1 .. index - 1 = {}
  BY DEF Init
<1> QED BY <1>1 DEF Init, Recorded, BadSoFar

(* EvidenceSpec reads an item as normalize_set does. *)
LEMMA SameReading ==
    ASSUME NEW item \in Item
    PROVE  /\ Abstract!Legal(item) <=> GoodItem(item)
           /\ Abstract!NormalizeFileKey(item.file) = NormalizeFileKey(item.file)
           /\ Abstract!Refusal(item) = Refusal(item)
           /\ Abstract!Points(item) = Points(item)
<1>1. Abstract!NormalizeFileKey(item.file) = NormalizeFileKey(item.file)
  BY DEF Abstract!NormalizeFileKey, NormalizeFileKey, Abstract!Refused, Refused
<1>2. item.start \in Nat /\ item.end \in Nat /\ Abstract!Points(item) = item.start .. item.end
  BY DEF Item, U64, Abstract!Points
<1>3. Abstract!Points(item) # {} /\ 0 \notin Abstract!Points(item) <=> WellFormed(item)
  <2>1. CASE WellFormed(item)
    <3>1. item.start \in Abstract!Points(item) /\ 0 \notin Abstract!Points(item)
      BY <1>2, <2>1 DEF WellFormed
    <3> QED BY <2>1, <3>1
  <2>2. CASE ~WellFormed(item)
    <3>1. CASE item.start <= item.end
      BY <1>2, <2>2, <3>1 DEF WellFormed
    <3>2. CASE ~(item.start <= item.end)
      BY <1>2, <2>2, <3>2
    <3> QED BY <3>1, <3>2
  <2> QED BY <2>1, <2>2
<1> QED BY <1>1, <1>3 DEF Abstract!Legal, GoodItem, Abstract!Refusal, Refusal,
                          Abstract!Points, Points

(* When the loop is over, what it has seen is what EvidenceSpec sees. *)
LEMMA AllSeen ==
    ASSUME TypeOK, index = Len(items) + 1
    PROVE  /\ Abstract!BadItems = BadSoFar
           /\ BadSoFar = {} => \A f \in Files : Abstract!Lines(f) = Named(f)
<1>1. /\ items \in Seq(Item) /\ DOMAIN items = 1 .. Len(items)
      /\ 1 .. index - 1 = 1 .. Len(items)
  BY ItemType
<1>2. Abstract!BadItems = BadSoFar
  BY <1>1, ItemType, SameReading DEF Abstract!BadItems, BadSoFar
<1>3. ASSUME BadSoFar = {}, NEW f \in Files PROVE Abstract!Lines(f) = Named(f)
  <2>1. \A k \in 1 .. Len(items) : GoodItem(items[k])
    BY <1>1, <1>3 DEF BadSoFar
  <2> QED BY <1>1, <2>1, ItemType, SameReading DEF Abstract!Lines, Named
<1> QED BY <1>2, <1>3

(* The two loops together are one atomic step: every other step leaves the *)
(* outcome pending.                                                        *)
THEOREM ImplementsAtomicNormalize == Spec => Abstract!Safety
<1>1. Init => Abstract!Init
  BY DEF Init, Abstract!Init, Result, Abstract!Pending
<1>2. TypeOK /\ EvidencePreserved /\ Recorded /\ [Next]_vars
        => [Abstract!Normalize]_<<items, Result>>
  <2> SUFFICES ASSUME TypeOK, EvidencePreserved, Recorded, [Next]_vars
               PROVE  Abstract!Normalize \/ UNCHANGED <<items, Result>>
    OBVIOUS
  <2>1. CASE ScanGood \/ ScanBad \/ StartFile \/ MergeExtend \/ MergePush \/ FinishFile
    BY <2>1 DEF ScanGood, ScanBad, StartFile, MergeExtend, MergePush, FinishFile, Result
  <2>2. CASE EndScan
    <3>1. index = Len(items) + 1
      BY <2>2, ItemType DEF EndScan, TypeOK
    <3>2. CASE violations # {}
      <4>1. Result = Abstract!Pending
        BY <2>2 DEF EndScan, Result, Abstract!Pending
      <4>2. Result' = [kind |-> "err", violations |-> violations]
        BY <2>2, <3>2 DEF EndScan, Result
      <4>3. Abstract!BadItems = BadSoFar /\ BadSoFar # {}
        BY <3>1, <3>2, AllSeen DEF Recorded
      <4>4. Abstract!Outcome = [kind |-> "err", violations |-> violations]
        <5>1. \A i \in BadSoFar : Abstract!Refusal(items[i]) = Refusal(items[i])
          BY <3>1, ItemType, SameReading DEF BadSoFar
        <5>2. {<<Abstract!Refusal(items[i]), i>> : i \in BadSoFar} = violations
          BY <5>1 DEF Recorded
        <5> QED BY <4>3, <5>2 DEF Abstract!Outcome
      <4> QED BY <2>2, <4>1, <4>2, <4>4 DEF EndScan, Abstract!Normalize
    <3>3. CASE violations = {}
      BY <2>2, <3>3 DEF EndScan, Result
    <3> QED BY <3>2, <3>3
  <2>3. CASE Return
    <3>1. index = Len(items) + 1 /\ violations = {} /\ BadSoFar = {}
      BY <2>3 DEF Return, Recorded
    <3>2. Result = Abstract!Pending
      BY <2>3 DEF Return, Result, Abstract!Pending
    <3>3. Result' = [kind |-> "ok", lines |-> [f \in Files |-> Covered(byFile[f])]]
      BY <2>3 DEF Return, Result
    <3>4. \A f \in Files : Abstract!Lines(f) = Covered(byFile[f])
      BY <3>1, AllSeen DEF EvidencePreserved
    <3>5. Abstract!BadItems = {}
      BY <3>1, AllSeen
    <3>6. Abstract!Outcome = [kind |-> "ok", lines |-> [f \in Files |-> Covered(byFile[f])]]
      BY <3>4, <3>5 DEF Abstract!Outcome
    <3> QED BY <2>3, <3>2, <3>3, <3>6 DEF Return, Abstract!Normalize
  <2>4. CASE UNCHANGED vars
    BY <2>4 DEF vars, Result
  <2> QED BY <2>1, <2>2, <2>3, <2>4 DEF Next, Done
<1>3. Spec => []Recorded
  BY InitRecorded, RecordedStep, TypeCorrect, PTL DEF Spec
<1> QED BY <1>1, <1>2, <1>3, TypeCorrect, NoLineLost, PTL DEF Spec, Abstract!Safety
=============================================================================
