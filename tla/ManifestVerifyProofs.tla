------------------------ MODULE ManifestVerifyProofs ------------------------
(***************************************************************************)
(* audit_manifest and the verifier of the SWE-bench study, for every       *)
(* manifest: any number of records, any policy, any digests.               *)
(*                                                                         *)
(* The invariant says that the variables are functions of the case and of  *)
(* how far the two loops have come: groups, ids and counts are those of    *)
(* the records read (Seen), the findings and witnesses of a group are      *)
(* there as soon as it is visited (Visited).  What the report says then    *)
(* follows from the case alone, and the properties are facts about sets    *)
(* of positions: that an ordinal names one id, that the largest position   *)
(* of an id is what a last-write-wins consumer keeps, and that swapping    *)
(* two records is a reordering.                                            *)
(***************************************************************************)
EXTENDS ManifestVerify, SequenceTheorems, FiniteSetTheorems, WellFoundedInduction, TLAPS

-----------------------------------------------------------------------------
(* The invariant *)

Positions == DOMAIN case.records

(* The records read so far and, of those, the ones with an id *)
Seen == {p \in Positions : p < position}
SeenAt(id) == {p \in Seen : case.records[p].id = id}
SeenIds == {case.records[p].id : p \in Seen} \ {Blank}
SeenValid == {p \in Seen : case.records[p].payload # BadDigest}
SeenInvalid == {p \in Seen : case.records[p].payload = BadDigest}
SeenBlank == {p \in Seen : case.records[p].id = Blank}

(* The groups whose findings are there *)
Visited == IF pc \in {"groups", "done"} THEN DOMAIN groups \ group ELSE {}
VisitedRepeated == {id \in Visited : Repeated(id)}
VisitedConflicting == {id \in Visited : Conflicting(id)}

Typed ==
    /\ case \in Cases
    /\ pc \in {"policy", "records", "groups", "done"}
    /\ position \in Nat \ {0} /\ position <= Len(case.records) + 1
    /\ pc = "policy" => position = 1
    /\ pc \in {"groups", "done"} => position > Len(case.records)
    /\ pc \in {"groups", "done"} => group \subseteq DOMAIN groups
    /\ pc = "done" => group = {}

Collected ==
    /\ groups = [id \in SeenIds |-> SeenAt(id)]
    /\ validIds = {case.records[p].id : p \in SeenValid} \ {Blank}
    /\ unapproved = IF PolicyValid(case) THEN SeenIds \ Range(case.allowed) ELSE {}
    /\ pc \in {"groups", "done"} =>
         missing = IF PolicyValid(case) THEN {id \in Range(case.required) : id \notin validIds}
                                        ELSE {}

Counted ==
    /\ counts \in [{"duplicate", "conflicting", "invalid"} -> Nat]
    /\ counts["duplicate"] = Cardinality(VisitedRepeated)
    /\ counts["conflicting"] = Cardinality(VisitedConflicting)
    /\ counts["invalid"] = Cardinality(SeenInvalid)

Witnessed == witnesses = {Witness(id) : id \in VisitedConflicting}

GroupNumber(id) == Ordinal(DOMAIN groups, id)

(* The findings, by the step that makes them *)
PolicyFindings ==
    IF pc = "policy" THEN {}
    ELSE When(~case.schemaOk, <<"EF000", 0>>) \cup When(~case.caseIdOk, <<"EF003", 0>>)
           \cup When(~PolicyValid(case), <<"EF210", 0>>)

RecordFindings ==
    {<<"EF201", p>> : p \in SeenBlank} \cup {<<"EF209", p>> : p \in SeenInvalid}

IdFindings ==
    IF pc \in {"groups", "done"}
    THEN {<<"EF204", Ordinal(unapproved, id)>> : id \in unapproved}
           \cup {<<"EF205", Ordinal(Range(case.required), id)>> : id \in missing}
    ELSE {}

GroupFindings ==
    {<<"EF202", GroupNumber(id)>> : id \in VisitedRepeated}
      \cup {<<"EF203", GroupNumber(id)>> : id \in VisitedConflicting}
      \cup {<<"EF208", GroupNumber(id)>> : id \in VisitedConflicting}

CountFindings == IF pc = "done" THEN ReportedFindings(case) ELSE {}

Found == findings = PolicyFindings \cup RecordFindings \cup IdFindings
                      \cup GroupFindings \cup CountFindings

Reported ==
    pc = "done" =>
      report = [passed      |-> findings = {},
                records     |-> Len(case.records),
                unique      |-> Cardinality(DOMAIN groups),
                duplicate   |-> counts["duplicate"],
                conflicting |-> counts["conflicting"],
                collapses   |-> Cardinality(witnesses),
                unapproved  |-> Cardinality(unapproved),
                missing     |-> Cardinality(missing),
                invalid     |-> counts["invalid"]]

IInv == Typed /\ Collected /\ Counted /\ Witnessed /\ Found /\ Reported

-----------------------------------------------------------------------------
(* Lemmas about sets of positions and of ids. *)

LEMMA Records ==
    ASSUME case \in Cases
    PROVE  /\ Len(case.records) \in Nat /\ Positions = 1 .. Len(case.records)
           /\ IsFiniteSet(Positions)
           /\ \A p \in Positions :
                /\ case.records[p].id \in Nat \cup {Blank}
                /\ case.records[p] = [id |-> case.records[p].id, payload |-> case.records[p].payload]
<1>1. /\ case.records \in Seq(Range(case.records))
      /\ \A r \in Range(case.records) : r \in [id : Nat \cup {Blank}, payload : {r.payload}]
  BY CasesAssumption
<1>2. Len(case.records) \in Nat /\ Positions = 1 .. Len(case.records)
  BY <1>1 DEF Positions
<1>3. IsFiniteSet(Positions)
  BY <1>2, FS_Interval
<1>4. \A p \in Positions : case.records[p] \in Range(case.records)
  BY DEF Range, Positions
<1>5. ASSUME NEW p \in Positions
      PROVE  /\ case.records[p].id \in Nat \cup {Blank}
             /\ case.records[p] = [id |-> case.records[p].id, payload |-> case.records[p].payload]
  <2> DEFINE r == case.records[p]
  <2>1. r \in [id : Nat \cup {Blank}, payload : {r.payload}]
    BY <1>1, <1>4
  <2> HIDE DEF r
  <2>2. r.id \in Nat \cup {Blank} /\ r = [id |-> r.id, payload |-> r.payload]
    BY <2>1
  <2> QED BY <2>2 DEF r
<1> QED BY <1>2, <1>3, <1>5

(* A set with more than one element has two. *)
LEMMA MoreThanOne ==
    ASSUME NEW S, IsFiniteSet(S)
    PROVE  /\ Cardinality(S) \in Nat
           /\ Cardinality(S) > 1 <=> \E x, y \in S : x # y
<1>1. Cardinality(S) \in Nat
  BY FS_CardinalityType
<1>2. ASSUME NEW x \in S, NEW y \in S, x # y PROVE Cardinality(S) > 1
  <2>1. Cardinality(S) # 0
    BY FS_EmptySet
  <2>2. ASSUME Cardinality(S) = 1 PROVE FALSE
    <3>1. \E z : S = {z}
      BY <2>2, FS_Singleton
    <3> QED BY <1>2, <3>1
  <2> QED BY <1>1, <2>1, <2>2
<1>3. ASSUME \A x, y \in S : x = y PROVE ~(Cardinality(S) > 1)
  <2>1. CASE S = {}
    BY <2>1, FS_EmptySet
  <2>2. CASE \E z : S = {z}
    BY <2>2, FS_Singleton
  <2>3. S = {} \/ \E z : S = {z}
    <3>1. SUFFICES ASSUME NEW z \in S PROVE S = {z}
      OBVIOUS
    <3> QED BY <1>3, <3>1
  <2> QED BY <2>1, <2>2, <2>3
<1> QED BY <1>1, <1>2, <1>3

LEMMA FirstIsLeast ==
    ASSUME NEW S \in SUBSET Nat, S # {}
    PROVE  FirstOf(S) \in S /\ \A q \in S : FirstOf(S) <= q
<1> DEFINE R == OpToRel(<, Nat)
<1>1. IsWellFoundedOn(R, Nat)
  BY NatLessThanWellFounded
<1>2. \A x, y \in Nat : <<y, x>> \in R <=> y < x
  BY DEF OpToRel
<1> HIDE DEF R
<1>3. \E x \in S : \A y \in S : ~(<<y, x>> \in R)
  BY <1>1, WFMin
<1>4. PICK x \in S : \A y \in S : ~(<<y, x>> \in R)
  BY <1>3
<1>5. \A y \in S : x <= y
  <2> SUFFICES ASSUME NEW y \in S PROVE x <= y
    OBVIOUS
  <2>1. x \in Nat /\ y \in Nat /\ ~(y < x)
    BY <1>2, <1>4
  <2> QED BY <2>1
<1> QED BY <1>5 DEF FirstOf

LEMMA LastIsGreatest ==
    ASSUME NEW n \in Nat, NEW S \in SUBSET (1 .. n), S # {}
    PROVE  LastOf(S) \in S /\ \A q \in S : q <= LastOf(S)
<1> DEFINE T == {n - p : p \in S}
           m == FirstOf(T)
<1>1. T \in SUBSET Nat /\ T # {}
  <2>1. \A p \in S : n - p \in Nat
    OBVIOUS
  <2> QED BY <2>1
<1>2. m \in T /\ \A t \in T : m <= t
  BY <1>1, FirstIsLeast
<1>3. \A p \in S : m <= n - p
  BY <1>2
<1>4. PICK p \in S : m = n - p
  BY <1>2
<1> HIDE DEF m
<1>5. \A q \in S : q <= p
  BY <1>3, <1>4
<1> QED BY <1>5 DEF LastOf

(* An ordinal names one id. *)
LEMMA OrdinalNames ==
    ASSUME NEW ids \in SUBSET Nat, IsFiniteSet(ids), NEW i \in ids, NEW j \in ids,
           Ordinal(ids, i) = Ordinal(ids, j)
    PROVE  i = j
<1>1. SUFFICES ASSUME NEW a \in ids, NEW b \in ids, a < b PROVE Ordinal(ids, a) # Ordinal(ids, b)
  BY <1>1
<1> DEFINE A == {k \in ids : k <= a}
           B == {k \in ids : k <= b}
<1>2. A \in SUBSET B /\ b \in B /\ b \notin A
  <2>1. \A k \in ids : k \in Nat /\ (k <= a => k <= b)
    BY <1>1
  <2>2. b <= b /\ ~(b <= a)
    BY <1>1
  <2> QED BY <2>1, <2>2
<1>3. IsFiniteSet(B)
  <2>1. B \in SUBSET ids
    OBVIOUS
  <2> QED BY <2>1, FS_Subset
<1> HIDE DEF A, B
<1>4. Cardinality(A) # Cardinality(B)
  BY <1>2, <1>3, FS_Subset
<1> QED BY <1>4 DEF A, B, Ordinal

(* As many findings as ids, when they are numbered apart. *)
Coded(code, S, f) == {<<code, f[x]>> : x \in S}

LEMMA NumberedApart ==
    ASSUME NEW code, NEW S, IsFiniteSet(S), NEW f, \A x, y \in S : f[x] = f[y] => x = y
    PROVE  Cardinality(Coded(code, S, f)) = Cardinality(S)
<1> DEFINE T == {<<code, f[x]>> : x \in S}
           g == [x \in S |-> <<code, f[x]>>]
<1>1. g \in [S -> T] /\ \A t \in T : \E x \in S : g[x] = t
  OBVIOUS
<1>2. \A x, y \in S : g[x] = g[y] => x = y
  OBVIOUS
<1> HIDE DEF g, T
<1>3. g \in Bijection(S, T)
  BY <1>1, <1>2 DEF Bijection, Injection, Surjection, IsInjective
<1>4. ExistsBijection(S, T)
  BY <1>3 DEF ExistsBijection
<1>5. Cardinality(T) = Cardinality(S)
  BY <1>4, FS_Bijection
<1> QED BY <1>5 DEF T, Coded

(* What the loop has read is finite. *)
LEMMA ReadIsFinite ==
    ASSUME Typed, Collected
    PROVE  /\ IsFiniteSet(Seen) /\ IsFiniteSet(SeenIds) /\ SeenIds \in SUBSET Nat
           /\ IsFiniteSet(SeenInvalid)
           /\ DOMAIN groups = SeenIds
           /\ \A id \in SeenIds : groups[id] = SeenAt(id) /\ IsFiniteSet(SeenAt(id))
<1>1. Seen \in SUBSET Positions /\ IsFiniteSet(Positions)
  BY Records DEF Seen, Typed
<1>2. IsFiniteSet(Seen)
  BY <1>1, FS_Subset
<1>3. IsFiniteSet(SeenIds)
  <2> DEFINE Ids == {case.records[p].id : p \in Seen}
             g == [p \in Seen |-> case.records[p].id]
  <2>1. g \in Surjection(Seen, Ids)
    BY DEF Surjection
  <2>2. IsFiniteSet(Ids)
    BY <1>2, <2>1, FS_Surjection
  <2>3. SeenIds \in SUBSET Ids
    BY DEF SeenIds
  <2> QED BY <2>2, <2>3, FS_Subset
<1>4. SeenIds \in SUBSET Nat
  BY <1>1, Records DEF SeenIds, Typed
<1>5. SeenInvalid \in SUBSET Seen /\ \A id : SeenAt(id) \in SUBSET Seen
  BY DEF SeenInvalid, SeenAt
<1>6. IsFiniteSet(SeenInvalid) /\ \A id : IsFiniteSet(SeenAt(id))
  BY <1>2, <1>5, FS_Subset
<1> QED BY <1>2, <1>3, <1>4, <1>6 DEF Collected

-----------------------------------------------------------------------------
(* The initial states and the steps. *)

LEMMA InitIInv == Init => IInv
<1> SUFFICES ASSUME Init PROVE IInv
  OBVIOUS
<1>1. case \in Cases /\ pc = "policy" /\ position = 1 /\ Len(case.records) \in Nat
  BY Records DEF Init
<1>2. Seen = {}
  <2>1. \A p \in Positions : ~(p < 1)
    BY <1>1, Records
  <2> QED BY <1>1, <2>1 DEF Seen
<1>3. SeenIds = {} /\ SeenValid = {} /\ SeenInvalid = {} /\ SeenBlank = {} /\ Visited = {}
  BY <1>1, <1>2 DEF SeenIds, SeenValid, SeenInvalid, SeenBlank, Visited
<1>4. VisitedRepeated = {} /\ VisitedConflicting = {}
  BY <1>3 DEF VisitedRepeated, VisitedConflicting
<1>5. Typed
  BY <1>1 DEF Typed
<1>6. Collected
  BY <1>1, <1>3 DEF Init, Collected
<1>7. Counted
  <2>1. Cardinality({}) = 0
    BY FS_EmptySet
  <2> QED BY <1>3, <1>4, <2>1 DEF Init, Counted
<1>8. Witnessed
  BY <1>4 DEF Init, Witnessed
<1>9. Found
  BY <1>1, <1>3, <1>4 DEF Init, Found, PolicyFindings, RecordFindings, IdFindings,
                          GroupFindings, CountFindings
<1>10. Reported
  BY <1>1 DEF Reported
<1> QED BY <1>5, <1>6, <1>7, <1>8, <1>9, <1>10 DEF IInv

(* What depends on the records read alone stays when no record is read. *)
LEMMA SameRecords ==
    ASSUME UNCHANGED <<case, position>>
    PROVE  /\ UNCHANGED <<Positions, Seen, SeenIds, SeenValid, SeenInvalid, SeenBlank,
                          RecordFindings>>
           /\ \A id : SeenAt(id)' = SeenAt(id)
  BY DEF Positions, Seen, SeenIds, SeenAt, SeenValid, SeenInvalid, SeenBlank, RecordFindings

(* What is said of a group depends on the records and the groups alone. *)
LEMMA SameGroups ==
    ASSUME UNCHANGED <<case, groups>>
    PROVE  \A id : /\ Repeated(id)' = Repeated(id) /\ Conflicting(id)' = Conflicting(id)
                   /\ Witness(id)' = Witness(id) /\ GroupNumber(id)' = GroupNumber(id)
  BY DEF Repeated, Conflicting, Witness, GroupNumber, Payloads, ValidPositions

(* No group is visited before the last loop. *)
LEMMA NoneVisited ==
    ASSUME Visited = {}
    PROVE  VisitedRepeated = {} /\ VisitedConflicting = {} /\ GroupFindings = {}
  BY DEF VisitedRepeated, VisitedConflicting, GroupFindings

LEMMA PolicyStep ==
    ASSUME IInv, CheckPolicy
    PROVE  IInv'
<1>1. /\ pc = "policy" /\ pc' = "records"
      /\ UNCHANGED <<case, position, groups, validIds, unapproved, missing, group,
                     counts, witnesses, report>>
  BY DEF CheckPolicy
<1>2. Visited = {} /\ Visited' = {}
  BY <1>1 DEF Visited
<1>3. /\ VisitedRepeated = {} /\ VisitedConflicting = {} /\ GroupFindings = {}
      /\ VisitedRepeated' = {} /\ VisitedConflicting' = {} /\ GroupFindings' = {}
  BY <1>2, NoneVisited DEF VisitedRepeated, VisitedConflicting, GroupFindings
<1>4. Typed'
  BY <1>1 DEF IInv, Typed
<1>5. Collected'
  BY <1>1, SameRecords DEF IInv, Collected, PolicyValid
<1>6. Counted' /\ Witnessed'
  BY <1>1, <1>3, SameRecords DEF IInv, Counted, Witnessed
<1>7. Found'
  <2>1. Seen = {}
    <3>1. \A p \in Positions : ~(p < 1)
      BY Records DEF IInv, Typed
    <3> QED BY <1>1, <3>1 DEF IInv, Typed, Seen
  <2>2. RecordFindings' = {}
    BY <1>1, <2>1, SameRecords DEF RecordFindings, SeenBlank, SeenInvalid
  <2>3. findings' = PolicyFindings'
    BY <1>1 DEF CheckPolicy, PolicyFindings, PolicyValid
  <2> QED BY <1>1, <1>3, <2>2, <2>3 DEF Found, IdFindings, CountFindings
<1>8. Reported'
  BY <1>1 DEF Reported
<1> QED BY <1>4, <1>5, <1>6, <1>7, <1>8 DEF IInv

(* Reading a record. *)
LEMMA RecordStep ==
    ASSUME IInv, ReadRecord
    PROVE  IInv'
<1> DEFINE r == case.records[position]
<1>1. /\ pc = "records" /\ position <= Len(case.records) /\ position' = position + 1
      /\ UNCHANGED <<case, pc, missing, group, witnesses, report>>
      /\ groups' = IF r.id # Blank THEN AddTo(groups, r.id, position) ELSE groups
      /\ unapproved' = unapproved \cup
           When((r.id # Blank) /\ PolicyValid(case) /\ r.id \notin Range(case.allowed), r.id)
      /\ validIds' = validIds \cup When((r.id # Blank) /\ (r.payload # BadDigest), r.id)
      /\ counts' = [counts EXCEPT !["invalid"] = IF r.payload # BadDigest THEN @ ELSE @ + 1]
      /\ findings' = findings \cup When(r.id = Blank, <<"EF201", position>>)
                       \cup When(r.payload = BadDigest, <<"EF209", position>>)
  BY DEF ReadRecord, InvalidDigest
<1>2. /\ position \in Nat \ {0} /\ position \in Positions /\ Positions = 1 .. Len(case.records)
      /\ Len(case.records) \in Nat
  BY <1>1, Records DEF IInv, Typed
<1>3. Seen' = Seen \cup {position} /\ position \notin Seen
  <2>1. \A p \in Positions : p < position + 1 <=> p < position \/ p = position
    BY <1>2
  <2> QED BY <1>1, <1>2, <2>1 DEF Seen, Positions
<1>4. /\ SeenIds' = SeenIds \cup When(r.id # Blank, r.id)
      /\ SeenValid' = SeenValid \cup When(r.payload # BadDigest, position)
      /\ SeenInvalid' = SeenInvalid \cup When(r.payload = BadDigest, position)
      /\ SeenBlank' = SeenBlank \cup When(r.id = Blank, position)
      /\ \A id : SeenAt(id)' = SeenAt(id) \cup When(r.id = id, position)
  <2>1. SeenIds' = SeenIds \cup When(r.id # Blank, r.id)
    BY <1>1, <1>3 DEF SeenIds, When
  <2>2. SeenValid' = SeenValid \cup When(r.payload # BadDigest, position)
    BY <1>1, <1>3 DEF SeenValid, When
  <2>3. SeenInvalid' = SeenInvalid \cup When(r.payload = BadDigest, position)
    BY <1>1, <1>3 DEF SeenInvalid, When
  <2>4. SeenBlank' = SeenBlank \cup When(r.id = Blank, position)
    BY <1>1, <1>3 DEF SeenBlank, When
  <2>5. \A id : SeenAt(id)' = SeenAt(id) \cup When(r.id = id, position)
    BY <1>1, <1>3 DEF SeenAt, When
  <2> QED BY <2>1, <2>2, <2>3, <2>4, <2>5
<1>5. Visited = {} /\ Visited' = {}
  BY <1>1 DEF Visited
<1>6. /\ VisitedRepeated = {} /\ VisitedConflicting = {} /\ GroupFindings = {}
      /\ VisitedRepeated' = {} /\ VisitedConflicting' = {} /\ GroupFindings' = {}
  BY <1>5, NoneVisited DEF VisitedRepeated, VisitedConflicting, GroupFindings
<1>7. Typed'
  BY <1>1, <1>2 DEF IInv, Typed
<1>8. Collected'
  <2>1. groups = [id \in SeenIds |-> SeenAt(id)]
    BY DEF IInv, Collected
  <2>2. groups' = [id \in SeenIds' |-> SeenAt(id)']
    <3>1. CASE r.id = Blank
      <4>1. SeenIds' = SeenIds /\ \A id \in SeenIds : SeenAt(id)' = SeenAt(id)
        BY <1>4, <3>1 DEF When, SeenIds
      <4> QED BY <1>1, <2>1, <3>1, <4>1
    <3>2. CASE r.id # Blank
      <4>1. SeenIds' = SeenIds \cup {r.id}
        BY <1>4, <3>2 DEF When
      <4>2. r.id \notin SeenIds => SeenAt(r.id) = {}
        BY <3>2 DEF SeenIds, SeenAt
      <4>3. groups' = [k \in SeenIds \cup {r.id} |->
                         IF k \in SeenIds THEN SeenAt(k) \cup When(k = r.id, position) ELSE {position}]
        BY <1>1, <2>1, <3>2 DEF AddTo
      <4>4. \A k \in SeenIds \cup {r.id} :
              SeenAt(k)' = IF k \in SeenIds THEN SeenAt(k) \cup When(k = r.id, position) ELSE {position}
        BY <1>4, <4>2 DEF When
      <4> QED BY <4>1, <4>3, <4>4
    <3> QED BY <3>1, <3>2
  <2>3. validIds' = {case.records[p].id : p \in SeenValid'} \ {Blank}
    BY <1>1, <1>4 DEF IInv, Collected, When
  <2>4. unapproved' = IF PolicyValid(case) THEN SeenIds' \ Range(case.allowed) ELSE {}
    BY <1>1, <1>4 DEF IInv, Collected, When
  <2> QED BY <1>1, <2>2, <2>3, <2>4 DEF Collected, PolicyValid
<1>9. Counted'
  <2>1. /\ counts \in [{"duplicate", "conflicting", "invalid"} -> Nat]
        /\ counts["invalid"] = Cardinality(SeenInvalid)
        /\ counts["duplicate"] = Cardinality({}) /\ counts["conflicting"] = Cardinality({})
    BY <1>6 DEF IInv, Counted
  <2>2. /\ counts' \in [{"duplicate", "conflicting", "invalid"} -> Nat]
        /\ counts'["duplicate"] = counts["duplicate"]
        /\ counts'["conflicting"] = counts["conflicting"]
        /\ counts'["invalid"] = IF r.payload = BadDigest THEN counts["invalid"] + 1
                                                         ELSE counts["invalid"]
    BY <1>1, <2>1
  <2>3. Cardinality(SeenInvalid') = IF r.payload = BadDigest THEN Cardinality(SeenInvalid) + 1
                                                             ELSE Cardinality(SeenInvalid)
    <3>1. IsFiniteSet(SeenInvalid) /\ position \notin SeenInvalid
      BY <1>3, ReadIsFinite DEF IInv, SeenInvalid
    <3>2. Cardinality(SeenInvalid \cup {position}) = Cardinality(SeenInvalid) + 1
      BY <3>1, FS_AddElement
    <3> QED BY <1>4, <3>2 DEF When
  <2> QED BY <1>6, <2>1, <2>2, <2>3 DEF Counted
<1>10. Witnessed'
  BY <1>1, <1>6 DEF IInv, Witnessed
<1>11. Found'
  <2>1. RecordFindings' = RecordFindings \cup When(r.id = Blank, <<"EF201", position>>)
                            \cup When(r.payload = BadDigest, <<"EF209", position>>)
    BY <1>4 DEF RecordFindings, When
  <2>2. UNCHANGED PolicyFindings
    BY <1>1 DEF PolicyFindings, PolicyValid
  <2>3. /\ IdFindings = {} /\ CountFindings = {}
        /\ IdFindings' = {} /\ CountFindings' = {}
    BY <1>1 DEF IdFindings, CountFindings
  <2>4. findings = PolicyFindings \cup RecordFindings
    BY <1>6, <2>3 DEF IInv, Found
  <2>5. findings' = PolicyFindings' \cup RecordFindings'
    BY <1>1, <2>1, <2>2, <2>4
  <2> QED BY <1>6, <2>3, <2>5 DEF Found
<1>12. Reported'
  BY <1>1 DEF Reported
<1> QED BY <1>7, <1>8, <1>9, <1>10, <1>11, <1>12 DEF IInv

(* What the record loop has collected does not change after it. *)
LEMMA StillCollected ==
    ASSUME IInv, UNCHANGED <<case, position, groups, validIds, unapproved>>,
           pc' \in {"groups", "done"} =>
             missing' = IF PolicyValid(case) THEN {id \in Range(case.required) : id \notin validIds}
                                             ELSE {}
    PROVE  Collected'
<1>1. SeenIds' = SeenIds /\ SeenValid' = SeenValid /\ \A id : SeenAt(id)' = SeenAt(id)
  BY SameRecords
<1>2. groups' = [id \in SeenIds' |-> SeenAt(id)']
  BY <1>1 DEF IInv, Collected
<1> QED BY <1>1, <1>2 DEF IInv, Collected, PolicyValid

LEMMA IdsStep ==
    ASSUME IInv, CheckIds
    PROVE  IInv'
<1>1. /\ pc = "records" /\ pc' = "groups" /\ position > Len(case.records)
      /\ group' = DOMAIN groups
      /\ missing' = IF PolicyValid(case) THEN {id \in Range(case.required) : id \notin validIds}
                                         ELSE {}
      /\ findings' = findings
           \cup {<<"EF204", Ordinal(unapproved, id)>> : id \in unapproved}
           \cup {<<"EF205", Ordinal(Range(case.required), id)>> : id \in missing'}
      /\ UNCHANGED <<case, position, groups, validIds, unapproved, counts, witnesses, report>>
  BY DEF CheckIds, CoveredBy
<1>2. Visited = {} /\ Visited' = {}
  BY <1>1 DEF Visited
<1>3. /\ VisitedRepeated = {} /\ VisitedConflicting = {} /\ GroupFindings = {}
      /\ VisitedRepeated' = {} /\ VisitedConflicting' = {} /\ GroupFindings' = {}
  BY <1>2, NoneVisited DEF VisitedRepeated, VisitedConflicting, GroupFindings
<1>4. Typed'
  BY <1>1 DEF IInv, Typed
<1>5. Collected'
  BY <1>1, StillCollected
<1>6. Counted' /\ Witnessed'
  BY <1>1, <1>3, SameRecords DEF IInv, Counted, Witnessed
<1>7. Found'
  <2>1. PolicyFindings' = PolicyFindings /\ RecordFindings' = RecordFindings
    BY <1>1, SameRecords DEF PolicyFindings, PolicyValid
  <2>2. IdFindings = {} /\ CountFindings = {} /\ CountFindings' = {}
    BY <1>1 DEF IdFindings, CountFindings
  <2>3. IdFindings' = {<<"EF204", Ordinal(unapproved, id)>> : id \in unapproved}
                        \cup {<<"EF205", Ordinal(Range(case.required), id)>> : id \in missing'}
    BY <1>1 DEF IdFindings, Ordinal
  <2>4. findings = PolicyFindings \cup RecordFindings
    BY <1>3, <2>2 DEF IInv, Found
  <2>5. findings' = PolicyFindings' \cup RecordFindings' \cup IdFindings'
    BY <1>1, <2>1, <2>3, <2>4
  <2> QED BY <1>3, <2>2, <2>5 DEF Found
<1>8. Reported'
  BY <1>1 DEF Reported
<1> QED BY <1>4, <1>5, <1>6, <1>7, <1>8 DEF IInv

(* Visiting a group. *)
LEMMA GroupStep ==
    ASSUME IInv, CheckGroup
    PROVE  IInv'
<1>1. /\ pc = "groups" /\ pc' = "groups"
      /\ UNCHANGED <<case, position, groups, validIds, unapproved, missing, report>>
  BY DEF CheckGroup
<1>2. PICK id \in group :
        /\ group' = group \ {id}
        /\ counts' = [counts EXCEPT
             !["duplicate"] = @ + (IF Repeated(id) THEN 1 ELSE 0),
             !["conflicting"] = @ + (IF Conflicting(id) THEN 1 ELSE 0)]
        /\ findings' = findings
             \cup When(Repeated(id), <<"EF202", GroupNumber(id)>>)
             \cup When(Conflicting(id), <<"EF203", GroupNumber(id)>>)
             \cup When(Conflicting(id), <<"EF208", GroupNumber(id)>>)
        /\ witnesses' = witnesses \cup (IF Conflicting(id) THEN {Witness(id)} ELSE {})
  BY DEF CheckGroup, GroupNumber
<1>3. /\ group \subseteq DOMAIN groups /\ DOMAIN groups' = DOMAIN groups
      /\ IsFiniteSet(DOMAIN groups)
  BY <1>1, ReadIsFinite DEF IInv, Typed
<1>4. Visited' = Visited \cup {id} /\ id \notin Visited /\ Visited \in SUBSET DOMAIN groups
  BY <1>1, <1>2, <1>3 DEF Visited
<1>5. \A k : /\ Repeated(k)' = Repeated(k) /\ Conflicting(k)' = Conflicting(k)
             /\ Witness(k)' = Witness(k) /\ GroupNumber(k)' = GroupNumber(k)
  BY <1>1, SameGroups
<1>6. /\ VisitedRepeated' = VisitedRepeated \cup When(Repeated(id), id)
      /\ VisitedConflicting' = VisitedConflicting \cup When(Conflicting(id), id)
      /\ id \notin VisitedRepeated /\ id \notin VisitedConflicting
  <2>1. VisitedRepeated' = {k \in Visited' : Repeated(k)}
    BY <1>5 DEF VisitedRepeated
  <2>2. VisitedConflicting' = {k \in Visited' : Conflicting(k)}
    BY <1>5 DEF VisitedConflicting
  <2> QED BY <1>4, <2>1, <2>2 DEF VisitedRepeated, VisitedConflicting, When
<1>7. Typed'
  BY <1>1, <1>2, <1>3 DEF IInv, Typed
<1>8. Collected'
  BY <1>1, StillCollected DEF IInv, Collected
<1>9. Counted'
  <2>1. IsFiniteSet(VisitedRepeated) /\ IsFiniteSet(VisitedConflicting)
    <3>1. VisitedRepeated \in SUBSET DOMAIN groups /\ VisitedConflicting \in SUBSET DOMAIN groups
      BY <1>4 DEF VisitedRepeated, VisitedConflicting
    <3> QED BY <1>3, <3>1, FS_Subset
  <2>2. /\ Cardinality(VisitedRepeated \cup {id}) = Cardinality(VisitedRepeated) + 1
        /\ Cardinality(VisitedConflicting \cup {id}) = Cardinality(VisitedConflicting) + 1
    BY <1>6, <2>1, FS_AddElement
  <2>3. /\ counts \in [{"duplicate", "conflicting", "invalid"} -> Nat]
        /\ counts["duplicate"] = Cardinality(VisitedRepeated)
        /\ counts["conflicting"] = Cardinality(VisitedConflicting)
        /\ counts["invalid"] = Cardinality(SeenInvalid)
    BY DEF IInv, Counted
  <2>4. /\ counts' \in [{"duplicate", "conflicting", "invalid"} -> Nat]
        /\ counts'["duplicate"] = IF Repeated(id) THEN counts["duplicate"] + 1 ELSE counts["duplicate"]
        /\ counts'["conflicting"] = IF Conflicting(id) THEN counts["conflicting"] + 1
                                                       ELSE counts["conflicting"]
        /\ counts'["invalid"] = counts["invalid"]
    BY <1>2, <2>3
  <2>5. counts'["duplicate"] = Cardinality(VisitedRepeated')
    BY <1>6, <2>2, <2>3, <2>4 DEF When
  <2>6. counts'["conflicting"] = Cardinality(VisitedConflicting')
    BY <1>6, <2>2, <2>3, <2>4 DEF When
  <2>7. SeenInvalid' = SeenInvalid
    BY <1>1, SameRecords
  <2> QED BY <2>3, <2>4, <2>5, <2>6, <2>7 DEF Counted
<1>10. Witnessed'
  <2>1. {Witness(k)' : k \in VisitedConflicting'} = {Witness(k) : k \in VisitedConflicting'}
    BY <1>5
  <2>2. {Witness(k) : k \in VisitedConflicting'} =
          {Witness(k) : k \in VisitedConflicting} \cup (IF Conflicting(id) THEN {Witness(id)} ELSE {})
    BY <1>6 DEF When
  <2> QED BY <1>2, <2>1, <2>2 DEF IInv, Witnessed
<1>11. Found'
  <2>1. /\ PolicyFindings' = PolicyFindings /\ RecordFindings' = RecordFindings
        /\ IdFindings' = IdFindings
    BY <1>1, SameRecords DEF PolicyFindings, PolicyValid, IdFindings, Ordinal
  <2>2. CountFindings = {} /\ CountFindings' = {}
    BY <1>1 DEF CountFindings
  <2>3. GroupFindings' = GroupFindings
             \cup When(Repeated(id), <<"EF202", GroupNumber(id)>>)
             \cup When(Conflicting(id), <<"EF203", GroupNumber(id)>>)
             \cup When(Conflicting(id), <<"EF208", GroupNumber(id)>>)
    <3>1. GroupFindings' = {<<"EF202", GroupNumber(k)>> : k \in VisitedRepeated'}
                             \cup {<<"EF203", GroupNumber(k)>> : k \in VisitedConflicting'}
                             \cup {<<"EF208", GroupNumber(k)>> : k \in VisitedConflicting'}
      BY <1>5 DEF GroupFindings
    <3>2. {<<"EF202", GroupNumber(k)>> : k \in VisitedRepeated'} =
            {<<"EF202", GroupNumber(k)>> : k \in VisitedRepeated}
              \cup When(Repeated(id), <<"EF202", GroupNumber(id)>>)
      BY <1>6 DEF When
    <3>3. {<<"EF203", GroupNumber(k)>> : k \in VisitedConflicting'} =
            {<<"EF203", GroupNumber(k)>> : k \in VisitedConflicting}
              \cup When(Conflicting(id), <<"EF203", GroupNumber(id)>>)
      BY <1>6 DEF When
    <3>4. {<<"EF208", GroupNumber(k)>> : k \in VisitedConflicting'} =
            {<<"EF208", GroupNumber(k)>> : k \in VisitedConflicting}
              \cup When(Conflicting(id), <<"EF208", GroupNumber(id)>>)
      BY <1>6 DEF When
    <3> QED BY <3>1, <3>2, <3>3, <3>4, Zenon DEF GroupFindings
  <2>4. findings = PolicyFindings \cup RecordFindings \cup IdFindings \cup GroupFindings
    BY <2>2 DEF IInv, Found
  <2>5. findings' = PolicyFindings \cup RecordFindings \cup IdFindings \cup GroupFindings'
    BY <1>2, <2>3, <2>4
  <2> QED BY <2>1, <2>2, <2>5 DEF Found
<1>12. Reported'
  BY <1>1 DEF Reported
<1> QED BY <1>7, <1>8, <1>9, <1>10, <1>11, <1>12 DEF IInv

LEMMA FinishStep ==
    ASSUME IInv, Finish
    PROVE  IInv'
<1>1. /\ pc = "groups" /\ pc' = "done" /\ group = {}
      /\ findings' = findings \cup ReportedFindings(case)
      /\ UNCHANGED <<case, position, groups, validIds, unapproved, missing, group,
                     counts, witnesses>>
  BY DEF Finish
<1>2. Visited' = Visited
  BY <1>1 DEF Visited
<1>3. /\ VisitedRepeated' = VisitedRepeated /\ VisitedConflicting' = VisitedConflicting
      /\ GroupFindings' = GroupFindings
      /\ {Witness(k)' : k \in VisitedConflicting} = {Witness(k) : k \in VisitedConflicting}
  BY <1>1, <1>2, SameGroups DEF VisitedRepeated, VisitedConflicting, GroupFindings
<1>4. Typed'
  BY <1>1 DEF IInv, Typed
<1>5. Collected'
  BY <1>1, StillCollected DEF IInv, Collected
<1>6. Counted' /\ Witnessed'
  BY <1>1, <1>3, SameRecords DEF IInv, Counted, Witnessed
<1>7. Found'
  <2>1. /\ PolicyFindings' = PolicyFindings /\ RecordFindings' = RecordFindings
        /\ IdFindings' = IdFindings
    BY <1>1, SameRecords DEF PolicyFindings, PolicyValid, IdFindings, Ordinal
  <2>2. CountFindings = {} /\ CountFindings' = ReportedFindings(case)
    BY <1>1 DEF CountFindings, ReportedFindings
  <2> QED BY <1>1, <1>3, <2>1, <2>2 DEF IInv, Found
<1>8. Reported'
  BY <1>1 DEF Finish, Reported
<1> QED BY <1>4, <1>5, <1>6, <1>7, <1>8 DEF IInv

LEMMA StillStep ==
    ASSUME IInv, UNCHANGED vars
    PROVE  IInv'
<1>1. UNCHANGED <<case, pc, position, groups, validIds, unapproved, missing, group,
                  findings, counts, witnesses, report>>
  BY DEF vars
<1>2. Visited' = Visited
  BY <1>1 DEF Visited
<1>3. /\ VisitedRepeated' = VisitedRepeated /\ VisitedConflicting' = VisitedConflicting
      /\ GroupFindings' = GroupFindings
      /\ {Witness(k)' : k \in VisitedConflicting} = {Witness(k) : k \in VisitedConflicting}
  BY <1>1, <1>2, SameGroups DEF VisitedRepeated, VisitedConflicting, GroupFindings
<1>4. Typed' /\ Reported'
  BY <1>1 DEF IInv, Typed, Reported
<1>5. Collected'
  BY <1>1, StillCollected DEF IInv, Collected
<1>6. Counted' /\ Witnessed'
  BY <1>1, <1>3, SameRecords DEF IInv, Counted, Witnessed
<1>7. Found'
  <2>1. /\ PolicyFindings' = PolicyFindings /\ RecordFindings' = RecordFindings
        /\ IdFindings' = IdFindings /\ CountFindings' = CountFindings
    BY <1>1, SameRecords DEF PolicyFindings, PolicyValid, IdFindings, Ordinal, CountFindings,
                             ReportedFindings
  <2> QED BY <1>1, <1>3, <2>1 DEF IInv, Found
<1> QED BY <1>4, <1>5, <1>6, <1>7 DEF IInv

LEMMA NextIInv == IInv /\ [Next]_vars => IInv'
  BY PolicyStep, RecordStep, IdsStep, GroupStep, FinishStep, StillStep DEF Next, Done

LEMMA Invariance == Spec => []IInv
  BY InitIInv, NextIInv, PTL DEF Spec

-----------------------------------------------------------------------------
(* What is known at the end, said of the case alone. *)

RecordsAt(id) == {p \in Positions : case.records[p].id = id}
ValidAt(id) == {p \in RecordsAt(id) : case.records[p].payload # BadDigest}
HeldOf(id) == {case.records[p].payload : p \in RecordsAt(id)} \ {BadDigest}

RepeatedIds == {id \in RecordIds : Cardinality(RecordsAt(id)) > 1}
ConflictingIds == {id \in RecordIds : Cardinality(HeldOf(id)) > 1}
InvalidRecords == {p \in Positions : case.records[p].payload = BadDigest}

(* Which digests an id holds, and where. *)
LEMMA HeldFacts ==
    ASSUME case \in Cases, NEW id
    PROVE  /\ IsFiniteSet(RecordsAt(id)) /\ IsFiniteSet(HeldOf(id))
           /\ HeldOf(id) = {case.records[p].payload : p \in ValidAt(id)}
           /\ Cardinality(HeldOf(id)) > 1 <=>
                \E p, q \in ValidAt(id) : case.records[p].payload # case.records[q].payload
           /\ Cardinality(HeldOf(id)) > 1 => Cardinality(RecordsAt(id)) > 1
<1>1. IsFiniteSet(RecordsAt(id))
  <2>1. RecordsAt(id) \in SUBSET Positions /\ IsFiniteSet(Positions)
    BY Records DEF RecordsAt
  <2> QED BY <2>1, FS_Subset
<1>2. HeldOf(id) = {case.records[p].payload : p \in ValidAt(id)}
  BY DEF HeldOf, ValidAt
<1>3. IsFiniteSet(HeldOf(id))
  <2> DEFINE g == [p \in ValidAt(id) |-> case.records[p].payload]
  <2>1. g \in Surjection(ValidAt(id), HeldOf(id))
    BY <1>2 DEF Surjection
  <2>2. IsFiniteSet(ValidAt(id))
    <3>1. ValidAt(id) \in SUBSET RecordsAt(id)
      BY DEF ValidAt
    <3> QED BY <1>1, <3>1, FS_Subset
  <2> QED BY <2>1, <2>2, FS_Surjection
<1>4. Cardinality(HeldOf(id)) > 1 <=>
        \E p, q \in ValidAt(id) : case.records[p].payload # case.records[q].payload
  <2>1. Cardinality(HeldOf(id)) > 1 <=> \E x, y \in HeldOf(id) : x # y
    BY <1>3, MoreThanOne
  <2> QED BY <1>2, <2>1
<1>5. ASSUME Cardinality(HeldOf(id)) > 1 PROVE Cardinality(RecordsAt(id)) > 1
  <2>1. \E p, q \in RecordsAt(id) : p # q
    BY <1>4, <1>5 DEF ValidAt
  <2> QED BY <1>1, <2>1, MoreThanOne
<1> QED BY <1>1, <1>2, <1>3, <1>4, <1>5

LEMMA AtTheEnd ==
    ASSUME IInv, pc = "done"
    PROVE  /\ Seen = Positions /\ SeenInvalid = InvalidRecords
           /\ DOMAIN groups = RecordIds /\ Visited = RecordIds
           /\ IsFiniteSet(RecordIds) /\ RecordIds \in SUBSET Nat
           /\ \A id \in RecordIds : groups[id] = RecordsAt(id) /\ ValidPositions(id) = ValidAt(id)
           /\ \A id \in RecordIds : Payloads(id) = HeldOf(id)
           /\ VisitedRepeated = RepeatedIds /\ VisitedConflicting = ConflictingIds
           /\ \A id : id \in validIds <=> id # Blank /\ HeldOf(id) # {}
           /\ unapproved = IF PolicyValid(case) THEN RecordIds \ Range(case.allowed) ELSE {}
           /\ missing = IF PolicyValid(case) THEN {id \in Range(case.required) : HeldOf(id) = {}}
                                             ELSE {}
<1>1. case \in Cases /\ position > Len(case.records) /\ group = {} /\ Typed /\ Collected
      /\ position \in Nat
  BY DEF IInv, Typed
<1>2. Seen = Positions
  <2>1. Len(case.records) \in Nat /\ Positions = 1 .. Len(case.records)
    BY <1>1, Records
  <2>2. \A p \in Positions : p < position
    BY <1>1, <2>1
  <2> QED BY <2>2 DEF Seen
<1>3. SeenIds = RecordIds /\ SeenInvalid = InvalidRecords
  BY <1>2 DEF SeenIds, RecordIds, SeenInvalid, InvalidRecords, Positions
<1>4. /\ DOMAIN groups = RecordIds /\ IsFiniteSet(RecordIds) /\ RecordIds \in SUBSET Nat
      /\ \A id \in RecordIds : groups[id] = SeenAt(id)
  BY <1>1, <1>3, ReadIsFinite
<1>5. Visited = RecordIds
  BY <1>1, <1>4 DEF Visited
<1>6. \A id \in RecordIds : groups[id] = RecordsAt(id) /\ ValidPositions(id) = ValidAt(id)
  BY <1>2, <1>4 DEF SeenAt, RecordsAt, ValidPositions, ValidAt
<1>7. \A id \in RecordIds : Payloads(id) = HeldOf(id)
  BY <1>1, <1>6, HeldFacts DEF Payloads
<1>8. VisitedRepeated = RepeatedIds
  BY <1>5, <1>6 DEF VisitedRepeated, RepeatedIds, Repeated
<1>9. VisitedConflicting = ConflictingIds
  <2>1. \A id \in RecordIds : Conflicting(id) <=> Cardinality(HeldOf(id)) > 1
    BY <1>1, <1>6, <1>7, HeldFacts DEF Conflicting, Repeated
  <2> QED BY <1>5, <2>1 DEF VisitedConflicting, ConflictingIds
<1>10. \A id : id \in validIds <=> id # Blank /\ HeldOf(id) # {}
  <2>1. validIds = {case.records[p].id : p \in SeenValid} \ {Blank}
    BY <1>1 DEF Collected
  <2>2. \A id : id \in validIds <=>
          /\ id # Blank
          /\ \E p \in Positions : case.records[p].id = id /\ case.records[p].payload # BadDigest
    BY <1>2, <2>1 DEF SeenValid
  <2>3. \A id : HeldOf(id) # {} <=>
          \E p \in Positions : case.records[p].id = id /\ case.records[p].payload # BadDigest
    BY DEF HeldOf, RecordsAt
  <2> QED BY <2>2, <2>3
<1>11. unapproved = IF PolicyValid(case) THEN RecordIds \ Range(case.allowed) ELSE {}
  BY <1>1, <1>3 DEF Collected
<1>12. missing = IF PolicyValid(case) THEN {id \in Range(case.required) : HeldOf(id) = {}} ELSE {}
  <2>1. PolicyValid(case) => \A id \in Range(case.required) : id # Blank
    BY DEF PolicyValid
  <2> QED BY <1>1, <1>10, <2>1 DEF Collected
<1> QED BY <1>2, <1>3, <1>4, <1>5, <1>6, <1>7, <1>8, <1>9, <1>10, <1>11, <1>12

(* audit_manifest: the counts of a report depend on the records of each id *)
(* and not on their order.                                                 *)
THEOREM CountsAreOrderFree == Spec => []CountsOrderFree
<1>1. IInv => CountsOrderFree
  <2> SUFFICES ASSUME IInv, pc = "done" PROVE CountsOrderFree
    BY DEF CountsOrderFree
  <2>1. /\ report.unique = Cardinality(DOMAIN groups)
        /\ report.duplicate = counts["duplicate"] /\ report.conflicting = counts["conflicting"]
        /\ report.unapproved = Cardinality(unapproved) /\ report.missing = Cardinality(missing)
    BY DEF IInv, Reported
  <2>2. /\ report.unique = Cardinality(RecordIds)
        /\ report.duplicate = Cardinality(RepeatedIds)
        /\ report.conflicting = Cardinality(ConflictingIds)
    BY <2>1, AtTheEnd DEF IInv, Counted
  <2>3. PolicyValid(case) =>
          /\ report.missing = Cardinality({id \in Range(case.required) : HeldOf(id) = {}})
          /\ report.unapproved = Cardinality(RecordIds \ Range(case.allowed))
    BY <2>1, AtTheEnd
  <2> QED BY <2>2, <2>3 DEF CountsOrderFree, RepeatedIds, ConflictingIds, HeldOf, RecordsAt,
                            Positions
<1> QED BY <1>1, Invariance, PTL

-----------------------------------------------------------------------------
(* Findings and counts *)

LEMMA ListFacts ==
    ASSUME NEW T, NEW list \in Seq(T)
    PROVE  /\ IsFiniteSet(Range(list)) /\ Range(list) \subseteq T
           /\ Distinct(list) <=> IsInjective(list)
<1>1. Len(list) \in Nat /\ DOMAIN list = 1 .. Len(list) /\ \A i \in DOMAIN list : list[i] \in T
  OBVIOUS
<1>2. list \in [1 .. Len(list) -> Range(list)] /\ Range(list) \subseteq T
  BY <1>1 DEF Range
<1>3. list \in Surjection(1 .. Len(list), Range(list))
  BY <1>1, <1>2 DEF Surjection, Range
<1>4. IsFiniteSet(1 .. Len(list)) /\ Cardinality(1 .. Len(list)) = Len(list)
  <2> DEFINE n == Len(list)
  <2>1. n \in Nat
    BY <1>1
  <2> HIDE DEF n
  <2>2. IsFiniteSet(1 .. n) /\ Cardinality(1 .. n) = n
    BY <2>1, FS_Interval
  <2> QED BY <2>2 DEF n
<1>5. /\ IsFiniteSet(Range(list))
      /\ Cardinality(Range(list)) = Len(list) <=> list \in Injection(1 .. Len(list), Range(list))
  BY <1>3, <1>4, FS_Surjection
<1>6. list \in Injection(1 .. Len(list), Range(list)) <=> IsInjective(list)
  BY <1>2 DEF Injection
<1> QED BY <1>2, <1>5, <1>6 DEF Distinct

(* A valid policy lists ids, and finitely many. *)
LEMMA PolicyIds ==
    ASSUME case \in Cases
    PROVE  /\ IsFiniteSet(Range(case.required)) /\ IsFiniteSet(Range(case.allowed))
           /\ PolicyValid(case) => Range(case.required) \in SUBSET Nat
           /\ Distinct(case.allowed) <=> IsInjective(case.allowed)
           /\ Distinct(case.required) <=> IsInjective(case.required)
<1>1. case.required \in Seq(Nat \cup {Blank}) /\ case.allowed \in Seq(Nat \cup {Blank})
  BY CasesAssumption
<1>2. Range(case.required) \subseteq Nat \cup {Blank}
  BY <1>1, ListFacts
<1>3. PolicyValid(case) => Blank \notin Range(case.required)
  BY DEF PolicyValid
<1> QED BY <1>1, <1>2, <1>3, ListFacts

(* Ordinals number the findings of a code apart. *)
Numbered(code, ids, S) == {<<code, Ordinal(ids, id)>> : id \in S}

LEMMA OrdinalsApart ==
    ASSUME NEW code, NEW ids \in SUBSET Nat, IsFiniteSet(ids), NEW S \in SUBSET ids
    PROVE  Cardinality(Numbered(code, ids, S)) = Cardinality(S)
<1> DEFINE f == [id \in S |-> Ordinal(ids, id)]
<1>1. \A x, y \in S : f[x] = f[y] => x = y
  BY OrdinalNames
<1>2. \A id \in S : f[id] = Ordinal(ids, id)
  OBVIOUS
<1>3. Coded(code, S, f) = Numbered(code, ids, S)
  BY <1>2 DEF Coded, Numbered
<1>4. IsFiniteSet(S)
  BY FS_Subset
<1> HIDE DEF f
<1>5. Cardinality(Coded(code, S, f)) = Cardinality(S)
  BY <1>1, <1>4, NumberedApart
<1> QED BY <1>3, <1>5

FindingsOf(code) == {v \in findings : v[1] = code}

(* The findings of a finished audit, code by code *)
LEMMA FindingsByCode ==
    ASSUME IInv, pc = "done"
    PROVE  /\ FindingsOf("EF202") = Numbered("EF202", RecordIds, RepeatedIds)
           /\ FindingsOf("EF203") = Numbered("EF203", RecordIds, ConflictingIds)
           /\ FindingsOf("EF208") = Numbered("EF208", RecordIds, ConflictingIds)
           /\ FindingsOf("EF204") = Numbered("EF204", unapproved, unapproved)
           /\ FindingsOf("EF205") = Numbered("EF205", Range(case.required), missing)
           /\ FindingsOf("EF209") = {<<"EF209", p>> : p \in InvalidRecords}
<1> DEFINE E201 == {<<"EF201", p>> : p \in SeenBlank}
           E202 == Numbered("EF202", RecordIds, RepeatedIds)
           E203 == Numbered("EF203", RecordIds, ConflictingIds)
           E208 == Numbered("EF208", RecordIds, ConflictingIds)
           E204 == Numbered("EF204", unapproved, unapproved)
           E205 == Numbered("EF205", Range(case.required), missing)
           E209 == {<<"EF209", p>> : p \in InvalidRecords}
<1>1. findings = PolicyFindings \cup (E201 \cup E209) \cup (E204 \cup E205)
                   \cup (E202 \cup E203 \cup E208) \cup CountFindings
  <2>1. RecordFindings = E201 \cup E209
    BY AtTheEnd DEF RecordFindings
  <2>2. IdFindings = E204 \cup E205
    BY DEF IdFindings, Numbered
  <2>3. GroupFindings = E202 \cup E203 \cup E208
    BY AtTheEnd DEF GroupFindings, GroupNumber, Numbered
  <2> HIDE DEF E201, E202, E203, E204, E205, E208, E209
  <2> QED BY <2>1, <2>2, <2>3 DEF IInv, Found
<1>2. \A v \in PolicyFindings : v[1] \in {"EF000", "EF003", "EF210"}
  BY DEF PolicyFindings, When
<1>3. \A v \in CountFindings : v[1] \in {"EF206", "EF207"}
  BY DEF CountFindings, ReportedFindings, When
<1>4. /\ \A v \in E201 : v[1] = "EF201"
      /\ \A v \in E202 : v[1] = "EF202"
      /\ \A v \in E203 : v[1] = "EF203"
      /\ \A v \in E204 : v[1] = "EF204"
      /\ \A v \in E205 : v[1] = "EF205"
      /\ \A v \in E208 : v[1] = "EF208"
      /\ \A v \in E209 : v[1] = "EF209"
  BY DEF Numbered
<1> HIDE DEF E201, E202, E203, E204, E205, E208, E209
<1>5. FindingsOf("EF202") = E202 /\ FindingsOf("EF203") = E203
  BY <1>1, <1>2, <1>3, <1>4 DEF FindingsOf
<1>6. FindingsOf("EF208") = E208 /\ FindingsOf("EF204") = E204
  BY <1>1, <1>2, <1>3, <1>4 DEF FindingsOf
<1>7. FindingsOf("EF205") = E205 /\ FindingsOf("EF209") = E209
  BY <1>1, <1>2, <1>3, <1>4 DEF FindingsOf
<1> QED BY <1>5, <1>6, <1>7 DEF E202, E203, E204, E205, E208, E209

(* A witness names its group, and no two the same. *)
LEMMA WitnessesByGroup ==
    ASSUME IInv, pc = "done"
    PROVE  /\ witnesses = {Witness(id) : id \in ConflictingIds}
           /\ \A id \in RecordIds : Witness(id).group = Ordinal(RecordIds, id)
           /\ Cardinality(witnesses) = Cardinality(ConflictingIds)
<1>1. witnesses = {Witness(id) : id \in ConflictingIds}
  BY AtTheEnd DEF IInv, Witnessed
<1>2. \A id \in RecordIds : Witness(id).group = Ordinal(RecordIds, id)
  BY AtTheEnd DEF Witness
<1>3. ConflictingIds \in SUBSET RecordIds /\ IsFiniteSet(ConflictingIds)
  <2>1. ConflictingIds \in SUBSET RecordIds
    BY DEF ConflictingIds
  <2> QED BY <2>1, AtTheEnd, FS_Subset
<1>4. \A x, y \in ConflictingIds : Witness(x) = Witness(y) => x = y
  <2> SUFFICES ASSUME NEW x \in ConflictingIds, NEW y \in ConflictingIds, Witness(x) = Witness(y)
               PROVE  x = y
    OBVIOUS
  <2>1. Ordinal(RecordIds, x) = Ordinal(RecordIds, y)
    BY <1>2, <1>3
  <2> QED BY <1>3, <2>1, AtTheEnd, OrdinalNames
<1> DEFINE g == [id \in ConflictingIds |-> Witness(id)]
<1>5. g \in Bijection(ConflictingIds, witnesses)
  BY <1>1, <1>4 DEF Bijection, Injection, Surjection, IsInjective
<1>6. ExistsBijection(ConflictingIds, witnesses)
  BY <1>5 DEF ExistsBijection
<1> QED BY <1>1, <1>2, <1>3, <1>6, FS_Bijection

(* The numbers of findings of a finished audit are the counts it reports.  *)
LEMMA CountsOfFindings ==
    ASSUME IInv, pc = "done"
    PROVE  /\ Cardinality(FindingsOf("EF202")) = report.duplicate
           /\ Cardinality(FindingsOf("EF203")) = report.conflicting
           /\ Cardinality(FindingsOf("EF208")) = report.collapses
           /\ Cardinality(FindingsOf("EF204")) = report.unapproved
           /\ Cardinality(FindingsOf("EF205")) = report.missing
           /\ Cardinality(FindingsOf("EF209")) = report.invalid
<1>1. case \in Cases
  BY DEF IInv, Typed
<1>2. /\ report.duplicate = Cardinality(RepeatedIds)
      /\ report.conflicting = Cardinality(ConflictingIds)
      /\ report.collapses = Cardinality(witnesses)
      /\ report.unapproved = Cardinality(unapproved)
      /\ report.missing = Cardinality(missing)
      /\ report.invalid = Cardinality(InvalidRecords)
  <2>1. /\ counts["duplicate"] = Cardinality(RepeatedIds)
        /\ counts["conflicting"] = Cardinality(ConflictingIds)
        /\ counts["invalid"] = Cardinality(InvalidRecords)
    BY AtTheEnd DEF IInv, Counted
  <2> QED BY <2>1 DEF IInv, Reported
<1>3. RecordIds \in SUBSET Nat /\ IsFiniteSet(RecordIds)
  BY AtTheEnd
<1>4. RepeatedIds \in SUBSET RecordIds /\ ConflictingIds \in SUBSET RecordIds
  BY DEF RepeatedIds, ConflictingIds
<1>5. Cardinality(FindingsOf("EF202")) = report.duplicate
  <2>1. Cardinality(Numbered("EF202", RecordIds, RepeatedIds)) = Cardinality(RepeatedIds)
    BY <1>3, <1>4, OrdinalsApart
  <2>2. FindingsOf("EF202") = Numbered("EF202", RecordIds, RepeatedIds)
    BY FindingsByCode
  <2> QED BY <1>2, <2>1, <2>2
<1>6. Cardinality(FindingsOf("EF203")) = report.conflicting
  <2>1. Cardinality(Numbered("EF203", RecordIds, ConflictingIds)) = Cardinality(ConflictingIds)
    BY <1>3, <1>4, OrdinalsApart
  <2>2. FindingsOf("EF203") = Numbered("EF203", RecordIds, ConflictingIds)
    BY FindingsByCode
  <2> QED BY <1>2, <2>1, <2>2
<1>7. Cardinality(FindingsOf("EF208")) = report.collapses
  <2>1. Cardinality(Numbered("EF208", RecordIds, ConflictingIds)) = Cardinality(ConflictingIds)
    BY <1>3, <1>4, OrdinalsApart
  <2>2. FindingsOf("EF208") = Numbered("EF208", RecordIds, ConflictingIds)
    BY FindingsByCode
  <2>3. Cardinality(witnesses) = Cardinality(ConflictingIds)
    BY WitnessesByGroup
  <2> QED BY <1>2, <2>1, <2>2, <2>3
<1>8. Cardinality(FindingsOf("EF204")) = report.unapproved
  <2>1. unapproved \in SUBSET RecordIds
    BY AtTheEnd
  <2>2. unapproved \in SUBSET Nat /\ IsFiniteSet(unapproved)
    BY <1>3, <2>1, FS_Subset
  <2>3. Cardinality(Numbered("EF204", unapproved, unapproved)) = Cardinality(unapproved)
    BY <2>2, OrdinalsApart
  <2>4. FindingsOf("EF204") = Numbered("EF204", unapproved, unapproved)
    BY FindingsByCode
  <2> QED BY <1>2, <2>3, <2>4
<1>9. Cardinality(FindingsOf("EF205")) = report.missing
  <2>1. CASE PolicyValid(case)
    <3>1. Range(case.required) \in SUBSET Nat /\ IsFiniteSet(Range(case.required))
      BY <1>1, <2>1, PolicyIds
    <3>2. missing \in SUBSET Range(case.required)
      BY AtTheEnd
    <3> QED BY <1>2, <3>1, <3>2, FindingsByCode, OrdinalsApart
  <2>2. CASE ~PolicyValid(case)
    <3>1. missing = {} /\ FindingsOf("EF205") = {}
      BY <2>2, AtTheEnd, FindingsByCode DEF Numbered
    <3> QED BY <1>2, <3>1
  <2> QED BY <2>1, <2>2
<1>10. Cardinality(FindingsOf("EF209")) = report.invalid
  <2> DEFINE f == [p \in InvalidRecords |-> p]
  <2>1. IsFiniteSet(InvalidRecords)
    <3>1. InvalidRecords \in SUBSET Positions /\ IsFiniteSet(Positions)
      BY <1>1, Records DEF InvalidRecords
    <3> QED BY <3>1, FS_Subset
  <2>2. \A x, y \in InvalidRecords : f[x] = f[y] => x = y
    OBVIOUS
  <2>3. Coded("EF209", InvalidRecords, f) = {<<"EF209", p>> : p \in InvalidRecords}
    BY DEF Coded
  <2> HIDE DEF f
  <2>4. Cardinality(Coded("EF209", InvalidRecords, f)) = Cardinality(InvalidRecords)
    BY <2>1, <2>2, NumberedApart
  <2> QED BY <1>2, <2>3, <2>4, FindingsByCode
<1> QED BY <1>5, <1>6, <1>7, <1>8, <1>9, <1>10

(* audit_manifest: merging equal findings loses none of those counted.     *)
THEOREM CountsAreFindings == Spec => []CountsMatchFindings
<1>1. IInv => CountsMatchFindings
  BY CountsOfFindings DEF CountsMatchFindings, FindingsOf
<1> QED BY <1>1, Invariance, PTL

-----------------------------------------------------------------------------
(* Passing *)

(* Nothing is found exactly when every check of the code has nothing to find. *)
LEMMA NothingFound ==
    ASSUME IInv, pc = "done"
    PROVE  findings = {} <=>
             /\ case.schemaOk /\ case.caseIdOk /\ PolicyValid(case)
             /\ SeenBlank = {} /\ InvalidRecords = {}
             /\ unapproved = {} /\ missing = {}
             /\ RepeatedIds = {} /\ ConflictingIds = {}
             /\ ReportedFindings(case) = {}
<1>1. findings = PolicyFindings \cup RecordFindings \cup IdFindings
                   \cup GroupFindings \cup CountFindings
  BY DEF IInv, Found
<1>2. PolicyFindings = {} <=> case.schemaOk /\ case.caseIdOk /\ PolicyValid(case)
  <2>1. PolicyFindings =
          When(~case.schemaOk, <<"EF000", 0>>) \cup When(~case.caseIdOk, <<"EF003", 0>>)
            \cup When(~PolicyValid(case), <<"EF210", 0>>)
    BY DEF PolicyFindings
  <2>2. \A c, x : When(c, x) = {} <=> ~c
    BY DEF When
  <2> QED BY <2>1, <2>2
<1>3. RecordFindings = {} <=> SeenBlank = {} /\ InvalidRecords = {}
  BY AtTheEnd DEF RecordFindings
<1>4. IdFindings = {} <=> unapproved = {} /\ missing = {}
  BY DEF IdFindings
<1>5. GroupFindings = {} <=> RepeatedIds = {} /\ ConflictingIds = {}
  BY AtTheEnd DEF GroupFindings
<1>6. CountFindings = ReportedFindings(case)
  BY DEF CountFindings
<1> QED BY <1>1, <1>2, <1>3, <1>4, <1>5, <1>6

(* Where all ids are there and different, there are as many as records. *)
LEMMA AsManyIds ==
    ASSUME case \in Cases,
           \A p \in Positions : case.records[p].id # Blank,
           \A p, q \in Positions : case.records[p].id = case.records[q].id => p = q
    PROVE  Cardinality(RecordIds) = Len(case.records)
<1> DEFINE n == Len(case.records)
           g == [p \in 1 .. n |-> case.records[p].id]
<1>1. n \in Nat /\ Positions = 1 .. n
  BY Records
<1>2. RecordIds = {case.records[p].id : p \in 1 .. n}
  BY <1>1 DEF RecordIds, Positions
<1>3. g \in Bijection(1 .. n, RecordIds)
  <2>1. g \in [1 .. n -> RecordIds] /\ \A t \in RecordIds : \E p \in 1 .. n : g[p] = t
    BY <1>2
  <2>2. \A p, q \in 1 .. n : g[p] = g[q] => p = q
    BY <1>1
  <2> HIDE DEF g
  <2> QED BY <2>1, <2>2 DEF Bijection, Injection, Surjection, IsInjective
<1>4. ExistsBijection(1 .. n, RecordIds)
  BY <1>3 DEF ExistsBijection
<1> HIDE DEF n, g
<1>5. Cardinality(RecordIds) = n
  BY <1>1, <1>4, FS_CountingElements
<1> QED BY <1>5 DEF n

(* audit_manifest: a manifest passes exactly when it keeps the contract.   *)
THEOREM PassingIsKeeping == Spec => []PassMeansContract
<1>1. IInv => PassMeansContract
  <2> SUFFICES ASSUME IInv, pc = "done" PROVE report.passed <=> KeepsContract
    BY DEF PassMeansContract
  <2> DEFINE R == case.records
             Ids == /\ \A p \in Positions : R[p].id # Blank /\ R[p].payload # BadDigest
                    /\ \A p, q \in Positions : R[p].id = R[q].id => p = q
             Policy == /\ Blank \notin Range(case.allowed) \cup Range(case.required)
                       /\ IsInjective(case.allowed) /\ IsInjective(case.required)
             Lists == /\ Range(case.required) \subseteq RecordIds
                      /\ RecordIds \cup Range(case.required) \subseteq Range(case.allowed)
             Declared == case.reported # None =>
                           /\ case.reported.records \in {None, Len(R)}
                           /\ case.reported.unique \in {None, Len(R)}
  <2>1. case \in Cases
    BY DEF IInv, Typed
  <2>2. report.passed <=> findings = {}
    <3> DEFINE passed == findings = {}
    <3>1. Reported
      BY DEF IInv
    <3> HIDE DEF passed
    <3>2. report = [passed      |-> passed,
                    records     |-> Len(case.records),
                    unique      |-> Cardinality(DOMAIN groups),
                    duplicate   |-> counts["duplicate"],
                    conflicting |-> counts["conflicting"],
                    collapses   |-> Cardinality(witnesses),
                    unapproved  |-> Cardinality(unapproved),
                    missing     |-> Cardinality(missing),
                    invalid     |-> counts["invalid"]]
      BY <3>1, Zenon DEF Reported, passed
    <3>3. report.passed = passed
      BY <3>2
    <3> QED BY <3>3, Zenon DEF passed
  <2>3. KeepsContract <=> case.schemaOk /\ case.caseIdOk /\ Policy /\ Ids /\ Lists /\ Declared
    BY DEF KeepsContract, Positions
  <2>4. PolicyValid(case) <=> Policy /\ Range(case.required) \subseteq Range(case.allowed)
    BY <2>1, PolicyIds DEF PolicyValid
  <2>5. SeenBlank = {} /\ InvalidRecords = {} /\ RepeatedIds = {} /\ ConflictingIds = {} <=> Ids
    <3>1. SeenBlank = {} /\ InvalidRecords = {} <=>
            \A p \in Positions : R[p].id # Blank /\ R[p].payload # BadDigest
      BY AtTheEnd DEF SeenBlank, InvalidRecords
    <3>2. ASSUME \A p \in Positions : R[p].id # Blank
          PROVE  RepeatedIds = {} <=> \A p, q \in Positions : R[p].id = R[q].id => p = q
      <4>1. \A id : Cardinality(RecordsAt(id)) > 1 <=> \E p, q \in RecordsAt(id) : p # q
        BY <2>1, HeldFacts, MoreThanOne
      <4>2. \A p \in Positions : R[p].id \in RecordIds
        BY <3>2 DEF RecordIds, Positions
      <4>3. ASSUME RepeatedIds = {}, NEW p \in Positions, NEW q \in Positions, R[p].id = R[q].id
            PROVE  p = q
        <5>1. p \in RecordsAt(R[p].id) /\ q \in RecordsAt(R[p].id)
          BY <4>3 DEF RecordsAt
        <5>2. ~(Cardinality(RecordsAt(R[p].id)) > 1)
          BY <4>2, <4>3 DEF RepeatedIds
        <5> QED BY <4>1, <5>1, <5>2
      <4>4. ASSUME \A p, q \in Positions : R[p].id = R[q].id => p = q, NEW id
            PROVE  ~(Cardinality(RecordsAt(id)) > 1)
        <5>1. \A p \in RecordsAt(id) : p \in Positions /\ R[p].id = id
          BY DEF RecordsAt
        <5>2. \A p, q \in RecordsAt(id) : p = q
          BY <4>4, <5>1
        <5> QED BY <4>1, <5>2
      <4>5. (\A p, q \in Positions : R[p].id = R[q].id => p = q) => RepeatedIds = {}
        BY <4>4 DEF RepeatedIds
      <4> HIDE DEF R
      <4> QED BY <4>3, <4>5
    <3>3. RepeatedIds = {} => ConflictingIds = {}
      BY <2>1, HeldFacts DEF RepeatedIds, ConflictingIds
    <3> QED BY <3>1, <3>2, <3>3
  <2>6. ASSUME Ids, PolicyValid(case)
        PROVE  /\ unapproved = {} /\ missing = {} <=> Lists
               /\ ReportedFindings(case) = {} <=> Declared
    <3>1. missing = {id \in Range(case.required) : HeldOf(id) = {}}
      BY <2>6, AtTheEnd
    <3>2. unapproved = RecordIds \ Range(case.allowed)
      BY <2>6, AtTheEnd
    <3>3. \A id \in Range(case.required) : HeldOf(id) # {} <=> id \in RecordIds
      <4>1. \A id : HeldOf(id) # {} <=> \E p \in Positions : R[p].id = id
        BY <2>6 DEF HeldOf, RecordsAt
      <4>2. Blank \notin Range(case.required)
        BY <2>6 DEF PolicyValid
      <4> QED BY <4>1, <4>2 DEF RecordIds, Positions
    <3>4. Range(case.required) \subseteq Range(case.allowed)
      BY <2>6 DEF PolicyValid
    <3>5. unapproved = {} /\ missing = {} <=> Lists
      BY <3>1, <3>2, <3>3, <3>4
    <3>6. Cardinality(DOMAIN groups) = Len(R)
      BY <2>1, <2>6, AtTheEnd, AsManyIds
    <3>7. ReportedFindings(case) = {} <=> Declared
      <4>1. \A c, x : When(c, x) = {} <=> ~c
        BY DEF When
      <4>2. CASE case.reported = None
        BY <4>2 DEF ReportedFindings
      <4>3. CASE case.reported # None
        <5>1. ReportedFindings(case) = {} <=>
                /\ ~Mismatch(case.reported.records, Len(R))
                /\ ~Mismatch(case.reported.unique, Len(R))
          BY <3>6, <4>1, <4>3 DEF ReportedFindings
        <5> QED BY <4>3, <5>1 DEF Mismatch
      <4> QED BY <4>2, <4>3
    <3> QED BY <3>5, <3>7
  <2> HIDE DEF Ids, Policy, Declared
  <2>7. findings = {} <=>
          case.schemaOk /\ case.caseIdOk /\ Policy /\ Ids /\ Lists /\ Declared
    <3>1. Lists => Range(case.required) \subseteq Range(case.allowed)
      OBVIOUS
    <3> HIDE DEF Lists
    <3> QED BY <2>4, <2>5, <2>6, <3>1, NothingFound
  <2> QED BY <2>2, <2>3, <2>7
<1> QED BY <1>1, Invariance, PTL

-----------------------------------------------------------------------------
(* Witnesses and the order of the records *)

HeldIn(list, id) == {p \in DOMAIN list : list[p].id = id /\ list[p].payload # BadDigest}

(* The survivor is what the last valid record of the id holds. *)
LEMMA SurvivorIsLast ==
    ASSUME NEW n \in Nat, NEW list, DOMAIN list = 1 .. n, NEW id
    PROVE  /\ HeldIn(list, id) = {} => Survivor(list, id) = None
           /\ HeldIn(list, id) # {} =>
                /\ LastOf(HeldIn(list, id)) \in HeldIn(list, id)
                /\ \A q \in HeldIn(list, id) : q <= LastOf(HeldIn(list, id))
                /\ Survivor(list, id) = list[LastOf(HeldIn(list, id))].payload
<1> DEFINE held == HeldIn(list, id)
<1>1. Survivor(list, id) = IF held = {} THEN None ELSE list[LastOf(held)].payload
  BY Zenon DEF Survivor, HeldIn, LastOf
<1>2. held \in SUBSET (1 .. n)
  BY DEF HeldIn
<1> HIDE DEF held
<1>3. held # {} => LastOf(held) \in held /\ \A q \in held : q <= LastOf(held)
  BY <1>2, LastIsGreatest
<1> QED BY <1>1, <1>3 DEF held

LEMMA HeldInCase ==
    ASSUME NEW id
    PROVE  HeldIn(case.records, id) = ValidAt(id)
  BY DEF HeldIn, ValidAt, RecordsAt, Positions

(* When an id holds one digest, no reordering changes what survives. *)
LEMMA OneDigestSurvives ==
    ASSUME case \in Cases, NEW id, ~(Cardinality(HeldOf(id)) > 1),
           NEW o \in Reorderings(case.records)
    PROVE  Survivor(o, id) = Survivor(case.records, id)
<1> DEFINE R == case.records
           n == Len(R)
           V == ValidAt(id)
<1>1. n \in Nat /\ Positions = 1 .. n /\ DOMAIN R = 1 .. n
  BY Records DEF Positions
<1>2. PICK f \in Bijection(Positions, Positions) : o = [p \in Positions |-> R[f[p]]]
  BY DEF Reorderings, Positions
<1>3. \A p \in Positions : f[p] \in Positions /\ \E q \in Positions : f[q] = p
  BY <1>2 DEF Bijection, Injection, Surjection
<1>4. DOMAIN o = 1 .. n
  BY <1>1, <1>2
<1>5. \A p, q \in V : R[p].payload = R[q].payload
  BY HeldFacts
<1>6. \A p \in Positions : p \in HeldIn(o, id) <=> f[p] \in V
  BY <1>2, <1>3 DEF HeldIn, ValidAt, RecordsAt
<1>7. HeldIn(o, id) \subseteq Positions /\ V \subseteq Positions
  BY <1>1, <1>4 DEF HeldIn, ValidAt, RecordsAt
<1>8. CASE V = {}
  <2>1. HeldIn(o, id) = {} /\ HeldIn(R, id) = {}
    BY <1>6, <1>7, <1>8, HeldInCase
  <2> HIDE DEF R, n, V
  <2>2. Survivor(o, id) = None /\ Survivor(R, id) = None
    BY <1>1, <1>4, <2>1, SurvivorIsLast
  <2> QED BY <2>2 DEF R
<1>9. CASE V # {}
  <2>1. HeldIn(R, id) = V /\ HeldIn(o, id) # {}
    BY <1>3, <1>6, <1>7, <1>9, HeldInCase
  <2> DEFINE l == LastOf(V)
             m == LastOf(HeldIn(o, id))
  <2> HIDE DEF R, n, V
  <2>2. l \in V /\ Survivor(R, id) = R[l].payload
    BY <1>1, <1>9, <2>1, SurvivorIsLast
  <2>3. m \in HeldIn(o, id) /\ Survivor(o, id) = o[m].payload
    BY <1>1, <1>4, <2>1, SurvivorIsLast
  <2> HIDE DEF l, m
  <2>4. m \in Positions /\ f[m] \in V /\ o[m] = R[f[m]]
    BY <1>2, <1>6, <1>7, <2>3
  <2>5. R[f[m]].payload = R[l].payload
    BY <1>5, <2>2, <2>4
  <2> QED BY <2>2, <2>3, <2>4, <2>5 DEF R
<1> QED BY <1>8, <1>9

(* When it holds two, moving the other one to the end changes it. *)
LEMMA TwoDigestsDoNot ==
    ASSUME case \in Cases, NEW id, Cardinality(HeldOf(id)) > 1
    PROVE  \E o \in Reorderings(case.records) : Survivor(o, id) # Survivor(case.records, id)
<1> DEFINE R == case.records
           n == Len(R)
           V == ValidAt(id)
           m == LastOf(V)
<1>1. n \in Nat /\ Positions = 1 .. n /\ DOMAIN R = 1 .. n
  BY Records DEF Positions
<1>2. /\ \E p, q \in V : R[p].payload # R[q].payload
      /\ V # {}
  BY HeldFacts
<1>3. HeldIn(R, id) = V /\ V \subseteq Positions
  BY HeldInCase DEF ValidAt, RecordsAt
<1>4. m \in V /\ (\A q \in V : q <= m) /\ Survivor(R, id) = R[m].payload
  <2> HIDE DEF R, n, V
  <2> QED BY <1>1, <1>2, <1>3, SurvivorIsLast
<1>5. PICK p \in V : R[p].payload # R[m].payload
  BY <1>2
<1> DEFINE f == [x \in Positions |-> IF x = m THEN p ELSE IF x = p THEN m ELSE x]
           o == [x \in Positions |-> R[f[x]]]
<1> HIDE DEF m
<1>6. f \in Bijection(Positions, Positions)
  <2>1. f \in [Positions -> Positions]
    BY <1>3, <1>4, <1>5
  <2>2. \A x \in Positions : f[f[x]] = x /\ f[x] \in Positions
    BY <1>3, <1>4, <1>5
  <2> HIDE DEF f
  <2>3. IsInjective(f)
    BY <2>1, <2>2 DEF IsInjective
  <2> QED BY <2>1, <2>2, <2>3 DEF Bijection, Injection, Surjection
<1>7. o \in Reorderings(R)
  BY <1>6 DEF Reorderings, Positions
<1>8. \A x \in Positions : f[x] \in V <=> x \in V
  BY <1>3, <1>4, <1>5
<1>9. f[m] = p /\ DOMAIN o = 1 .. n /\ \A x \in Positions : o[x] = R[f[x]]
  BY <1>1, <1>3, <1>4
<1>10. \A x \in Positions : f[x] \in Positions
  BY <1>3, <1>4, <1>5
<1> HIDE DEF f, o
<1>11. HeldIn(o, id) = V
  <2>1. \A x \in Positions : x \in HeldIn(o, id) <=> f[x] \in V
    BY <1>1, <1>9, <1>10 DEF HeldIn, ValidAt, RecordsAt
  <2>2. HeldIn(o, id) \subseteq Positions
    BY <1>1, <1>9 DEF HeldIn
  <2> HIDE DEF V
  <2> QED BY <1>3, <1>8, <2>1, <2>2
<1>12. Survivor(o, id) = o[m].payload
  <2> HIDE DEF R, n, V
  <2> QED BY <1>1, <1>2, <1>9, <1>11, SurvivorIsLast DEF m
<1>13. o[m] = R[p]
  BY <1>3, <1>4, <1>9
<1> QED BY <1>4, <1>5, <1>7, <1>12, <1>13

(* In the reversed order the first valid record is the last. *)
LEMMA ReversedSurvivor ==
    ASSUME case \in Cases, NEW id, ValidAt(id) # {}
    PROVE  Survivor([p \in DOMAIN case.records |-> case.records[Len(case.records) + 1 - p]], id) =
             case.records[FirstOf(ValidAt(id))].payload
<1> DEFINE R == case.records
           n == Len(R)
           V == ValidAt(id)
           b == [p \in DOMAIN R |-> R[n + 1 - p]]
           H == HeldIn(b, id)
           a == FirstOf(V)
           z == LastOf(H)
<1>1. n \in Nat /\ Positions = 1 .. n /\ DOMAIN R = 1 .. n
  BY Records DEF Positions
<1>2. DOMAIN b = 1 .. n /\ \A p \in 1 .. n : b[p] = R[n + 1 - p]
  BY <1>1
<1>3. V \subseteq 1 .. n /\ V \in SUBSET Nat
  BY <1>1 DEF ValidAt, RecordsAt
<1>4. a \in V /\ \A q \in V : a <= q
  <2> HIDE DEF V
  <2> QED BY <1>3, FirstIsLeast DEF V
<1>5. \A p \in 1 .. n : n + 1 - p \in 1 .. n
  BY <1>1
<1>6. \A p \in 1 .. n : p \in H <=> n + 1 - p \in V
  <2>1. \A q \in 1 .. n : q \in V <=> R[q].id = id /\ R[q].payload # BadDigest
    BY <1>1 DEF ValidAt, RecordsAt
  <2>2. \A p \in 1 .. n : p \in H <=> b[p].id = id /\ b[p].payload # BadDigest
    BY <1>2 DEF HeldIn
  <2> HIDE DEF b, H, V, R, n
  <2> QED BY <1>2, <1>5, <2>1, <2>2
<1>7. H \subseteq 1 .. n
  BY <1>2 DEF HeldIn
<1> HIDE DEF R, n, V, b
<1>8. a \in Nat /\ n + 1 - a \in 1 .. n /\ n + 1 - (n + 1 - a) = a
  <2> HIDE DEF a
  <2>1. n \in Nat /\ a \in 1 .. n
    BY <1>1, <1>3, <1>4
  <2> QED BY <2>1
<1>9. n + 1 - a \in H
  BY <1>4, <1>6, <1>8
<1>10. z \in H /\ (\A q \in H : q <= z) /\ Survivor(b, id) = b[z].payload
  BY <1>1, <1>2, <1>9, SurvivorIsLast
<1> HIDE DEF H, a, z
<1>11. z = n + 1 - a
  <2>1. z \in 1 .. n /\ n + 1 - z \in V
    BY <1>6, <1>7, <1>10
  <2>2. a <= n + 1 - z /\ n + 1 - a <= z
    BY <1>4, <1>9, <1>10, <2>1
  <2> QED BY <1>1, <1>8, <2>1, <2>2
<1>12. b[z] = R[a]
  BY <1>2, <1>8, <1>11
<1> QED BY <1>10, <1>12 DEF R, n, V, b, a

(* audit_manifest: an id has a witness exactly when some other order of    *)
(* the same records changes what a last-write-wins consumer keeps, and it  *)
(* names what this order and the reversed one keep.                        *)
THEOREM WitnessesShowOrderDependence == Spec => []WitnessesAreOrderDependence
<1>1. IInv => WitnessesAreOrderDependence
  <2> DEFINE reversed == [p \in DOMAIN case.records |-> case.records[Len(case.records) + 1 - p]]
             mine(id) == {w \in witnesses : w.group = Ordinal(RecordIds, id)}
             depends(id) == \E o \in Reorderings(case.records) :
                              Survivor(o, id) # Survivor(case.records, id)
  <2> SUFFICES ASSUME IInv, pc = "done", NEW id \in RecordIds
               PROVE  IF depends(id)
                      THEN /\ Cardinality(mine(id)) = 1
                           /\ \A w \in mine(id) : /\ w.last = Survivor(case.records, id)
                                                  /\ w.first = Survivor(reversed, id)
                      ELSE mine(id) = {}
    BY DEF WitnessesAreOrderDependence
  <2>1. case \in Cases
    BY DEF IInv, Typed
  <2>2. depends(id) <=> Cardinality(HeldOf(id)) > 1
    BY <2>1, OneDigestSurvives, TwoDigestsDoNot
  <2>3. mine(id) = IF Cardinality(HeldOf(id)) > 1 THEN {Witness(id)} ELSE {}
    <3>1. /\ witnesses = {Witness(k) : k \in ConflictingIds}
          /\ \A k \in RecordIds : Witness(k).group = Ordinal(RecordIds, k)
      BY WitnessesByGroup
    <3>2. ConflictingIds \subseteq RecordIds
          /\ (id \in ConflictingIds <=> Cardinality(HeldOf(id)) > 1)
      BY DEF ConflictingIds
    <3>3. \A k \in RecordIds : Ordinal(RecordIds, k) = Ordinal(RecordIds, id) => k = id
      BY AtTheEnd, OrdinalNames
    <3> QED BY <3>1, <3>2, <3>3
  <2>4. ASSUME Cardinality(HeldOf(id)) > 1
        PROVE  /\ Witness(id).last = Survivor(case.records, id)
               /\ Witness(id).first = Survivor(reversed, id)
    <3>1. ValidAt(id) # {} /\ HeldIn(case.records, id) = ValidAt(id)
      BY <2>1, <2>4, HeldFacts, HeldInCase
    <3>2. /\ Witness(id).last = case.records[LastOf(ValidAt(id))].payload
          /\ Witness(id).first = case.records[FirstOf(ValidAt(id))].payload
      BY AtTheEnd DEF Witness
    <3>3. Survivor(case.records, id) = case.records[LastOf(ValidAt(id))].payload
      BY <2>1, <3>1, Records, SurvivorIsLast DEF Positions
    <3>4. Survivor(reversed, id) = case.records[FirstOf(ValidAt(id))].payload
      BY <2>1, <3>1, ReversedSurvivor
    <3> QED BY <3>2, <3>3, <3>4
  <2>5. Cardinality({Witness(id)}) = 1
    BY FS_Singleton
  <2> HIDE DEF depends, mine, reversed
  <2> QED BY <2>2, <2>3, <2>4, <2>5
<1> QED BY <1>1, Invariance, PTL

-----------------------------------------------------------------------------
(* The verifier *)

(* The reports of the registered study *)
RegisteredReport ==
    [passed |-> FALSE, records |-> 2, unique |-> 1, duplicate |-> 1, conflicting |-> 1,
     collapses |-> 1, unapproved |-> 0, missing |-> 0, invalid |-> 0]

(* Where {1, 2} are the valid records of an id, the first is 1 and the last 2. *)
LEMMA FirstAndLastOfTwo == FirstOf({1, 2}) = 1 /\ LastOf({1, 2}) = 2
<1>1. FirstOf({1, 2}) \in {1, 2} /\ \A q \in {1, 2} : FirstOf({1, 2}) <= q
  BY FirstIsLeast
<1>2. LastOf({1, 2}) \in {1, 2} /\ \A q \in {1, 2} : q <= LastOf({1, 2})
  <2>1. {1, 2} \in SUBSET (1 .. 2)
    OBVIOUS
  <2> QED BY <2>1, LastIsGreatest
<1> QED BY <1>1, <1>2

(* What a finished audit has found when its report has these counts and    *)
(* no other codes than the registered ones.                                *)
LEMMA AcceptedHasNothingElse ==
    ASSUME IInv, pc = "done", report = RegisteredReport,
           {v[1] : v \in findings} = EXPECTED_CODES
    PROVE  /\ case.schemaOk /\ case.caseIdOk /\ PolicyValid(case)
           /\ SeenBlank = {} /\ InvalidRecords = {} /\ unapproved = {} /\ missing = {}
           /\ ReportedFindings(case) = {}
           /\ Len(case.records) = 2 /\ Cardinality(RecordIds) = 1
<1>1. findings = PolicyFindings \cup RecordFindings \cup IdFindings
                   \cup GroupFindings \cup CountFindings
  BY DEF IInv, Found
<1>2. \A v \in findings : v[1] \in {"EF202", "EF203", "EF208"}
  BY DEF EXPECTED_CODES
<1>3. PolicyFindings = {}
  <2>1. \A v \in PolicyFindings : v[1] \in {"EF000", "EF003", "EF210"}
    BY DEF PolicyFindings, When
  <2> QED BY <1>1, <1>2, <2>1
<1>4. CountFindings = {}
  <2>1. \A v \in CountFindings : v[1] \in {"EF206", "EF207"}
    BY DEF CountFindings, ReportedFindings, When
  <2> QED BY <1>1, <1>2, <2>1
<1>5. RecordFindings = {}
  <2>1. \A v \in RecordFindings : v[1] \in {"EF201", "EF209"}
    BY DEF RecordFindings
  <2> QED BY <1>1, <1>2, <2>1
<1>6. IdFindings = {}
  <2>1. \A v \in IdFindings : v[1] \in {"EF204", "EF205"}
    BY DEF IdFindings
  <2> QED BY <1>1, <1>2, <2>1
<1>7. case.schemaOk /\ case.caseIdOk /\ PolicyValid(case)
  <2>1. PolicyFindings =
          When(~case.schemaOk, <<"EF000", 0>>) \cup When(~case.caseIdOk, <<"EF003", 0>>)
            \cup When(~PolicyValid(case), <<"EF210", 0>>)
    BY DEF PolicyFindings
  <2>2. \A c, x : When(c, x) = {} <=> ~c
    BY DEF When
  <2> QED BY <1>3, <2>1, <2>2
<1>8. SeenBlank = {} /\ InvalidRecords = {}
  BY <1>5, AtTheEnd DEF RecordFindings
<1>9. unapproved = {} /\ missing = {}
  BY <1>6 DEF IdFindings
<1>10. ReportedFindings(case) = {}
  BY <1>4 DEF CountFindings
<1>11. report.records = Len(case.records) /\ report.unique = Cardinality(DOMAIN groups)
  BY DEF IInv, Reported
<1>12. Len(case.records) = 2 /\ Cardinality(RecordIds) = 1
  BY <1>11, AtTheEnd DEF RegisteredReport
<1> QED BY <1>7, <1>8, <1>9, <1>10, <1>12

LEMMA OnlyControlsVerify ==
    ASSUME IInv, pc = "done", NEW first, NEW last, VerifyReport(first, last)
    PROVE  IsControl(first, last)
<1> DEFINE R == case.records
<1>1. /\ report = RegisteredReport /\ {v[1] : v \in findings} = EXPECTED_CODES
      /\ \E w \in witnesses : /\ witnesses = {w}
                              /\ w.group = 1 /\ w.positions = {1, 2}
                              /\ w.first = first /\ w.last = last
  BY DEF VerifyReport, RegisteredReport, CodesRegistered
<1>2. /\ case.schemaOk /\ case.caseIdOk /\ PolicyValid(case)
      /\ SeenBlank = {} /\ InvalidRecords = {} /\ unapproved = {} /\ missing = {}
      /\ ReportedFindings(case) = {}
      /\ Len(R) = 2 /\ Cardinality(RecordIds) = 1
  BY <1>1, AcceptedHasNothingElse
<1>3. case \in Cases
  BY DEF IInv, Typed
<1>4. PICK id : RecordIds = {id}
  BY <1>2, AtTheEnd, FS_Singleton
<1>5. /\ Positions = 1 .. 2 /\ DOMAIN R = 1 .. 2
      /\ \A p \in Positions : R[p].id = id /\ R[p] = [id |-> R[p].id, payload |-> R[p].payload]
  <2>1. Positions = 1 .. 2 /\ DOMAIN R = 1 .. 2
    BY <1>2, <1>3, Records DEF Positions
  <2>2. \A p \in Positions : R[p].id # Blank
    BY <1>2, AtTheEnd DEF SeenBlank
  <2>3. \A p \in Positions : R[p].id \in RecordIds
    BY <2>2 DEF RecordIds, Positions
  <2>4. \A p \in Positions : R[p] = [id |-> R[p].id, payload |-> R[p].payload]
    BY <1>3, Records
  <2> QED BY <1>4, <2>1, <2>3, <2>4
<1>6. R[1].payload = first /\ R[2].payload = last
  <2>1. PICK w \in witnesses : w.positions = {1, 2} /\ w.first = first /\ w.last = last
    BY <1>1
  <2>2. PICK k \in RecordIds : w = Witness(k)
    BY <2>1, WitnessesByGroup DEF ConflictingIds
  <2>3. /\ w.positions = ValidAt(k)
        /\ w.first = R[FirstOf(ValidAt(k))].payload
        /\ w.last = R[LastOf(ValidAt(k))].payload
    BY <2>2, AtTheEnd DEF Witness
  <2>4. w.first = R[FirstOf({1, 2})].payload /\ w.last = R[LastOf({1, 2})].payload
    BY <2>1, <2>3
  <2> QED BY <2>1, <2>4, FirstAndLastOfTwo
<1>7. R = <<[id |-> id, payload |-> first], [id |-> id, payload |-> last]>>
  <2>1. R[1] = [id |-> id, payload |-> first] /\ R[2] = [id |-> id, payload |-> last]
    BY <1>5, <1>6
  <2>2. R \in Seq(Range(R))
    BY <1>3, CasesAssumption
  <2> HIDE DEF R
  <2> QED BY <1>2, <2>1, <2>2
<1>8. id \in Range(case.allowed)
  BY <1>2, <1>4, AtTheEnd
<1>9. Range(case.required) \subseteq {id}
  <2> SUFFICES ASSUME NEW k \in Range(case.required) PROVE k = id
    OBVIOUS
  <2>1. k # Blank /\ HeldOf(k) # {}
    BY <1>2, AtTheEnd DEF PolicyValid
  <2>2. k \in RecordIds
    BY <2>1 DEF HeldOf, RecordsAt, RecordIds, Positions
  <2> QED BY <1>4, <2>2
<1>10. case.reported # None => /\ case.reported.records \in {None, 2}
                               /\ case.reported.unique \in {None, 1}
  <2> SUFFICES ASSUME case.reported # None
               PROVE  /\ case.reported.records \in {None, 2}
                      /\ case.reported.unique \in {None, 1}
    OBVIOUS
  <2>1. \A c, x : When(c, x) = {} => ~c
    BY DEF When
  <2>2. /\ ~Mismatch(case.reported.records, 2)
        /\ ~Mismatch(case.reported.unique, 1)
    BY <1>2, <2>1, AtTheEnd DEF ReportedFindings
  <2> QED BY <2>2 DEF Mismatch
<1> QED BY <1>2, <1>7, <1>8, <1>9, <1>10 DEF IsControl

LEMMA ControlsVerify ==
    ASSUME IInv, pc = "done", NEW first, NEW last, first # last,
           BadDigest \notin {first, last}, IsControl(first, last)
    PROVE  VerifyReport(first, last)
<1> DEFINE R == case.records
<1>1. PICK id \in Range(case.allowed) :
        /\ R = <<[id |-> id, payload |-> first], [id |-> id, payload |-> last]>>
        /\ Range(case.required) \subseteq {id}
  BY DEF IsControl
<1>2. /\ case.schemaOk /\ case.caseIdOk /\ PolicyValid(case)
      /\ case.reported # None => /\ case.reported.records \in {None, 2}
                                 /\ case.reported.unique \in {None, 1}
  BY DEF IsControl
<1>3. /\ id # Blank /\ Len(R) = 2 /\ DOMAIN R = {1, 2} /\ Positions = {1, 2}
      /\ R[1].id = id /\ R[2].id = id /\ R[1].payload = first /\ R[2].payload = last
  <2>1. id # Blank
    BY <1>1, <1>2 DEF PolicyValid
  <2>2. /\ Len(R) = 2 /\ DOMAIN R = {1, 2}
        /\ R[1].id = id /\ R[2].id = id /\ R[1].payload = first /\ R[2].payload = last
    BY <1>1
  <2> QED BY <2>1, <2>2 DEF Positions
<1>4. /\ RecordIds = {id} /\ RecordsAt(id) = {1, 2} /\ ValidAt(id) = {1, 2}
      /\ HeldOf(id) = {first, last} /\ InvalidRecords = {}
  BY <1>3 DEF RecordIds, RecordsAt, ValidAt, HeldOf, InvalidRecords
<1>5. SeenBlank = {}
  BY <1>3, AtTheEnd DEF SeenBlank
<1>6. RepeatedIds = {id} /\ ConflictingIds = {id}
  <2>1. case \in Cases
    BY DEF IInv, Typed
  <2>2. Cardinality(HeldOf(id)) > 1 /\ Cardinality(RecordsAt(id)) > 1
    <3>1. \E p, q \in ValidAt(id) : R[p].payload # R[q].payload
      BY <1>3, <1>4
    <3> QED BY <2>1, <3>1, HeldFacts
  <2> QED BY <1>4, <2>2 DEF RepeatedIds, ConflictingIds
<1>7. unapproved = {} /\ missing = {}
  <2>1. unapproved = RecordIds \ Range(case.allowed)
        /\ missing = {k \in Range(case.required) : HeldOf(k) = {}}
    BY <1>2, AtTheEnd
  <2> QED BY <1>1, <1>4, <2>1
<1>8. Cardinality({id}) = 1 /\ Cardinality({}) = 0
  BY FS_Singleton, FS_EmptySet
<1>9. ReportedFindings(case) = {}
  <2>1. Cardinality(DOMAIN groups) = 1
    BY <1>4, <1>8, AtTheEnd
  <2> QED BY <1>2, <1>3, <2>1 DEF ReportedFindings, Mismatch, When
<1>10. Ordinal(RecordIds, id) = 1
  <2>1. id \in Nat
    BY <1>4, AtTheEnd
  <2>2. {k \in RecordIds : k <= id} = {id}
    BY <1>4, <2>1
  <2> QED BY <1>8, <2>2 DEF Ordinal
<1>11. findings = {<<"EF202", 1>>, <<"EF203", 1>>, <<"EF208", 1>>}
  <2>1. PolicyFindings = {} /\ RecordFindings = {} /\ IdFindings = {} /\ CountFindings = {}
    BY <1>2, <1>4, <1>5, <1>7, <1>9, AtTheEnd
       DEF PolicyFindings, RecordFindings, IdFindings, CountFindings, When
  <2>2. GroupFindings = {<<"EF202", 1>>, <<"EF203", 1>>, <<"EF208", 1>>}
    BY <1>6, <1>10, AtTheEnd DEF GroupFindings, GroupNumber
  <2> QED BY <2>1, <2>2 DEF IInv, Found
<1>12. CodesRegistered
  <2> DEFINE g == [v \in findings |-> v[1]]
  <2>1. {v[1] : v \in findings} = EXPECTED_CODES
    BY <1>11 DEF EXPECTED_CODES
  <2>2. g \in Bijection(findings, EXPECTED_CODES)
    <3>1. g \in [findings -> EXPECTED_CODES] /\ \A t \in EXPECTED_CODES : \E v \in findings : g[v] = t
      BY <2>1
    <3>2. \A v, u \in findings : g[v] = g[u] => v = u
      BY <1>11
    <3> HIDE DEF g
    <3> QED BY <3>1, <3>2 DEF Bijection, Injection, Surjection, IsInjective
  <2>3. ExistsBijection(findings, EXPECTED_CODES)
    BY <2>2 DEF ExistsBijection
  <2>4. IsFiniteSet(findings)
    <3>1. IsFiniteSet({<<"EF202", 1>>})
      BY FS_Singleton
    <3>2. IsFiniteSet({<<"EF202", 1>>} \cup {<<"EF203", 1>>})
      BY <3>1, FS_AddElement
    <3>3. IsFiniteSet(({<<"EF202", 1>>} \cup {<<"EF203", 1>>}) \cup {<<"EF208", 1>>})
      BY <3>2, FS_AddElement
    <3>4. findings = ({<<"EF202", 1>>} \cup {<<"EF203", 1>>}) \cup {<<"EF208", 1>>}
      BY <1>11
    <3> QED BY <3>3, <3>4
  <2>5. Cardinality(findings) = Cardinality(EXPECTED_CODES)
    BY <2>3, <2>4, FS_Bijection
  <2> QED BY <2>1, <2>5 DEF CodesRegistered
<1>13. report = RegisteredReport
  <2>1. counts["duplicate"] = 1 /\ counts["conflicting"] = 1 /\ counts["invalid"] = 0
    BY <1>4, <1>6, <1>8, AtTheEnd DEF IInv, Counted
  <2>2. Cardinality(witnesses) = 1 /\ Cardinality(DOMAIN groups) = 1
    BY <1>4, <1>6, <1>8, AtTheEnd, WitnessesByGroup
  <2>3. Cardinality(unapproved) = 0 /\ Cardinality(missing) = 0
    BY <1>7, <1>8
  <2>4. (findings = {}) = FALSE
    BY <1>11
  <2> QED BY <1>3, <2>1, <2>2, <2>3, <2>4 DEF IInv, Reported, RegisteredReport
<1>14. /\ witnesses = {Witness(id)} /\ Witness(id).group = 1
       /\ Witness(id).positions = {1, 2}
       /\ Witness(id).first = first /\ Witness(id).last = last
  <2>1. witnesses = {Witness(id)} /\ Witness(id).group = 1
    BY <1>4, <1>6, <1>10, WitnessesByGroup
  <2>2. /\ Witness(id).positions = ValidAt(id)
        /\ Witness(id).first = R[FirstOf(ValidAt(id))].payload
        /\ Witness(id).last = R[LastOf(ValidAt(id))].payload
    BY <1>4, AtTheEnd DEF Witness
  <2>3. /\ Witness(id).first = R[FirstOf({1, 2})].payload
        /\ Witness(id).last = R[LastOf({1, 2})].payload
    BY <1>4, <2>2
  <2> QED BY <1>3, <1>4, <2>1, <2>2, <2>3, FirstAndLastOfTwo
<1> QED BY <1>12, <1>13, <1>14 DEF VerifyReport, RegisteredReport

(* verify_manifest_case_study.py: the reports it accepts for two different *)
(* survivors are those of the two records of one id with these digests in  *)
(* this order and nothing else wrong.                                      *)
THEOREM AcceptsControlsOnly == Spec => []AcceptedIsControl
<1>1. IInv => AcceptedIsControl
  BY OnlyControlsVerify, ControlsVerify, SyntheticAssumption DEF AcceptedIsControl
<1> QED BY <1>1, Invariance, PTL

(* swebench_manifest_audit.py and verify_manifest_case_study.py: what the  *)
(* adapter publishes of a conforming evalfence, the verifier accepts.      *)
THEOREM WhatIsPublishedVerifies == Spec => []PublishedVerifies
<1>1. IInv => PublishedVerifies
  <2> SUFFICES ASSUME IInv, pc = "done", NEW first, NEW last, <<first, last>> \in {Forward, Backward},
                      case = BuildCase(<<first, last>>)
               PROVE  AdapterAccepts(last) /\ VerifyReport(first, last)
    BY DEF PublishedVerifies, SurvivorDigest, Forward, Backward
  <2>1. first # last /\ BadDigest \notin {first, last}
    BY SyntheticAssumption DEF Forward, Backward
  <2>2. IsControl(first, last)
    <3>1. /\ case.schemaOk /\ case.caseIdOk
          /\ case.reported.records = 2 /\ case.reported.unique = 1
          /\ case.allowed = <<SyntheticId>> /\ case.required = <<>>
      BY DEF BuildCase
    <3>2. case.records = <<[id |-> SyntheticId, payload |-> first],
                           [id |-> SyntheticId, payload |-> last]>>
      BY DEF BuildCase
    <3>3. Range(case.allowed) = {SyntheticId} /\ Range(case.required) = {}
      BY <3>1 DEF Range
    <3>4. Distinct(case.allowed) /\ Distinct(case.required)
      <4>1. Cardinality({SyntheticId}) = 1 /\ Cardinality({}) = 0
        BY FS_Singleton, FS_EmptySet
      <4>2. Len(case.allowed) = 1 /\ Len(case.required) = 0
        BY <3>1
      <4> QED BY <3>3, <4>1, <4>2 DEF Distinct
    <3>5. PolicyValid(case)
      BY <3>3, <3>4, SyntheticAssumption DEF PolicyValid
    <3> QED BY <3>1, <3>2, <3>3, <3>5 DEF IsControl
  <2>3. VerifyReport(first, last)
    BY <2>1, <2>2, ControlsVerify
  <2>4. AdapterAccepts(last)
    BY <2>3 DEF VerifyReport, AdapterAccepts
  <2> QED BY <2>3, <2>4
<1> QED BY <1>1, Invariance, PTL
=============================================================================
