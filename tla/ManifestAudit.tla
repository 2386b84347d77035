--------------------------- MODULE ManifestAudit ---------------------------
(***************************************************************************)
(* audit_manifest of src/src/manifest_audit.rs: the loop over the records  *)
(* of a keyed manifest, the loop over the groups of equal ids, and the     *)
(* report, for the only collision policy there is, last_write_wins.        *)
(*                                                                         *)
(* Ids are numbers, ordered as the BTreeMap orders the strings; Blank      *)
(* stands for an id that is empty after trimming and BadDigest for a       *)
(* payload_sha256 that is not 64 lowercase hex digits.  A finding is       *)
(* <<code, what its message tells>>, so that the final dedup, which merges *)
(* equal (code, message) pairs, is the set itself.                         *)
(***************************************************************************)
EXTENDS Integers, Sequences, FiniteSets, Functions

CONSTANTS Cases, Blank, BadDigest, None

(* A case: records, allowed_ids, required_ids, reported, and whether the   *)
(* schema version and the case id are good.                                *)
ASSUME CasesAssumption ==
    \A c \in Cases :
      /\ c.schemaOk \in BOOLEAN /\ c.caseIdOk \in BOOLEAN
      /\ c.allowed \in Seq(Nat \cup {Blank}) /\ c.required \in Seq(Nat \cup {Blank})
      /\ c.records \in Seq(Range(c.records))
      /\ \A r \in Range(c.records) : r \in [id : Nat \cup {Blank}, payload : {r.payload}]
      /\ c.reported \in {None} \cup [records : Nat \cup {None}, unique : Nat \cup {None}]

VARIABLES
    case,        \* the argument
    pc,          \* "policy", "records", "groups", "done"
    position,    \* the next record
    groups,      \* records_by_id: per id its positions, a list that is
                 \* filled in ascending order and so told by its set
    validIds,    \* ids with a valid payload
    unapproved,  \* ids outside the allowlist
    missing,     \* missing_required
    group,       \* groups not visited yet, as the set of their ids
    findings,    \* violations
    counts,      \* the counters of the loops
    witnesses,   \* collapse_witnesses
    report       \* the ManifestReport, None before it is returned

vars == <<case, pc, position, groups, validIds, unapproved, missing, group,
          findings, counts, witnesses, report>>

Init ==
    /\ case \in Cases
    /\ pc = "policy"
    /\ position = 1
    /\ groups = [id \in {} |-> {}]
    /\ validIds = {} /\ unapproved = {} /\ missing = {} /\ group = {}
    /\ findings = {}
    /\ counts = [c \in {"duplicate", "conflicting", "invalid"} |-> 0]
    /\ witnesses = {}
    /\ report = None

-----------------------------------------------------------------------------
(* validate_policy *)
Distinct(list) == Cardinality(Range(list)) = Len(list)

(* Mutant: an id may be listed twice. *)
PolicyNotUnique(c) ==
    /\ Blank \notin Range(c.allowed) \cup Range(c.required)
    /\ Range(c.required) \subseteq Range(c.allowed)

PolicyValid(c) ==
    /\ Blank \notin Range(c.allowed) \cup Range(c.required)
    /\ Distinct(c.allowed) /\ Distinct(c.required)
    /\ Range(c.required) \subseteq Range(c.allowed)

When(condition, finding) == IF condition THEN {finding} ELSE {}

CheckPolicy ==
    /\ pc = "policy"
    /\ findings' = When(~case.schemaOk, <<"EF000", 0>>)
                     \cup When(~case.caseIdOk, <<"EF003", 0>>)
                     \cup When(~PolicyValid(case), <<"EF210", 0>>)
    /\ pc' = "records"
    /\ UNCHANGED <<case, position, groups, validIds, unapproved, missing, group,
                   counts, witnesses, report>>

-----------------------------------------------------------------------------
(* The loop over the records. *)

(* entry(id).or_default().push(position) *)
AddTo(g, id, p) ==
    [k \in DOMAIN g \cup {id} |->
       IF k \in DOMAIN g THEN g[k] \cup When(k = id, p) ELSE {p}]

(* Mutant: the message does not name the record. *)
InvalidDigestAnywhere(p) == <<"EF209", 0>>
InvalidDigest(p) == <<"EF209", p>>

ReadRecord ==
    /\ pc = "records" /\ position <= Len(case.records)
    /\ LET r      == case.records[position]
           named  == r.id # Blank
           digest == r.payload # BadDigest
       IN  /\ groups' = IF named THEN AddTo(groups, r.id, position) ELSE groups
           /\ unapproved' = unapproved \cup
                When(named /\ PolicyValid(case) /\ r.id \notin Range(case.allowed), r.id)
           /\ validIds' = validIds \cup When(named /\ digest, r.id)
           /\ counts' = [counts EXCEPT !["invalid"] = IF digest THEN @ ELSE @ + 1]
           /\ findings' = findings \cup When(~named, <<"EF201", position>>)
                            \cup When(~digest, InvalidDigest(position))
    /\ position' = position + 1
    /\ UNCHANGED <<case, pc, missing, group, witnesses, report>>

(* The one-based rank of an id in a set: all a report tells of an id. *)
Ordinal(ids, id) == Cardinality({k \in ids : k <= id})

(* Mutant: any record of a required id will do. *)
CoveredByAny(id) == id \in DOMAIN groups
CoveredBy(id) == id \in validIds

CheckIds ==
    /\ pc = "records" /\ position > Len(case.records)
    /\ missing' = IF PolicyValid(case)
                  THEN {id \in Range(case.required) : ~CoveredBy(id)} ELSE {}
    /\ findings' = findings
         \cup {<<"EF204", Ordinal(unapproved, id)>> : id \in unapproved}
         \cup {<<"EF205", Ordinal(Range(case.required), id)>> : id \in missing'}
    /\ group' = DOMAIN groups
    /\ pc' = "groups"
    /\ UNCHANGED <<case, position, groups, validIds, unapproved, counts, witnesses, report>>

-----------------------------------------------------------------------------
(* The loop over the groups. *)

ValidPositions(id) == {p \in groups[id] : case.records[p].payload # BadDigest}
Payloads(id) == {case.records[p].payload : p \in ValidPositions(id)}

FirstOf(positions) == CHOOSE p \in positions : \A q \in positions : p <= q
LastOf(positions) == CHOOSE p \in positions : \A q \in positions : q <= p

(* Mutant: the witness names the first and last record, valid or not. *)
WitnessOfAll(id) ==
    [group     |-> Ordinal(DOMAIN groups, id),
     positions |-> groups[id],
     payloads  |-> Payloads(id),
     first     |-> case.records[FirstOf(groups[id])].payload,
     last      |-> case.records[LastOf(groups[id])].payload]

Witness(id) ==
    [group     |-> Ordinal(DOMAIN groups, id),
     positions |-> ValidPositions(id),
     payloads  |-> Payloads(id),
     first     |-> case.records[FirstOf(ValidPositions(id))].payload,
     last      |-> case.records[LastOf(ValidPositions(id))].payload]

Repeated(id) == Cardinality(groups[id]) > 1

(* Only a repeated group may conflict: the code leaves the others early. *)
Conflicting(id) == Repeated(id) /\ Cardinality(Payloads(id)) > 1

CheckGroup ==
    /\ pc = "groups"
    /\ \E id \in group :
         LET n == Ordinal(DOMAIN groups, id) IN
         /\ \A k \in group : id <= k
         /\ group' = group \ {id}
         /\ counts' = [counts EXCEPT
              !["duplicate"] = @ + (IF Repeated(id) THEN 1 ELSE 0),
              !["conflicting"] = @ + (IF Conflicting(id) THEN 1 ELSE 0)]
         /\ findings' = findings
              \cup When(Repeated(id), <<"EF202", n>>)
              \cup When(Conflicting(id), <<"EF203", n>>)
              \cup When(Conflicting(id), <<"EF208", n>>)
         /\ witnesses' = witnesses \cup (IF Conflicting(id) THEN {Witness(id)} ELSE {})
    /\ UNCHANGED <<case, pc, position, groups, validIds, unapproved, missing, report>>

-----------------------------------------------------------------------------
Mismatch(reported, calculated) == reported # None /\ reported # calculated

ReportedFindings(c) ==
    IF c.reported = None THEN {}
    ELSE When(Mismatch(c.reported.records, Len(c.records)), <<"EF206", 0>>)
         \cup When(Mismatch(c.reported.unique, Cardinality(DOMAIN groups)), <<"EF207", 0>>)

Finish ==
    /\ pc = "groups" /\ group = {}
    /\ findings' = findings \cup ReportedFindings(case)
    /\ report' = [passed      |-> findings' = {},
                  records     |-> Len(case.records),
                  unique      |-> Cardinality(DOMAIN groups),
                  duplicate   |-> counts["duplicate"],
                  conflicting |-> counts["conflicting"],
                  collapses   |-> Cardinality(witnesses),
                  unapproved  |-> Cardinality(unapproved),
                  missing     |-> Cardinality(missing),
                  invalid     |-> counts["invalid"]]
    /\ pc' = "done"
    /\ UNCHANGED <<case, position, groups, validIds, unapproved, missing, group,
                   counts, witnesses>>

Done == pc = "done" /\ UNCHANGED vars

Next == CheckPolicy \/ ReadRecord \/ CheckIds \/ CheckGroup \/ Finish \/ Done

Spec == Init /\ [][Next]_vars /\ WF_vars(Next)

-----------------------------------------------------------------------------
(* Properties *)

(* What a consumer that builds a dictionary from the records in the order  *)
(* given keeps for an id, among the records with a valid digest.           *)
Survivor(records, id) ==
    LET held == {p \in DOMAIN records : records[p].id = id /\ records[p].payload # BadDigest}
    IN  IF held = {} THEN None
        ELSE records[CHOOSE p \in held : \A q \in held : q <= p].payload

Reorderings(records) ==
    {[p \in DOMAIN records |-> records[o[p]]] : o \in Bijection(DOMAIN records, DOMAIN records)}

RecordIds == {case.records[p].id : p \in DOMAIN case.records} \ {Blank}

(* A group has a witness exactly when some other order of the same records *)
(* changes what a last-write-wins consumer keeps for its id, and the       *)
(* witness names the survivors of this order and of the reversed one.      *)
WitnessesAreOrderDependence ==
    pc = "done" =>
      LET reversed == [p \in DOMAIN case.records |->
                         case.records[Len(case.records) + 1 - p]]
      IN  \A id \in RecordIds :
            LET mine == {w \in witnesses : w.group = Ordinal(RecordIds, id)}
            IN  IF \E o \in Reorderings(case.records) :
                     Survivor(o, id) # Survivor(case.records, id)
                THEN /\ Cardinality(mine) = 1
                     /\ \A w \in mine : /\ w.last = Survivor(case.records, id)
                                        /\ w.first = Survivor(reversed, id)
                ELSE mine = {}

(* A manifest passes exactly when it keeps the contract, said here without *)
(* the loops: in particular checks an invalid policy switches off are      *)
(* never what lets a manifest pass.                                        *)
KeepsContract ==
    LET R == case.records
        Ok(p) == R[p].id # Blank /\ R[p].payload # BadDigest
        Declared(n, m) == n \in {None, m}
    IN  /\ case.schemaOk /\ case.caseIdOk
        /\ Blank \notin Range(case.allowed) \cup Range(case.required)
        /\ \A l \in {case.allowed, case.required} : IsInjective(l)
        /\ \A p \in DOMAIN R : Ok(p)
        /\ \A p, q \in DOMAIN R : R[p].id = R[q].id => p = q
        /\ Range(case.required) \subseteq RecordIds
        /\ RecordIds \cup Range(case.required) \subseteq Range(case.allowed)
        /\ case.reported # None => /\ Declared(case.reported.records, Len(R))
                                   /\ Declared(case.reported.unique, Len(R))

PassMeansContract == pc = "done" => (report.passed <=> KeepsContract)

(* The counts a report states are the numbers of findings it lists, so no  *)
(* two findings collapse when equal messages are merged although the       *)
(* messages leave out every id.                                            *)
CountsMatchFindings ==
    pc = "done" =>
      LET Of(code) == Cardinality({v \in findings : v[1] = code})
      IN  /\ Of("EF202") = report.duplicate  /\ Of("EF203") = report.conflicting
          /\ Of("EF208") = report.collapses  /\ Of("EF204") = report.unapproved
          /\ Of("EF205") = report.missing    /\ Of("EF209") = report.invalid

(* The report does not depend on the order of the records: what it counts  *)
(* is what it would count of any other order, computed here from the       *)
(* records as a whole.                                                     *)
CountsOrderFree ==
    pc = "done" =>
      LET R == case.records
          At(id) == {p \in DOMAIN R : R[p].id = id}
          Held(id) == {R[p].payload : p \in At(id)} \ {BadDigest}
      IN  /\ report.unique = Cardinality(RecordIds)
          /\ report.duplicate = Cardinality({id \in RecordIds : Cardinality(At(id)) > 1})
          /\ report.conflicting = Cardinality({id \in RecordIds : Cardinality(Held(id)) > 1})
          /\ PolicyValid(case) =>
               /\ report.missing = Cardinality({id \in Range(case.required) : Held(id) = {}})
               /\ report.unapproved = Cardinality(RecordIds \ Range(case.allowed))
=============================================================================
