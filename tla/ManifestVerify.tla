--------------------------- MODULE ManifestVerify ---------------------------
(***************************************************************************)
(* The SWE-bench study as data: what swebench_manifest_audit.py builds and *)
(* asks of a report before it publishes, and what                          *)
(* verify_manifest_case_study.py asks of the same report afterwards, both  *)
(* of reports that audit_manifest (ManifestAudit) really makes.            *)
(***************************************************************************)
EXTENDS ManifestAudit

CONSTANTS SyntheticId, First, Second    \* payload digests of the two predictions

ASSUME SyntheticAssumption ==
    /\ SyntheticId \in Nat /\ SyntheticId # Blank
    /\ First # Second /\ BadDigest \notin {First, Second, None}

Forward == <<First, Second>>
Backward == <<Second, First>>

(* Mutant: a record count of the ids. *)
BuildCaseOfIds(payloads) ==
    [records |-> [p \in 1 .. 2 |-> [id |-> SyntheticId, payload |-> payloads[p]]],
     allowed |-> <<SyntheticId>>, required |-> <<>>,
     reported |-> [records |-> 1, unique |-> 1],
     schemaOk |-> TRUE, caseIdOk |-> TRUE]

(* build_case of the two predictions in one order *)
BuildCase(payloads) ==
    [records |-> [p \in 1 .. 2 |-> [id |-> SyntheticId, payload |-> payloads[p]]],
     allowed |-> <<SyntheticId>>, required |-> <<>>,
     reported |-> [records |-> 2, unique |-> 1],
     schemaOk |-> TRUE, caseIdOk |-> TRUE]

(* survivor_digest: a dictionary keeps the last record of a key. *)
SurvivorDigest(payloads) == payloads[2]

EXPECTED_CODES == {"EF202", "EF203", "EF208"}

(* [violation["code"] for ...] = EXPECTED_CODES: one finding per code *)
CodesRegistered ==
    /\ Cardinality(findings) = Cardinality(EXPECTED_CODES)
    /\ {v[1] : v \in findings} = EXPECTED_CODES

(* run_evalfence and the comparison of the survivors, on one report *)
AdapterAccepts(survivor) ==
    /\ ~report.passed /\ CodesRegistered
    /\ \E w \in witnesses : w.group = 1 /\ w.last = survivor

(* Mutant: the survivor is compared and not the record it replaced. *)
VerifyLast(first, last) ==
    /\ report = [passed |-> FALSE, records |-> 2, unique |-> 1, duplicate |-> 1, conflicting |-> 1,
                 collapses |-> 1, unapproved |-> 0, missing |-> 0, invalid |-> 0]
    /\ CodesRegistered
    /\ \E w \in witnesses : witnesses = {w} /\ w.group = 1 /\ w.last = last

(* verify_report *)
VerifyReport(first, last) ==
    /\ report = [passed |-> FALSE, records |-> 2, unique |-> 1, duplicate |-> 1, conflicting |-> 1,
                 collapses |-> 1, unapproved |-> 0, missing |-> 0, invalid |-> 0]
    /\ CodesRegistered
    /\ \E w \in witnesses : /\ witnesses = {w}
                            /\ w.group = 1 /\ w.positions = {1, 2}
                            /\ w.first = first /\ w.last = last

-----------------------------------------------------------------------------
(* Properties *)

(* Adapter, audit and verifier agree on both cases: whatever is published  *)
(* with a conforming evalfence verifies, with the two survivors of the     *)
(* summary in opposite places.                                             *)
PublishedVerifies ==
    pc = "done" =>
      \A order \in {Forward, Backward} :
        LET survivor == SurvivorDigest(order)
            other    == SurvivorDigest(IF order = Forward THEN Backward ELSE Forward)
        IN  case = BuildCase(order) => AdapterAccepts(survivor) /\ VerifyReport(other, survivor)

(* The verifier sees only a report; but the reports it accepts for a pair  *)
(* of survivors are those of two records of one id with these payloads in  *)
(* this order and nothing else wrong, so the two reports of a study cannot *)
(* be swapped, nor stand for other records.  None is a digest of neither.  *)
IsControl(first, last) ==
    /\ case.schemaOk /\ case.caseIdOk /\ PolicyValid(case)
    /\ case.reported # None => /\ case.reported.records \in {None, 2}
                               /\ case.reported.unique \in {None, 1}
    /\ \E id \in Range(case.allowed) :
         /\ case.records = <<[id |-> id, payload |-> first], [id |-> id, payload |-> last]>>
         /\ Range(case.required) \subseteq {id}

AcceptedIsControl ==
    pc = "done" =>
      \A first, last \in {First, Second, None} :
        first # last => (VerifyReport(first, last) <=> IsControl(first, last))
=============================================================================
