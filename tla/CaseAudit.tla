----------------------------- MODULE CaseAudit -----------------------------
(***************************************************************************)
(* audit_case of src/src/audit.rs as an operator from a case to its        *)
(* report.  The order of the checks matters only through the early returns *)
(* (finish sorts the findings and drops duplicates), so the findings are a *)
(* set of <<code, what the message tells>> and a check that an early       *)
(* return skips contributes nothing.                                       *)
(*                                                                         *)
(* An evidence set is represented by what normalize_set returns for it:    *)
(* EvidenceSpec's lines, or the codes it refuses the set with.  A source   *)
(* label is its lower-case words with two flags for surrounding blanks and *)
(* upper-case letters.                                                     *)
(*                                                                         *)
(* A metric is a fraction <<numerator, denominator>>; a denominator of     *)
(* zero stands for the f64 values that are not finite.  What f64 rounds is *)
(* exact here, the sizes, the quotients and the three steps of F1, so that *)
(* a comparison is the code's one wherever the difference is not within a  *)
(* rounding error of the tolerance.                                        *)
(***************************************************************************)
EXTENDS Integers, Sequences, FiniteSets, Functions

CONSTANTS MaxU64, None

ASSUME MaxU64Assumption == MaxU64 \in Nat \ {0}

When(condition, finding) == IF condition THEN {finding} ELSE {}

-----------------------------------------------------------------------------
(* Source labels. *)

Label(words) == [words |-> words, padded |-> FALSE, upper |-> FALSE]
Trim(label) == [label EXCEPT !.padded = FALSE]
IsBlank(label) == label.words = <<>>

StartsWith(s, prefix) ==
    Len(prefix) <= Len(s) /\ SubSeq(s, 1, Len(prefix)) = prefix

(* looks_gold *)
LooksGold(source, gold) ==
    /\ ~IsBlank(source)
    /\ \/ "gold" \in Range(source.words)
       \/ ~IsBlank(gold) /\ StartsWith(source.words, gold.words)

(* check_prediction_source *)
SourceFindings(source, c) ==
    When(IsBlank(source), <<"EF009", "prediction">>)
      \cup When(LooksGold(source, c.gold.source), <<"EF002", Trim(source)>>)
      \cup When(Trim(source) \notin Range(c.allowed), <<"EF005", Trim(source)>>)

-----------------------------------------------------------------------------
(* The checks up to the early returns. *)

NaN == <<0, 0>>
Finite(x) == x[2] # 0

HeaderFindings(c) ==
    When(~c.schemaOk, <<"EF000", 0>>)
      \cup When(~c.caseIdOk, <<"EF003", 0>>)
      \cup When(~Finite(c.tolerance) \/ c.tolerance[1] < 0, <<"EF004", 0>>)
      \cup When(\E label \in Range(c.allowed) : IsBlank(label), <<"EF009", "allowed">>)

SetFindings(role, set) ==
    IF set.kind = "ok" THEN {} ELSE {<<code, role>> : code \in set.codes}

GoldFindings(c) ==
    When(IsBlank(c.gold.source), <<"EF009", "gold">>)
      \cup When(~c.gold.present, <<"EF008", 0>>)
      \cup SetFindings("gold", c.gold.set)

ReportedSource(c) == IF c.reported = None THEN None ELSE c.reported.source

ReportedSourceFindings(c) ==
    IF ReportedSource(c) = None THEN {} ELSE SourceFindings(ReportedSource(c), c)

PredictionFindings(c) ==
    IF c.prediction = None
    THEN {<<"EF001", "absent">>} \cup When(c.reported # None, <<"EF007", 0>>)
    ELSE When(~c.prediction.present, <<"EF001", "materialized">>)
           \cup SourceFindings(c.prediction.source, c)
           \cup When(/\ ReportedSource(c) # None
                     /\ Trim(ReportedSource(c)) # Trim(c.prediction.source), <<"EF006", 0>>)
           \cup SetFindings("prediction", c.prediction.set)

-----------------------------------------------------------------------------
(* The cardinalities and the metrics. *)

(* Neither early return before the cardinalities is taken. *)
BothNormalized(c) == /\ c.prediction # None
                     /\ c.prediction.set.kind = "ok" /\ c.gold.set.kind = "ok"

Cardinalities(c) ==
    LET P == c.prediction.set.lines
        G == c.gold.set.lines
    IN  [pred_size |-> Cardinality(P), gold_size |-> Cardinality(G),
         intersection |-> Cardinality(P \cap G)]

OverflowFindings(c) ==
    IF ~BothNormalized(c) THEN {}
    ELSE {<<"EF012", n>> : n \in {m \in DOMAIN Cardinalities(c) :
                                    Cardinalities(c)[m] > MaxU64}}

ratio(n, d) == IF d = 0 THEN None ELSE <<n, d>>

(* Mutant: the sum of both ratios is not doubled. *)
HarmonicHalf(p, r) == <<p[1] * r[1], p[1] * r[2] + r[1] * p[2]>>

(* 2.0 * precision * recall / (precision + recall) *)
Harmonic(p, r) == <<2 * p[1] * r[1], p[1] * r[2] + r[1] * p[2]>>

F1(p, r) == IF p = None \/ r = None THEN None
            ELSE IF p[1] + r[1] > 0 THEN Harmonic(p, r) ELSE <<0, 1>>

Calculated(c) ==
    IF ~BothNormalized(c) \/ OverflowFindings(c) # {} THEN None
    ELSE LET n == Cardinalities(c)
             p == ratio(n.intersection, n.pred_size)
             r == ratio(n.intersection, n.gold_size)
         IN  [pred_size |-> n.pred_size, gold_size |-> n.gold_size,
              intersection |-> n.intersection, precision |-> p, recall |-> r, f1 |-> F1(p, r)]

-----------------------------------------------------------------------------
(* compare_reported *)

Abs(n) == IF n < 0 THEN -n ELSE n

(* (reported - calculated).abs() <= tolerance; false when that is NaN *)
Close(x, y, tolerance) ==
    /\ tolerance # NaN
    /\ Abs(x[1] * y[2] - y[1] * x[2]) * tolerance[2] <= tolerance[1] * x[2] * y[2]

(* Mutant: a metric reported although its denominator is zero is ignored. *)
MetricWrongIfDefined(reported, calculated, tolerance) ==
    /\ reported # None
    /\ ~Finite(reported) \/ (calculated # None /\ ~Close(reported, calculated, tolerance))

MetricWrong(reported, calculated, tolerance) ==
    /\ reported # None
    /\ \/ ~Finite(reported)
       \/ calculated = None
       \/ ~Close(reported, calculated, tolerance)

CountWrong(reported, calculated) == reported # None /\ reported # calculated

CompareFindings(c) ==
    IF c.reported = None \/ Calculated(c) = None THEN {}
    ELSE LET r == c.reported
             k == Calculated(c)
         IN  When(CountWrong(r.pred_size, k.pred_size), <<"EF101", 0>>)
             \cup When(CountWrong(r.gold_size, k.gold_size), <<"EF102", 0>>)
             \cup When(CountWrong(r.intersection, k.intersection), <<"EF103", 0>>)
             \cup When(MetricWrong(r.precision, k.precision, c.tolerance), <<"EF104", 0>>)
             \cup When(MetricWrong(r.recall, k.recall, c.tolerance), <<"EF105", 0>>)
             \cup When(MetricWrong(r.f1, k.f1, c.tolerance), <<"EF106", 0>>)

-----------------------------------------------------------------------------
(* audit_case and finish *)
AuditCase(c) ==
    LET findings == UNION {HeaderFindings(c), GoldFindings(c), PredictionFindings(c),
                           ReportedSourceFindings(c), OverflowFindings(c), CompareFindings(c)}
    IN  [passed |-> findings = {}, calculated |-> Calculated(c), findings |-> findings]
=============================================================================
