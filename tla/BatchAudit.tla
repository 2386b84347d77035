---------------------------- MODULE BatchAudit ----------------------------
(***************************************************************************)
(* audit_batch of src/src/audit.rs: every case of a batch is audited, then *)
(* the reports are counted and the first failing ones kept as examples.    *)
(***************************************************************************)
EXTENDS CaseAudit

CONSTANTS Batches,      \* the sequences of cases a batch may hold
          MaxExamples   \* the values of --max-examples

ASSUME MaxExamplesAssumption == MaxExamples \subseteq Nat

(* What serde and normalize_set make of a case: numbers are fractions, and *)
(* a set that normalize_set refuses has a code.                            *)
Fraction == Int \X Int

SetWellFormed(set) == IF set.kind = "ok" THEN IsFiniteSet(set.lines)
                      ELSE IsFiniteSet(set.codes) /\ set.codes # {}

WellFormed(c) ==
    /\ c.tolerance \in Fraction
    /\ SetWellFormed(c.gold.set)
    /\ c.prediction # None => SetWellFormed(c.prediction.set)
    /\ c.reported # None =>
         \A x \in {c.reported.precision, c.reported.recall, c.reported.f1} : x \in {None} \cup Fraction

ASSUME BatchesAssumption ==
    \A list \in Batches : /\ list \in Seq(Range(list))
                          /\ \A c \in Range(list) : WellFormed(c)

(* null is neither a number nor a record of metrics. *)
ASSUME NoneAssumption ==
    /\ None \notin Int /\ None \notin Fraction
    /\ None \notin [pred_size : Nat, gold_size : Nat, intersection : Nat,
                    precision : {None} \cup Fraction, recall : {None} \cup Fraction,
                    f1 : {None} \cup Fraction]

VARIABLES cases, max, reports, batch

vars == <<cases, max, reports, batch>>

Init == /\ cases \in Batches /\ max \in MaxExamples
        /\ reports = <<>>
        /\ batch = None

AuditNext == /\ Len(reports) < Len(cases)
             /\ reports' = Append(reports, AuditCase(cases[Len(reports) + 1]))
             /\ UNCHANGED <<cases, max, batch>>

Failing == {i \in DOMAIN reports : ~reports[i].passed}

PassedCount == Cardinality({i \in DOMAIN reports : reports[i].passed})

(* The findings of a code over all reports: violation_counts. *)
AllFindings == UNION {{i} \X reports[i].findings : i \in DOMAIN reports}
AllCodes == {f[2][1] : f \in AllFindings}
CountOf(code) == Cardinality({f \in AllFindings : f[2][1] = code})

Least(m, n) == IF m < n THEN m ELSE n

(* The k-th of a set of positions *)
Nth(S, k) == CHOOSE i \in S : Cardinality({j \in S : j <= i}) = k

(* Mutant: the first reports are taken before the passing ones are dropped. *)
ExamplesOfFirst(n) == LET S == Failing \cap (1 .. n)
                      IN  [k \in 1 .. Cardinality(S) |-> reports[Nth(S, k)]]

(* filter(!passed).take(max_examples) *)
Examples(n) == [k \in 1 .. Least(n, Cardinality(Failing)) |-> reports[Nth(Failing, k)]]

Aggregate == /\ Len(reports) = Len(cases) /\ batch = None
             /\ batch' = [total    |-> Len(cases),
                          passed   |-> PassedCount,
                          failed   |-> Len(cases) - PassedCount,
                          counts   |-> [code \in AllCodes |-> CountOf(code)],
                          examples |-> Examples(max)]
             /\ UNCHANGED <<cases, max, reports>>

Done == batch # None /\ UNCHANGED vars

Next == AuditNext \/ Aggregate \/ Done

Spec == Init /\ [][Next]_vars /\ WF_vars(Next)

-----------------------------------------------------------------------------
(* Properties *)

(* The contract of one case, said without findings or early returns. *)
SourceGood(label, c) ==
    /\ label.words # <<>> /\ "gold" \notin Range(label.words)
    /\ ~StartsWith(label.words, c.gold.source.words)
    /\ Trim(label) \in Range(c.allowed)

Reference(c) ==
    LET n == Cardinalities(c)
        Half(size) == IF size = 0 THEN None ELSE <<n.intersection, size>>
    IN  [precision |-> Half(n.pred_size), recall |-> Half(n.gold_size),
         f1 |-> IF n.pred_size = 0 \/ n.gold_size = 0 THEN None
                ELSE <<2 * n.intersection, n.pred_size + n.gold_size>>]

MetricKept(reported, reference, tolerance) ==
    reported # None =>
      /\ Finite(reported) /\ reference # None
      /\ Abs(reported[1] * reference[2] - reference[1] * reported[2]) * tolerance[2]
           <= tolerance[1] * reported[2] * reference[2]

KeepsContract(c) ==
    /\ c.schemaOk /\ c.caseIdOk /\ Finite(c.tolerance) /\ c.tolerance[1] >= 0
    /\ \A label \in Range(c.allowed) \cup {c.gold.source} : label.words # <<>>
    /\ c.gold.present /\ c.gold.set.kind = "ok"
    /\ c.prediction # None
    /\ c.prediction.present /\ c.prediction.set.kind = "ok"
    /\ SourceGood(c.prediction.source, c)
    /\ \A n \in Range(Cardinalities(c)) : n <= MaxU64
    /\ c.reported # None =>
         /\ c.reported.source # None =>
              SourceGood(c.reported.source, c)
                /\ Trim(c.reported.source) = Trim(c.prediction.source)
         /\ \A n \in DOMAIN Cardinalities(c) : c.reported[n] \in {None, Cardinalities(c)[n]}
         /\ \A m \in DOMAIN Reference(c) :
              MetricKept(c.reported[m], Reference(c)[m], c.tolerance)

(* A case passes exactly when it keeps its contract: no early return and   *)
(* no null metric lets a case through, and a supplied metric is compared   *)
(* with |P cap G| / |P|, |P cap G| / |G| and 2 |P cap G| / (|P| + |G|), as *)
(* rational numbers.                                                       *)
PassMeansContract ==
    \A i \in DOMAIN reports : reports[i].passed <=> KeepsContract(cases[i])

(* Before f64 rounds them, the calculated metrics are the ones of the      *)
(* reference definition, and they are missing exactly when the evidence    *)
(* does not determine them.                                                *)
SameFraction(x, y) == IF x = None \/ y = None THEN x = y ELSE x[1] * y[2] = y[1] * x[2]

MetricsExact ==
    \A i \in DOMAIN reports :
      LET c == cases[i]
          k == reports[i].calculated
      IN  IF c.prediction = None \/ c.gold.set.kind # "ok" THEN k = None
          ELSE IF c.prediction.set.kind # "ok" THEN k = None
          ELSE IF \E n \in Range(Cardinalities(c)) : n > MaxU64 THEN k = None
          ELSE \A m \in DOMAIN Reference(c) : SameFraction(k[m], Reference(c)[m])

(* A batch counts a case as failed exactly when it breaks its contract, so *)
(* no failing case is hidden behind the bound on the examples, the counts  *)
(* of the codes add up to all findings of all cases, and with room for one *)
(* example the first failing case is shown.                                *)
FailuresAccountedFor ==
    batch # None =>
      LET failing == {i \in DOMAIN cases : ~KeepsContract(cases[i])}
      IN  /\ batch.failed = Cardinality(failing)
          /\ batch.passed + batch.failed = batch.total
          /\ SumFunction(batch.counts) =
               SumFunction([i \in DOMAIN reports |-> Cardinality(reports[i].findings)])
          /\ Len(batch.examples) = Least(max, Cardinality(failing))
          /\ failing # {} /\ max > 0 =>
               batch.examples[1] = reports[CHOOSE i \in failing : \A j \in failing : i <= j]
=============================================================================
