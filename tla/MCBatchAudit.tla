--------------------------- MODULE MCBatchAudit ---------------------------
(***************************************************************************)
(* Batches for TLC.  SourceBatches and MetricBatches hold one case each:   *)
(* the first varies every label, presence flag and allowlist, the second   *)
(* the evidence (up to MaxU64 + 1 lines), the declared metrics and the     *)
(* tolerance.  MixedBatches are batches of up to four of five cases.       *)
(*                                                                         *)
(* The fractions are such that f64 decides every comparison as exact       *)
(* arithmetic does: the differences of reported and calculated metrics     *)
(* are far from the tolerance, or both are multiples of 1/2.               *)
(***************************************************************************)
EXTENDS BatchAudit

ListsUpTo(n, S) == UNION {[1 .. k -> S] : k \in 0 .. n}
Ok(lines) == [kind |-> "ok", lines |-> lines]
Refused == [kind |-> "err", codes |-> {"EF010", "EF011"}]
Evidence(source, present, set) == [source |-> source, present |-> present, set |-> set]

agent == Label(<<"agent">>)
oracle == Label(<<"oracle">>)

NoMetrics == [source |-> None, pred_size |-> None, gold_size |-> None, intersection |-> None,
              precision |-> None, recall |-> None, f1 |-> None]

Good == [schemaOk |-> TRUE, caseIdOk |-> TRUE, tolerance |-> <<0, 1>>, allowed |-> <<agent>>,
         gold |-> Evidence(oracle, TRUE, Ok({1, 2})),
         prediction |-> Evidence(agent, TRUE, Ok({2, 3})), reported |-> None]

Labels == {agent, oracle, Label(<<>>), [agent EXCEPT !.padded = TRUE],
           [agent EXCEPT !.upper = TRUE], [oracle EXCEPT !.upper = TRUE],
           Label(<<"oracle", "v2">>), Label(<<"agent", "gold">>)}

SourceBatches ==
    {<<[Good EXCEPT !.gold.source = g, !.gold.present = gp, !.allowed = a,
                    !.prediction = p, !.reported = r]>> :
       g \in {oracle, Label(<<>>)}, gp \in BOOLEAN,
       a \in {<<agent>>, <<Label(<<>>)>>, <<oracle, [agent EXCEPT !.padded = TRUE]>>,
              <<Label(<<"oracle", "v2">>), Label(<<"agent", "gold">>)>>},
       p \in {None} \cup {Evidence(l, present, set) :
                            l \in Labels, present \in BOOLEAN, set \in {Ok({2}), Refused}},
       r \in {None} \cup {[NoMetrics EXCEPT !.source = l] : l \in Labels \cup {None}}}

BadTolerances == {NaN, <<-1, 1>>, <<1, 0>>}
Fractions == {None, NaN, <<0, 1>>, <<1, 3>>, <<1, 2>>, <<1, 1>>}

MetricBatches ==
    {<<[Good EXCEPT !.gold.set = Ok(g), !.prediction.set = Ok(p), !.tolerance = t,
                    !.reported = [NoMetrics EXCEPT !.pred_size = n, !.precision = x, !.f1 = y]]>> :
       g \in SUBSET (1 .. 3), p \in SUBSET (2 .. 4),
       t \in BadTolerances \cup {<<0, 1>>, <<1, 4>>, <<1, 2>>},
       n \in {None, 2}, x \in {None, <<0, 1>>, <<1, 2>>}, y \in Fractions}

MixedBatches ==
    ListsUpTo(4, {Good, [Good EXCEPT !.prediction = None],
                  [Good EXCEPT !.gold.set = Refused, !.schemaOk = FALSE],
                  [Good EXCEPT !.allowed = <<>>, !.caseIdOk = FALSE],
                  [Good EXCEPT !.prediction.set = Ok({1, 2, 3})]}) \ {<<>>}

AllBatches == UNION {SourceBatches, MetricBatches, MixedBatches}
=============================================================================
