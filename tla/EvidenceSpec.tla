--------------------------- MODULE EvidenceSpec ---------------------------
(***************************************************************************)
(* What normalize_set promises its caller, audit_case: one atomic step     *)
(* that refuses an evidence set with one violation for every bad item, or  *)
(* returns, for every file, the set of lines its items name.               *)
(***************************************************************************)
EXTENDS Intervals

CONSTANT Inputs

VARIABLES items, result

Pending == [kind |-> "pending"]

(* An item names a file and at least one line, and lines count from 1. *)
Legal(item) == /\ NormalizeFileKey(item.file) # NoFile
               /\ Points(item) # {}
               /\ 0 \notin Points(item)

BadItems == {i \in DOMAIN items : ~Legal(items[i])}

Lines(f) == UNION {Points(items[i]) :
                     i \in {k \in DOMAIN items : NormalizeFileKey(items[k].file) = f}}

Outcome ==
    IF BadItems # {}
    THEN [kind |-> "err", violations |-> {<<Refusal(items[i]), i>> : i \in BadItems}]
    ELSE [kind |-> "ok", lines |-> [f \in Files |-> Lines(f)]]

Init == items \in Inputs /\ result = Pending

Normalize == /\ result = Pending
             /\ result' = Outcome
             /\ UNCHANGED items

Safety == Init /\ [][Normalize]_<<items, result>>
Spec == Safety /\ WF_<<items, result>>(Normalize)
=============================================================================
