--------------------------- MODULE NormalizeSet ---------------------------
(***************************************************************************)
(* normalize_set and merge_intervals of src/src/interval.rs: the loop that *)
(* validates the intervals of an evidence set and groups them by file, and *)
(* then, file by file, the sort and the merge loop that leave every file   *)
(* with its canonical list.                                                *)
(*                                                                         *)
(* One action per loop iteration, so that what holds between two           *)
(* iterations is a state invariant.                                        *)
(***************************************************************************)
EXTENDS Intervals, Functions

CONSTANT Inputs          \* the evidence sets normalize_set may be given

ASSUME InputsAssumption == Inputs \subseteq Seq(Item)

VARIABLES
    items,        \* evidence.intervals
    index,        \* the next item the validation loop reads
    byFile,       \* by_file; <<>> where the BTreeMap has no entry
    violations,   \* the violations recorded, as <<code, item index>>
    pc,           \* "scan", "files", "merge", "ok" (Ok), "err" (Err)
    todo,         \* files whose list is not merged yet
    file,         \* the file whose list is being merged
    sorted,       \* merge_intervals: the sorted copy
    at,           \* merge_intervals: the next element of sorted
    merged        \* merge_intervals: the result so far

vars == <<items, index, byFile, violations, pc, todo, file, sorted, at, merged>>
mergeVars == <<file, sorted, at, merged>>

Violation == {"EF010_INVALID_INTERVAL", "EF011_UNSAFE_FILE_KEY"} \X (Nat \ {0})

TypeOK ==
    /\ items \in Inputs
    /\ index \in 1 .. Len(items) + 1
    /\ byFile \in [Files -> Seq(WellFormedInterval)]
    /\ violations \subseteq Violation
    /\ pc \in {"scan", "files", "merge", "ok", "err"}
    /\ todo \subseteq Files
    /\ file \in Files \cup {NoFile}
    /\ sorted \in Seq(WellFormedInterval)
    /\ at \in 1 .. Len(sorted) + 1
    /\ merged \in Seq(WellFormedInterval)

Init ==
    /\ items \in Inputs
    /\ index = 1
    /\ byFile = [f \in Files |-> <<>>]
    /\ violations = {}
    /\ pc = "scan"
    /\ todo = {}
    /\ file = NoFile
    /\ sorted = <<>>
    /\ at = 1
    /\ merged = <<>>

-----------------------------------------------------------------------------
(* The validation loop. *)

Bounds(item) == [start |-> item.start, end |-> item.end]

ScanGood ==
    /\ pc = "scan" /\ index <= Len(items)
    /\ GoodItem(items[index])
    /\ byFile' = [byFile EXCEPT ![NormalizeFileKey(items[index].file)] =
                                    Append(@, Bounds(items[index]))]
    /\ index' = index + 1
    /\ UNCHANGED <<items, violations, pc, todo, mergeVars>>

ScanBad ==
    /\ pc = "scan" /\ index <= Len(items)
    /\ ~GoodItem(items[index])
    /\ violations' = violations \cup {<<Refusal(items[index]), index>>}
    /\ index' = index + 1
    /\ UNCHANGED <<items, byFile, pc, todo, mergeVars>>

(* Mutant: the good items of a set that also has bad ones are used. *)
EndScanKeepsGood ==
    /\ pc = "scan" /\ index > Len(items)
    /\ pc' = "files"
    /\ todo' = {f \in Files : byFile[f] # <<>>}
    /\ UNCHANGED <<items, index, byFile, violations, mergeVars>>

(* Any violation refuses the whole set; otherwise every list is merged. *)
EndScan ==
    /\ pc = "scan" /\ index > Len(items)
    /\ pc' = IF violations # {} THEN "err" ELSE "files"
    /\ todo' = {f \in Files : byFile[f] # <<>>}
    /\ UNCHANGED <<items, index, byFile, violations, mergeVars>>

-----------------------------------------------------------------------------
(* merge_intervals, once per file. *)

(* Mutant: the order of the ends alone. *)
EndLeq(a, b) == a.end <= b.end

(* The order of the derived Ord on (start, end) pairs. *)
LexLeq(a, b) == a.start < b.start \/ (a.start = b.start /\ a.end <= b.end)

Ascending(list) == \A i, j \in DOMAIN list : i < j => LexLeq(list[i], list[j])

(* The results sort_unstable can give: the ascending permutations. *)
SortedVersions(list) ==
    {s \in {[i \in DOMAIN list |-> list[p[i]]] :
              p \in Bijection(DOMAIN list, DOMAIN list)} : Ascending(s)}

(* Mutant: intervals that only touch are not joined. *)
Overlaps(last, cur) == cur.start <= last.end

(* The merge condition: cur overlaps last or starts on the line after it. *)
Joins(last, cur) == cur.start <= SatAdd(last.end, 1)

(* last.1 = last.1.max(current.1) *)
Extend(last, cur) ==
    [last EXCEPT !.end = IF cur.end > last.end THEN cur.end ELSE last.end]

StartFile ==
    /\ pc = "files"
    /\ \E f \in todo :
         /\ file' = f
         /\ sorted' \in SortedVersions(byFile[f])
    /\ at' = 1
    /\ merged' = <<>>
    /\ pc' = "merge"
    /\ UNCHANGED <<items, index, byFile, violations, todo>>

MergeExtend ==
    /\ pc = "merge" /\ at <= Len(sorted)
    /\ merged # <<>>
    /\ Joins(merged[Len(merged)], sorted[at])
    /\ merged' = [merged EXCEPT ![Len(merged)] = Extend(@, sorted[at])]
    /\ at' = at + 1
    /\ UNCHANGED <<items, index, byFile, violations, pc, todo, file, sorted>>

MergePush ==
    /\ pc = "merge" /\ at <= Len(sorted)
    /\ merged # <<>> => ~Joins(merged[Len(merged)], sorted[at])
    /\ merged' = Append(merged, sorted[at])
    /\ at' = at + 1
    /\ UNCHANGED <<items, index, byFile, violations, pc, todo, file, sorted>>

FinishFile ==
    /\ pc = "merge" /\ at > Len(sorted)
    /\ byFile' = [byFile EXCEPT ![file] = merged]
    /\ todo' = todo \ {file}
    /\ pc' = "files"
    /\ UNCHANGED <<items, index, violations, mergeVars>>

Return ==
    /\ pc = "files" /\ todo = {}
    /\ pc' = "ok"
    /\ UNCHANGED <<items, index, byFile, violations, todo, mergeVars>>

Done == pc \in {"ok", "err"} /\ UNCHANGED vars

Next == \/ ScanGood \/ ScanBad \/ EndScan
        \/ StartFile \/ MergeExtend \/ MergePush \/ FinishFile \/ Return
        \/ Done

(* normalize_set is a sequential call: nothing it waits for can block it. *)
Spec == Init /\ [][Next]_vars /\ WF_vars(Next)

-----------------------------------------------------------------------------
(* Properties *)

(* The lines the items read so far name in file f. *)
Named(f) == UNION {Points(items[i]) :
                     i \in {k \in 1 .. index - 1 :
                              /\ GoodItem(items[k])
                              /\ NormalizeFileKey(items[k].file) = f}}

(* At every iteration of either loop the lists hold exactly the lines of  *)
(* the items read so far, whatever spelling named the file: grouping,     *)
(* sorting and merging neither lose nor invent a line.                    *)
EvidencePreserved == \A f \in Files : Covered(byFile[f]) = Named(f)

(* The merge loop's own invariant: the merged list covers exactly the     *)
(* lines of the sorted prefix consumed, so an interval nested in an       *)
(* earlier, longer one does not shorten it.                               *)
MergeCoversPrefix ==
    pc = "merge" => Covered(merged) = CoveredUpTo(sorted, at - 1)

(* The canonical form is kept by every iteration, also at the end of the  *)
(* u64 range where last.1 + 1 saturates: otherwise set_size would count a *)
(* line twice, or adjacent lists would not compare equal.                 *)
CanonicalForm ==
    /\ Separated(merged)
    /\ \A f \in Files :
         pc \in {"files", "merge", "ok"} /\ f \notin todo => Separated(byFile[f])

(* Refinement: the two loops together are the single atomic step of        *)
(* EvidenceSpec.  In particular a set with one bad item is refused with a  *)
(* violation for each bad item, no partly merged set escapes, and the call *)
(* returns.                                                                *)
Result ==
    CASE pc = "ok"  -> [kind |-> "ok", lines |-> [f \in Files |-> Covered(byFile[f])]]
      [] pc = "err" -> [kind |-> "err", violations |-> violations]
      [] OTHER      -> [kind |-> "pending"]

Abstract == INSTANCE EvidenceSpec WITH result <- Result

ImplementsEvidence == Abstract!Spec
=============================================================================
