-------------------------- MODULE IntervalMetrics --------------------------
(***************************************************************************)
(* The three cardinalities audit_case computes from two normalized sets:   *)
(* set_size of the prediction, set_size of the gold and intersection_size  *)
(* (src/src/interval.rs), with the checked conversion of each to u64.      *)
(*                                                                         *)
(* The u128 accumulator is a natural number: a Vec holds fewer than 2^64   *)
(* intervals of at most 2^64 lines, so checked_add cannot fail.  Files are *)
(* visited in any order, BTreeMap order being one of them.                 *)
(***************************************************************************)
EXTENDS Intervals, FiniteSets

CONSTANT Sets,       \* the normalized sets that may be compared
         Overflow    \* the Err(EF012_CARDINALITY_OVERFLOW) of a cardinality

ASSUME SetsAssumption == Sets \subseteq NormalizedSet
ASSUME OverflowAssumption == Overflow \notin Nat

VARIABLES
    left, right,  \* the prediction and the gold set
    pc,           \* the loop running: "pred", "gold", "inter", then "done"
    todo,         \* files the loop has not visited
    file,         \* the file being visited, NoFile between two files
    i, j,         \* left_index (or the interval set_size reads), right_index
    total,        \* the accumulator of the running loop
    result        \* the cardinalities returned so far

vars == <<left, right, pc, todo, file, i, j, total, result>>

Loops == {"pred", "gold", "inter"}

Keys(set) == {f \in Files : set[f] # <<>>}

Init ==
    /\ left \in Sets /\ right \in Sets
    /\ pc = "pred"
    /\ todo = Keys(left)
    /\ file = NoFile
    /\ i = 1 /\ j = 1
    /\ total = 0
    /\ result = [l \in Loops |-> 0]

-----------------------------------------------------------------------------
(* Mutant: the accumulator is cut to the range of u64 instead. *)
Saturate(n) == IF n <= MaxU64 THEN n ELSE MaxU64

(* u64::try_from(total).map_err(cardinality_overflow) *)
ToU64(n) == IF n <= MaxU64 THEN n ELSE Overflow

(* The set whose keys the running loop iterates over. *)
Iterated(loop) == IF loop = "gold" THEN right ELSE left

(* for (file, ...) in set; intersection_size skips a file right lacks. *)
NextFile ==
    /\ pc \in Loops /\ file = NoFile
    /\ \E f \in todo :
         /\ todo' = todo \ {f}
         /\ file' = IF pc = "inter" /\ right[f] = <<>> THEN NoFile ELSE f
    /\ i' = 1 /\ j' = 1
    /\ UNCHANGED <<left, right, pc, total, result>>

(* set_size: one interval. *)
AddWidth ==
    /\ pc \in {"pred", "gold"} /\ file # NoFile
    /\ i <= Len(Iterated(pc)[file])
    /\ total' = total + Width(Iterated(pc)[file][i])
    /\ i' = i + 1
    /\ UNCHANGED <<left, right, pc, todo, file, j, result>>

(* intersection_size: the lines two intervals share. *)
MaxOf(x, y) == IF x > y THEN x ELSE y
MinOf(x, y) == IF x < y THEN x ELSE y

Shared(a, b) == [start |-> MaxOf(a.start, b.start), end |-> MinOf(a.end, b.end)]

Overlap(a, b) == IF Shared(a, b).start <= Shared(a, b).end
                 THEN Width(Shared(a, b)) ELSE 0

(* Mutant: the interval that ends later is left. *)
AdvanceLongerLeft(a, b) == a.end > b.end

AdvanceLeft(a, b) == a.end < b.end

(* intersection_size: one turn of the two-pointer loop. *)
AddOverlap ==
    /\ pc = "inter" /\ file # NoFile
    /\ i <= Len(left[file]) /\ j <= Len(right[file])
    /\ LET a == left[file][i]
           b == right[file][j]
       IN  /\ total' = total + Overlap(a, b)
           /\ IF AdvanceLeft(a, b) THEN i' = i + 1 /\ j' = j
                                   ELSE i' = i /\ j' = j + 1
    /\ UNCHANGED <<left, right, pc, todo, file, result>>

(* Mutant: the two-pointer loop ends with the left list only. *)
FileDoneLeftOnly ==
    /\ pc \in Loops /\ file # NoFile
    /\ i > Len(Iterated(pc)[file])
    /\ file' = NoFile
    /\ UNCHANGED <<left, right, pc, todo, i, j, total, result>>

(* The inner loop ends. *)
FileDone ==
    /\ pc \in Loops /\ file # NoFile
    /\ \/ i > Len(Iterated(pc)[file])
       \/ pc = "inter" /\ j > Len(right[file])
    /\ file' = NoFile
    /\ UNCHANGED <<left, right, pc, todo, i, j, total, result>>

(* The function returns; audit_case calls the next one, also after an Err. *)
After(loop) == CASE loop = "pred" -> "gold" [] loop = "gold" -> "inter"
                 [] OTHER -> "done"

Return ==
    /\ pc \in Loops /\ file = NoFile /\ todo = {}
    /\ result' = [result EXCEPT ![pc] = ToU64(total)]
    /\ pc' = After(pc)
    /\ todo' = IF pc = "done" THEN {} ELSE Keys(Iterated(After(pc)))
    /\ total' = 0
    /\ UNCHANGED <<left, right, file, i, j>>

Done == pc = "done" /\ UNCHANGED vars

Next == NextFile \/ AddWidth \/ AddOverlap \/ FileDone \/ Return \/ Done

(* Sequential code: nothing it waits for can block it. *)
Spec == Init /\ [][Next]_vars /\ WF_vars(Next)

-----------------------------------------------------------------------------
(* Properties *)

(* A set as its (file, line) pairs. *)
Evidence(set) == UNION {{f} \X Covered(set[f]) : f \in Files}

(* The pairs the running loop must have counted by now. *)
Visited == {f \in Files : f \notin todo /\ f # file}

CountedHere(loop) ==
    IF loop = "inter"
    THEN UNION {Points(left[file][p[1]]) \cap Points(right[file][p[2]]) :
                  p \in {q \in (DOMAIN left[file]) \X (DOMAIN right[file]) :
                           q[1] < i \/ q[2] < j}}
    ELSE CoveredUpTo(Iterated(loop)[file], i - 1)

Target(loop) == IF loop = "inter" THEN Evidence(left) \cap Evidence(right)
                                  ELSE Evidence(Iterated(loop))

Counted(loop) ==
    {e \in Target(loop) : e[1] \in Visited}
      \cup (IF file = NoFile THEN {} ELSE {file} \X CountedHere(loop))

(* Between two turns of a loop the accumulator is the number of pairs the *)
(* loop has passed: no line shared by the sets is skipped when the shorter *)
(* of two intervals is left behind, and none is counted twice.             *)
CountExact == pc \in Loops => total = Cardinality(Counted(pc))

(* What each call returns: the exact cardinality, or the overflow exactly  *)
(* when the cardinality is not a u64.                                      *)
Returned(loop) == \/ pc = "done"
                  \/ loop = "pred" /\ pc # "pred"
                  \/ loop = "gold" /\ pc = "inter"

CardinalitiesExact ==
    \A loop \in Loops :
      Returned(loop) =>
        LET size == Cardinality(Target(loop))
        IN  result[loop] = IF size \in U64 THEN size ELSE Overflow

(* The three calls return. *)
Terminates == <>(pc = "done")
=============================================================================
