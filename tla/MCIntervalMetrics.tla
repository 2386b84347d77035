------------------------- MODULE MCIntervalMetrics -------------------------
(***************************************************************************)
(* Sets of IntervalMetrics for TLC.  A canonical list is determined by the *)
(* lines it covers: the first file takes all 2^MaxU64 of them, which is    *)
(* what the two-pointer loop is about; the second is empty, short or full, *)
(* which is what it takes to exceed MaxU64 and to have a key in one set    *)
(* only.                                                                   *)
(***************************************************************************)
EXTENDS IntervalMetrics

ListsUpTo(n, S) == UNION {[1 .. k -> S] : k \in 0 .. n}

CanonicalLists ==
    {s \in ListsUpTo((MaxU64 + 1) \div 2, WellFormedInterval) : Separated(s)}

Block(e) == <<[start |-> 1, end |-> e]>>

SecondFile == {<<>>, Block(1), Block(MaxU64)}

TwoFileSets == {[f \in Files |-> IF f = "a.py" THEN first ELSE second] :
                  first \in CanonicalLists, second \in SecondFile}
=============================================================================
