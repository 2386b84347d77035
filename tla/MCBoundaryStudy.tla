-------------------------- MODULE MCBoundaryStudy --------------------------
(***************************************************************************)
(* The registered build, one whose summary has other hashes, one whose     *)
(* case has, and one of another shape with a private text.                 *)
(***************************************************************************)
EXTENDS BoundaryStudy, TLC

RegisteredCase == [shape |-> "registered", payload |-> 1, private |-> FALSE]
OtherPayload == [RegisteredCase EXCEPT !.payload = 2]
OtherShape == [shape |-> "other", payload |-> 2, private |-> TRUE]

Pair(c, rest) == [case |-> c, summary |-> SummaryOf(c, rest)]
SomeBuilds == {Pair(RegisteredCase, "registered"), Pair(RegisteredCase, "hashes"),
               Pair(OtherPayload, "registered"), Pair(OtherShape, "counts")}
Symmetry == Permutations(Procs)
=============================================================================
