-------------------------- MODULE MCBoundaryProbe --------------------------
(***************************************************************************)
(* The cases of MCBoundaryAudit, and a probe of two domains: the first has *)
(* a read handler too, and may turn out to have a second write handler or  *)
(* other requirement lists.  One call more than the four registered ones.  *)
(***************************************************************************)
EXTENDS BoundaryProbe, MCBoundaryAudit

TwoDomains == <<"travel", "shopping">>
OneWrite == [d \in Range(TwoDomains) |-> 1]
Items(state, task) == [l \in Lists |-> IF l = "state_requirements" THEN state ELSE task]
ItemsOf == [d \in Range(TwoDomains) |-> IF d = "travel" THEN Items(2, 1) ELSE Items(1, 1)]

Travel == [writes |-> {"book"}, handlers |-> {"book", "find"}, items |-> Items(2, 1)]
Shopping == [writes |-> {"add"}, handlers |-> {"add"}, items |-> Items(1, 1)]
SomeEnvironments ==
    [d \in Range(TwoDomains) |->
       IF d = "travel"
       THEN {Travel, [Travel EXCEPT !.writes = {"book", "find"}], [Travel EXCEPT !.items = Items(2, 2)]}
       ELSE {Shopping}]
=============================================================================
