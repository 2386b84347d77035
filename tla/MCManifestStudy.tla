-------------------------- MODULE MCManifestStudy --------------------------
(***************************************************************************)
(* Two adapters; of the binaries, the right one and one for every check    *)
(* that could refuse it.                                                   *)
(***************************************************************************)
EXTENDS ManifestStudy, TLC

Right == [exit |-> 2, quiet |-> TRUE, codes |-> TRUE, leaks |-> FALSE, keeps |-> "last"]
SomeBinaries ==
    {Right, [Right EXCEPT !.exit = 0], [Right EXCEPT !.quiet = FALSE],
     [Right EXCEPT !.codes = FALSE], [Right EXCEPT !.leaks = TRUE],
     [Right EXCEPT !.keeps = "first"]}

Symmetry == Permutations(Adapters)
=============================================================================
