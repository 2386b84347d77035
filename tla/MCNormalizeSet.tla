-------------------------- MODULE MCNormalizeSet --------------------------
(***************************************************************************)
(* Inputs of NormalizeSet.  MergeInputs: every list of up to three         *)
(* well-formed intervals of one file, over all lines up to MaxU64, so that *)
(* the last line is u64::MAX.  ScanInputs: every list of up to three items *)
(* over two files, all spellings of a key and good and bad bounds.         *)
(***************************************************************************)
EXTENDS NormalizeSet

ListsUpTo(n, S) == UNION {[1 .. k -> S] : k \in 0 .. n}

At(spelling, path, s, e) ==
    [file |-> [spelling |-> spelling, path |-> path], start |-> s, end |-> e]

MergeInputs ==
    ListsUpTo(3, {At("plain", "a.py", iv.start, iv.end) : iv \in WellFormedInterval})

ScanInputs ==
    ListsUpTo(3, {At(sp, "a.py", b[1], b[2]) :
                    sp \in Plain \cup Refused, b \in {<<1, 1>>, <<3, 2>>}}
                 \cup {At("plain", "b.py", b[1], b[2]) :
                         b \in {<<0, 1>>, <<1, 0>>, <<2, 3>>}})

AllInputs == MergeInputs \cup ScanInputs
=============================================================================
