------------------------------- MODULE MCCli -------------------------------
(***************************************************************************)
(* Command lines and inputs for TLC.  A row of width 3 breaks MaxLineBytes *)
(* = 2; two rows can pass every byte limit; two cases are one too many.    *)
(***************************************************************************)
EXTENDS Cli

AllCommands == [lane : Lanes, input : {"stdin", "path"}, output : {"stdout", "file"}]

RowOf(kind, width) == [kind |-> kind, width |-> width]

Rows == {RowOf("pass", 2), RowOf("fail", 1), RowOf("blank", 1), RowOf("junk", 1),
         RowOf("pass", 3)}

ListsUpTo(n, S) == UNION {[1 .. k -> S] : k \in 0 .. n}

ShortInputs == ListsUpTo(2, Rows)
GrowingInputs == ListsUpTo(2, {RowOf("pass", 2), RowOf("fail", 1)})
=============================================================================
