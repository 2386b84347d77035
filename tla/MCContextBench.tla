--------------------------- MODULE MCContextBench ---------------------------
(***************************************************************************)
(* The batches of MCBatchAudit, and datasets of up to two rows of every    *)
(* kind: recalls that differ either way or not at all, rows without gold   *)
(* or without deleted lines, ranges that overlap, and a path written with  *)
(* a backslash.  The registered dataset has a row of each of the first     *)
(* kinds.                                                                  *)
(***************************************************************************)
EXTENDS ContextBench, MCBatchAudit

Lines(start, end) == [key |-> "d/a", start |-> start, end |-> end]
Row(patch, gold) == [patch |-> patch, gold |-> gold]

TooLarge == Row(<<Lines(1, 1)>>, <<Lines(1, 2)>>)
TooSmall == Row(<<Lines(1, 2)>>, <<Lines(2, 2)>>)
Equal == Row(<<Lines(1, 2)>>, <<Lines(1, 2)>>)
NoDeletedLine == Row(<<>>, <<Lines(1, 1)>>)

Rows == {TooLarge, TooSmall, Equal, NoDeletedLine,
         Row(<<Lines(1, 1)>>, <<>>),
         Row(<<Lines(1, 1)>>, <<Lines(1, 1), Lines(1, 1)>>),
         Row(<<Lines(1, 1), Lines(1, 1)>>, <<Lines(1, 2)>>),
         Row(<<[Lines(1, 1) EXCEPT !.key = "d\\a"]>>, <<Lines(1, 1)>>)}

ThreeCases == <<TooLarge, NoDeletedLine, TooSmall, Equal>>
OneThousandth == <<1, 1000>>
SomeDatasets == ListsUpTo(2, Rows) \cup {ThreeCases}
=============================================================================
