-------------------------------- MODULE Cli --------------------------------
(***************************************************************************)
(* The evalfence process of src/src/main.rs between two other actors: a    *)
(* producer that is still writing the input, row by row, and may stop or   *)
(* remove it at any time, and whoever starts the process again, up to      *)
(* MaxRuns times with the same --output, after it ended or was killed.     *)
(*                                                                         *)
(* A row of input is its kind and its width in bytes: "pass" and "fail"    *)
(* are cases by the verdict of their audit, "junk" is no case at all (a    *)
(* row cut off in the middle is one), "blank" is white space.  The three   *)
(* single-case commands differ only in the audit and are one lane.         *)
(***************************************************************************)
EXTENDS Integers, Sequences, FiniteSets, SequencesExt

CONSTANTS
    Commands,       \* the command lines: [lane, input, output]
    Inputs,         \* the sequences of rows the producer writes
    MaxCaseBytes, MaxBatchBytes, MaxLineBytes, MaxBatchCases,
    MaxRuns,        \* bound on the number of runs
    Partial,        \* a file that is truncated or cut off
    None

ASSUME BoundsAssumption ==
    /\ \A n \in {MaxCaseBytes, MaxBatchBytes, MaxLineBytes, MaxBatchCases} : n \in Nat \ {0}
    /\ MaxRuns \in Nat \ {0}

Lanes == {"single", "batch"}
ASSUME CommandsAssumption ==
    Commands \subseteq [lane : Lanes, input : {"stdin", "path"}, output : {"stdout", "file"}]

(* One row of the input. *)
Row == [kind : {"pass", "fail", "junk", "blank"}, width : Nat]
ASSUME InputsAssumption == Inputs \subseteq Seq(Row)

(* A report as far as it is told apart, and what a sink holds beside one. *)
Reports == [run : Nat, total : Nat, failed : Nat]
ASSUME NoReportAssumption == /\ None \notin Reports /\ Partial \notin Reports
                             /\ None \notin Int

VARIABLES
    command,        \* the command line
    written, left,  \* rows in the input, rows the producer has yet to write
    torn,           \* the last row in the input is not complete
    closed,         \* the producer has stopped
    place,          \* what the input path names
    sinks,          \* the contents of the output file and of stdout
    run, pc, bytes, at, cases, report, exit   \* the process

producer == <<written, left, torn, closed, place>>
process == <<pc, bytes, at, cases, report, exit>>
vars == <<command, producer, sinks, run, process>>

Killed == -9   \* the return code a parent process sees

Width(rows) == FoldLeft(LAMBDA n, row : n + row.width, 0, rows)
Limit == IF command.lane = "single" THEN MaxCaseBytes ELSE MaxBatchBytes

Init ==
    /\ command \in Commands
    /\ written = <<>> /\ left \in Inputs
    /\ torn = FALSE /\ closed = FALSE
    /\ place \in {"regular", "irregular"}
    /\ sinks = [file |-> None, stdout |-> None]
    /\ run = 1
    /\ pc = "start" /\ bytes = <<>> /\ at = 1 /\ cases = <<>>
    /\ report = None /\ exit = None

-----------------------------------------------------------------------------
(* The producer. *)

Torn == [kind |-> "junk", width |-> 1]

BeginRow == /\ ~closed /\ ~torn /\ left # <<>>
            /\ written' = Append(written, Torn)
            /\ torn' = TRUE
            /\ UNCHANGED <<command, left, closed, place, sinks, run, process>>

EndRow == /\ ~closed /\ torn
          /\ written' = [written EXCEPT ![Len(written)] = Head(left)]
          /\ left' = Tail(left)
          /\ torn' = FALSE
          /\ UNCHANGED <<command, closed, place, sinks, run, process>>

Close == /\ ~closed /\ closed' = TRUE
         /\ UNCHANGED <<command, written, left, torn, place, sinks, run, process>>

RemoveInput == /\ place = "regular" /\ place' = "missing"
          /\ UNCHANGED <<command, written, left, torn, closed, sinks, run, process>>

-----------------------------------------------------------------------------
(* The process. *)

Exit(code) == exit' = code /\ pc' = "ended"

(* fs::metadata and the checks of its result *)
Stat ==
    /\ pc = "start" /\ command.input = "path"
    /\ IF place = "regular" /\ Width(written) <= Limit
       THEN pc' = "read" /\ UNCHANGED exit
       ELSE Exit(1)
    /\ UNCHANGED <<command, producer, sinks, run, bytes, at, cases, report>>

Parse == IF command.lane = "single" THEN "audit" ELSE "rows"

(* fs::read, of whatever the path names and holds by now *)
ReadPath ==
    /\ pc = "read"
    /\ IF place = "missing" THEN Exit(1) /\ UNCHANGED bytes
       ELSE bytes' = written /\ pc' = Parse /\ UNCHANGED exit
    /\ UNCHANGED <<command, producer, sinks, run, at, cases, report>>

(* Mutant: stdin is read to its end before its length is looked at. *)
StdinReadToEnd == closed

(* take(max_bytes + 1).read_to_end returns at the end or one byte too far. *)
StdinRead == closed \/ Width(written) > Limit

ReadStdin ==
    /\ pc = "start" /\ command.input = "stdin"
    /\ StdinRead
    /\ IF Width(written) > Limit THEN Exit(1) /\ UNCHANGED bytes
       ELSE bytes' = written /\ pc' = Parse /\ UNCHANGED exit
    /\ UNCHANGED <<command, producer, sinks, run, at, cases, report>>

BatchFull == Len(cases) >= MaxBatchCases

(* Mutant: a row that does not parse is counted in. *)
RowTooMuch(row) == row.width > MaxLineBytes \/ BatchFull
RowRefused(row) == row.width > MaxLineBytes \/ BatchFull \/ row.kind = "junk"

(* One turn of the line loop of audit-batch. *)
ReadRow ==
    /\ pc = "rows" /\ at <= Len(bytes)
    /\ LET row == bytes[at] IN
         IF row.kind = "blank"
         THEN at' = at + 1 /\ UNCHANGED <<pc, cases, exit>>
         ELSE IF RowRefused(row)
         THEN Exit(1) /\ UNCHANGED <<at, cases>>
         ELSE /\ cases' = Append(cases, row.kind)
              /\ at' = at + 1
              /\ UNCHANGED <<pc, exit>>
    /\ UNCHANGED <<command, producer, sinks, run, bytes, report>>

EndRows ==
    /\ pc = "rows" /\ at > Len(bytes)
    /\ IF cases = <<>> THEN Exit(1) ELSE pc' = "audit" /\ UNCHANGED exit
    /\ UNCHANGED <<command, producer, sinks, run, bytes, at, cases, report>>

(* The rows that are not white space, by position, and the failing ones. *)
Filled == {k \in DOMAIN bytes : bytes[k].kind # "blank"}
Failing == {k \in Filled : bytes[k].kind = "fail"}

(* What from_slice makes of the bytes of a single case. *)
IsOneCase == \E k \in Filled : Filled = {k} /\ bytes[k].kind # "junk"

(* The verdicts on the cases the process has parsed. *)
Verdicts == IF command.lane = "single" THEN {<<bytes[k].kind>> : k \in Filled} ELSE {cases}

Report(verdicts) ==
    [run |-> run, total |-> Len(verdicts),
     failed |-> Cardinality({v \in DOMAIN verdicts : verdicts[v] = "fail"})]

Audit ==
    /\ pc = "audit"
    /\ IF command.lane = "single" /\ ~IsOneCase THEN Exit(1) /\ UNCHANGED report
       ELSE /\ \E verdicts \in Verdicts : report' = Report(verdicts)
            /\ pc' = "open" /\ UNCHANGED exit
    /\ UNCHANGED <<command, producer, sinks, run, bytes, at, cases>>

(* Mutant: the output is opened for writing before the input is read. *)
OpenEarly ==
    /\ pc \in {"start", "open"} /\ pc' = IF pc = "open" THEN "write" ELSE pc
    /\ sinks' = [sinks EXCEPT ![command.output] = Partial]
    /\ UNCHANGED <<command, producer, run, bytes, at, cases, report, exit>>

(* fs::write creates or truncates the file, or fails; stdout is open. *)
Open ==
    /\ pc = "open"
    /\ \/ /\ sinks' = [sinks EXCEPT ![command.output] = Partial]
          /\ pc' = "write" /\ UNCHANGED exit
       \/ command.output = "file" /\ Exit(1) /\ UNCHANGED sinks
    /\ UNCHANGED <<command, producer, run, bytes, at, cases, report>>

(* Mutant: an error of write_all is dropped. *)
WriteAny ==
    /\ pc = "write"
    /\ sinks' \in {sinks, [sinks EXCEPT ![command.output] = report]}
    /\ Exit(IF report.failed = 0 THEN 0 ELSE 2)
    /\ UNCHANGED <<command, producer, run, bytes, at, cases, report>>

(* write_all of the report, and the exit code of main *)
Write ==
    /\ pc = "write"
    /\ \/ /\ sinks' = [sinks EXCEPT ![command.output] = report]
          /\ Exit(IF report.failed = 0 THEN 0 ELSE 2)
       \/ Exit(1) /\ UNCHANGED sinks
    /\ UNCHANGED <<command, producer, run, bytes, at, cases, report>>

Kill == /\ pc # "ended" /\ Exit(Killed)
        /\ UNCHANGED <<command, producer, sinks, run, bytes, at, cases, report>>

Rerun ==
    /\ pc = "ended" /\ run < MaxRuns
    /\ run' = run + 1
    /\ pc' = "start" /\ bytes' = <<>> /\ at' = 1 /\ cases' = <<>>
    /\ report' = None /\ exit' = None
    /\ sinks' = [sinks EXCEPT !.stdout = None]
    /\ UNCHANGED <<command, producer>>

Step == \/ Stat \/ ReadPath \/ ReadStdin \/ ReadRow \/ EndRows
        \/ Audit \/ Open \/ Write

Next == BeginRow \/ EndRow \/ Close \/ RemoveInput \/ Step \/ Kill \/ Rerun

(* The process runs when it can: the operating system schedules it.  The   *)
(* producer, the kill and the next run owe nothing.                        *)
Spec == Init /\ [][Next]_vars /\ WF_vars(Step)

-----------------------------------------------------------------------------
(* Properties *)

Sink == sinks[command.output]

(* An exit of 0 or 2 tells the truth about all rows that were read, and    *)
(* the report that says so is in the output, of this run and whole; on any *)
(* other exit no whole report of this run is there by which it could be    *)
(* taken for one of the two, except when the process was killed after it   *)
(* had written it.                                                         *)
ExitTellsVerdict ==
    /\ exit \in {0, 2} =>
         /\ Sink = [run |-> run, total |-> Cardinality(Filled),
                    failed |-> Cardinality(Failing)]
         /\ exit = 0 <=> Failing = {}
    /\ exit = 1 => Sink \in {None, Partial} \/ Sink.run < run

(* No report is made of a row that was cut off, of an empty batch, or of   *)
(* input past the documented bounds on a row and on the number of cases.   *)
OnlyWholeCasesAudited ==
    report # None =>
      /\ \A k \in Filled : bytes[k].kind # "junk"
      /\ Filled # {}
      /\ command.lane = "batch" => /\ Cardinality(Filled) <= MaxBatchCases
                                   /\ \A k \in Filled : bytes[k].width <= MaxLineBytes

(* An earlier report is never damaged by a run that fails on its input:    *)
(* the output changes only when this run has a report to put there.        *)
OutputOnlyFromReport == [][sinks'.file # sinks.file => report # None]_vars

(* A run ends although the producer never does, once it has delivered one  *)
(* byte more than the limit; it waits for nothing but that or the end.     *)
EndsDespiteProducer ==
    (command.input = "path" \/ closed \/ Width(written) > Limit) ~> pc = "ended"

(* src/README.md:314: "All three single-case commands are bounded to 8     *)
(* MiB; interval batch input is bounded to 64 MiB, 1 MiB per row, and      *)
(* 100,000 cases."  Here: a verdict is never of more than the bound.       *)
InputBounded == exit \in {0, 2} => Width(bytes) <= Limit
=============================================================================
