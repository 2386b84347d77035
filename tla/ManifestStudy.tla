--------------------------- MODULE ManifestStudy ---------------------------
(***************************************************************************)
(* src/scripts/swebench_manifest_audit.py: adapters that publish the       *)
(* SWE-bench case study as one directory.  Several run at once with the    *)
(* same --output-dir; nothing but the file system stands between them.     *)
(*                                                                         *)
(* A directory is the sequence of the contents of its files, written in    *)
(* the order forward case, reverse case, forward report, reverse report,   *)
(* summary.  A case is its two records, each standing for its payload.     *)
(***************************************************************************)
EXTENDS Naturals, Sequences, SequencesExt

CONSTANTS
    Adapters,
    Binaries,       \* the --evalfence-bin files: what audit-manifest does
    None

ASSUME BinariesAssumption ==
    Binaries \subseteq [exit : {0, 1, 2}, quiet : BOOLEAN, codes : BOOLEAN,
                        leaks : BOOLEAN, keeps : {"first", "last"}]

ForwardCase == <<"first", "second">>
ReverseCase == <<"second", "first">>

Survivor(records) == Last(records)

Summary == [forward |-> Survivor(ForwardCase), reverse |-> Survivor(ReverseCase)]

(* The finished study: each report names the record that last-write-wins   *)
(* keeps of its case.                                                      *)
Study == <<ForwardCase, ReverseCase, [kept |-> "second"], [kept |-> "first"], Summary>>

(* How an adapter ends *)
Ends == {"published", "exists", "source", "binary", "survivor", "rename", "io", "killed", "cleanup"}

ASSUME NoneAssumption ==
    None \notin Ends /\ None \notin [by : Adapters, files : {Study}]

VARIABLES
    binary, source, \* per adapter: its binary, whether the checkout is exact
    pc,
    temporary,      \* per adapter: its temporary directory exists
    staging,        \* per adapter: the directory in it, or None
    message,        \* per adapter: how it ended, or is about to
    output          \* the output directory: [by, files], or None

arguments == <<binary, source>>
vars == <<arguments, pc, temporary, staging, message, output>>

Report(b, records) == [kept |-> IF b.keeps = "last" THEN Last(records) ELSE Head(records)]

EmptyByOther == [by |-> None, files |-> <<>>]

TypeOK ==
    /\ pc \in [Adapters -> {"check", "verify", "stage", "cases", "reports", "summary",
                            "rename", "cleanup", "ended"}]
    /\ temporary \in [Adapters -> BOOLEAN]
    /\ message \in [Adapters -> Ends \cup {None}]
    /\ \A p \in Adapters :
         /\ staging[p] # None => temporary[p] /\ Len(staging[p]) \in 0 .. 5
         /\ pc[p] = "ended" => message[p] # None
         /\ pc[p] = "rename" => Len(staging[p]) = 5

Init ==
    /\ binary \in [Adapters -> Binaries]
    /\ source \in [Adapters -> BOOLEAN]
    /\ pc = [p \in Adapters |-> "check"]
    /\ temporary = [p \in Adapters |-> FALSE]
    /\ staging = [p \in Adapters |-> None]
    /\ message = [p \in Adapters |-> None]
    /\ output \in {None, EmptyByOther}

-----------------------------------------------------------------------------
Goto(p, label) == pc' = [pc EXCEPT ![p] = label] /\ UNCHANGED message

(* Out of the process at once; as a mutant of Fail, os._exit. *)
Abort(p, m) ==
    /\ message' = [message EXCEPT ![p] = m]
    /\ pc' = [pc EXCEPT ![p] = "ended"]

(* SystemExit or OSError: out of main, by way of TemporaryDirectory if it  *)
(* was entered.                                                            *)
Fail(p, m) ==
    /\ message' = [message EXCEPT ![p] = m]
    /\ pc' = [pc EXCEPT ![p] = IF temporary[p] THEN "cleanup" ELSE "ended"]

WriteFile(p, content) == staging' = [staging EXCEPT ![p] = Append(@, content)]

CheckAbsent(p) ==
    /\ pc[p] = "check"
    /\ IF output = None THEN Goto(p, "verify") ELSE Fail(p, "exists")
    /\ UNCHANGED <<arguments, temporary, staging, output>>

(* verify_source and the four syntax checks, which see only what it       *)
(* returns: the registered blobs, of which their outcome is always one.    *)
VerifySource(p) ==
    /\ pc[p] = "verify"
    /\ IF source[p] THEN Goto(p, "stage") ELSE Fail(p, "source")
    /\ UNCHANGED <<arguments, temporary, staging, output>>

(* mkdtemp beside the output directory, and staging.mkdir in it *)
Stage(p) ==
    /\ pc[p] = "stage"
    /\ \/ /\ temporary' = [temporary EXCEPT ![p] = TRUE]
          /\ staging' = [staging EXCEPT ![p] = <<>>]
          /\ Goto(p, "cases")
       \/ /\ temporary' = [temporary EXCEPT ![p] = TRUE]
          /\ message' = [message EXCEPT ![p] = "io"]
          /\ pc' = [pc EXCEPT ![p] = "cleanup"]
          /\ UNCHANGED staging
       \/ Fail(p, "io") /\ UNCHANGED <<temporary, staging>>
    /\ UNCHANGED <<arguments, output>>

(* write_canonical of one of the two cases *)
WriteCase(p) ==
    /\ pc[p] = "cases"
    /\ \/ /\ WriteFile(p, IF staging[p] = <<>> THEN ForwardCase ELSE ReverseCase)
          /\ Goto(p, IF staging[p] = <<>> THEN "cases" ELSE "reports")
       \/ Fail(p, "io") /\ UNCHANGED staging
    /\ UNCHANGED <<arguments, temporary, output>>

(* The exit status, the empty pipes, the codes and the privacy of a report *)
Registered(b) == b.exit = 2 /\ b.quiet /\ b.codes /\ ~b.leaks

(* run_evalfence on the first case that has no report yet.  It also fails  *)
(* if the binary cannot be started or the report cannot be read.           *)
RunEvalfence(p) ==
    /\ pc[p] = "reports" /\ Len(staging[p]) < 4
    /\ \/ /\ WriteFile(p, Report(binary[p], staging[p][Len(staging[p]) - 1]))
          /\ IF Registered(binary[p]) THEN Goto(p, "reports") ELSE Fail(p, "binary")
       \/ Fail(p, "io") /\ UNCHANGED staging
    /\ UNCHANGED <<arguments, temporary, output>>

(* Mutant: only the two survivors are compared with each other. *)
SurvivorsDiffer(files) == Survivor(ForwardCase) # Survivor(ReverseCase)

SurvivorsMatch(files) ==
    /\ Survivor(ForwardCase) # Survivor(ReverseCase)
    /\ files[3].kept = Survivor(ForwardCase)
    /\ files[4].kept = Survivor(ReverseCase)

CheckSurvivors(p) ==
    /\ pc[p] = "reports" /\ Len(staging[p]) = 4
    /\ IF SurvivorsMatch(staging[p]) THEN Goto(p, "summary") ELSE Fail(p, "survivor")
    /\ UNCHANGED <<arguments, temporary, staging, output>>

WriteSummary(p) ==
    /\ pc[p] = "summary"
    /\ \/ WriteFile(p, Summary) /\ Goto(p, "rename")
       \/ Fail(p, "io") /\ UNCHANGED staging
    /\ UNCHANGED <<arguments, temporary, output>>

(* Mutants: the target is removed first; the target must still be absent. *)
ReplaceAny == TRUE
ReplaceNone == output = None

(* rename(2) gives way to nothing but an empty directory. *)
Replaceable == output \in {None, EmptyByOther}

Rename(p) ==
    /\ pc[p] = "rename"
    /\ \/ /\ Replaceable
          /\ output' = [by |-> p, files |-> staging[p]]
          /\ staging' = [staging EXCEPT ![p] = None]
          /\ message' = [message EXCEPT ![p] = "published"]
          /\ pc' = [pc EXCEPT ![p] = "cleanup"]
       \/ ~Replaceable /\ Fail(p, "rename") /\ UNCHANGED <<staging, output>>
       \/ Fail(p, "io") /\ UNCHANGED <<staging, output>>
    /\ UNCHANGED <<arguments, temporary>>

(* TemporaryDirectory.__exit__; only an error in it leaves the directory,  *)
(* and replaces the outcome.                                               *)
Cleanup(p) ==
    /\ pc[p] = "cleanup"
    /\ \/ /\ temporary' = [temporary EXCEPT ![p] = FALSE]
          /\ staging' = [staging EXCEPT ![p] = None]
          /\ Goto(p, "ended")
       \/ Abort(p, "cleanup") /\ UNCHANGED <<temporary, staging>>
    /\ UNCHANGED <<arguments, output>>

Kill(p) == /\ pc[p] # "ended" /\ Abort(p, "killed")
           /\ UNCHANGED <<arguments, temporary, staging, output>>

(* Somebody makes the directory for the adapters, after they looked. *)
MakeOutput == /\ output = None /\ output' = EmptyByOther
              /\ UNCHANGED <<arguments, pc, temporary, staging, message>>

Step(p) == \/ CheckAbsent(p) \/ VerifySource(p) \/ Stage(p) \/ WriteCase(p)
           \/ RunEvalfence(p) \/ CheckSurvivors(p) \/ WriteSummary(p)
           \/ Rename(p) \/ Cleanup(p)

Next == MakeOutput \/ \E p \in Adapters : Step(p) \/ Kill(p)

Spec == Init /\ [][Next]_vars

-----------------------------------------------------------------------------
(* Properties *)

(* Whatever is killed or fails, and at any step, the output directory is   *)
(* absent, empty, or holds all five files of a study whose reports name    *)
(* the right survivors, from a binary that gave the registered findings    *)
(* and of an exact checkout.                                               *)
AllOrNothing ==
    output \notin {None, EmptyByOther} =>
       output.files = Study /\ Registered(binary[output.by]) /\ source[output.by]

(* Of adapters that all saw no output directory, one publishes; its files  *)
(* stay, although the check and the rename are not one step.               *)
WinnerOwnsOutput ==
    \A p \in Adapters : message[p] = "published" => output.by = p

(* An adapter only loses the rename to a published directory, so two that  *)
(* race never stop each other, and an empty directory stops neither.       *)
LosesToAPublication ==
    \A p \in Adapters : message[p] = "rename" => output.by \in Adapters

(* An adapter that loses the race, is refused or meets an I/O error        *)
(* anywhere takes its temporary directory away; only a kill leaves it, or  *)
(* an error in the removal itself.                                         *)
NothingLeftBehind ==
    \A p \in Adapters :
       pc[p] = "ended" /\ message[p] \notin {"killed", "cleanup"} => ~temporary[p]
=============================================================================
