-------------------------- MODULE BoundaryWorkflow --------------------------
(***************************************************************************)
(* src/.github/workflows/statebench-boundary.yml: one job on a runner of   *)
(* its own that starts the programs of BoundaryStudy one after the other,  *)
(* the privacy gate whatever happened before, and uploads the three files  *)
(* if the gate passed.  The job may be cancelled (a newer push, or the     *)
(* time limit) and the runner may be lost.                                 *)
(***************************************************************************)
EXTENDS BoundaryStudy

CONSTANT Job        \* the one process

ASSUME JobAssumption == Job \in Procs

Steps == <<"generate", "evalfence", "verify", "gate", "upload">>

VARIABLES
    at,             \* index of the current step
    running,        \* it has been started
    outcome,        \* the outcomes of the steps so far
    cancelled, lost,
    uploaded        \* the artifact: the three files, or None

jobVars == <<at, running, outcome, cancelled, lost, uploaded>>
allVars == <<vars, jobVars>>

JobInit ==
    /\ Init
    /\ at = 1 /\ running = FALSE /\ outcome = <<>>
    /\ cancelled = FALSE /\ lost = FALSE
    /\ uploaded = None

-----------------------------------------------------------------------------
NoFailure == ~cancelled /\ \A i \in DOMAIN outcome : outcome[i] = "success"

(* Mutant: the gate without its always(). *)
SuccessCondition(step) == IF step = "upload" THEN outcome[4] = "success" ELSE NoFailure

(* The if: of a step; without one, success(). *)
Condition(step) ==
    CASE step = "gate" -> TRUE
      [] step = "upload" -> outcome[4] = "success"
      [] OTHER -> NoFailure

Conclude(o) == /\ outcome' = Append(outcome, o) /\ at' = at + 1
               /\ running' = FALSE

Skip == /\ ~lost /\ at <= Len(Steps) /\ ~running /\ ~Condition(Steps[at])
        /\ Conclude("skipped")
        /\ UNCHANGED <<vars, cancelled, lost, uploaded>>

Begin == /\ ~lost /\ at <= 4 /\ ~running /\ Condition(Steps[at])
         /\ Start(Job, Steps[at])
         /\ running' = TRUE
         /\ UNCHANGED <<at, outcome, cancelled, lost, uploaded>>

(* test "$status" -eq 2 for evalfence, the exit status for the others *)
Wanted(step) == IF step = "evalfence" THEN 2 ELSE 0

Finish == /\ ~lost /\ running /\ pc[Job] = "ended"
          /\ Conclude(IF exit[Job] = Wanted(Steps[at]) THEN "success" ELSE "failure")
          /\ UNCHANGED <<vars, cancelled, lost, uploaded>>

Upload == /\ ~lost /\ at = 5 /\ Condition("upload")
          /\ \/ uploaded' = disk /\ Conclude("success")
             \/ Conclude("failure") /\ UNCHANGED uploaded
          /\ UNCHANGED <<vars, cancelled, lost>>

Work == /\ ~lost /\ running /\ Step(Job) /\ UNCHANGED jobVars

Crash == /\ ~lost /\ running /\ Kill(Job) /\ UNCHANGED jobVars

(* Cancelling kills what runs, but a step under always() goes on, and      *)
(* those that follow still start.                                          *)
Cancel == /\ ~lost /\ at <= Len(Steps) /\ ~cancelled
          /\ cancelled' = TRUE
          /\ IF running /\ pc[Job] # "ended" /\ Steps[at] # "gate"
             THEN Kill(Job) ELSE UNCHANGED vars
          /\ UNCHANGED <<at, running, outcome, lost, uploaded>>

LoseRunner == /\ ~lost /\ at <= Len(Steps) /\ lost' = TRUE
              /\ UNCHANGED <<vars, at, running, outcome, cancelled, uploaded>>

JobNext == Skip \/ Begin \/ Finish \/ Upload \/ Work \/ Crash \/ Cancel \/ LoseRunner

(* The runner starts, runs and concludes the steps; programs run. *)
JobSpec == JobInit /\ [][JobNext]_allVars
                   /\ WF_allVars(Skip \/ Begin \/ Finish \/ Upload \/ Work)

-----------------------------------------------------------------------------
(* Properties *)

Green == /\ at > Len(Steps) /\ ~cancelled
         /\ \A i \in DOMAIN outcome : outcome[i] = "success"

(* A job that succeeds has uploaded the registered study, not merely seen  *)
(* it on the way.                                                          *)
GreenMeansRegistered ==
    Green => uploaded = [case |-> Registered, summary |-> Expected,
                         report |-> ReportOf(Registered)]

(* Whatever failed or was cancelled before, an artifact holds all three    *)
(* files, with nothing private in them, and they belong together: case and *)
(* summary of one generation, the report of that case or cut off.          *)
UploadVetted ==
    uploaded # None =>
      /\ \A n \in Names : uploaded[n] # None
      /\ ~uploaded["case"].private
      /\ uploaded["summary"].digest = uploaded["case"]
      /\ uploaded["report"] \in {Partial, ReportOf(uploaded["case"])}

(* The gate has looked at the files of every job that was not lost, also   *)
(* of the failed and the cancelled ones.                                   *)
EveryJobGated == <>(lost \/ (at > 4 /\ outcome[4] \in {"success", "failure"}))
=============================================================================
