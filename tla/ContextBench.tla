---------------------------- MODULE ContextBench ----------------------------
(***************************************************************************)
(* The ContextBench case study in one directory: contextbench_audit.py     *)
(* makes a batch of cases and a summary of a dataset, evalfence audits the *)
(* batch (BatchAudit) and verify_case_study.py reads summary and report.   *)
(* Each may be started, killed and started again while the others run; no  *)
(* file is written under a lock or replaced.                               *)
(*                                                                         *)
(* A row is what upstream's parsers make of it: the ranges of the deleted  *)
(* lines and those of the gold context, [key, start, end].  Means and gaps *)
(* of the recalls are left out of the observations.                        *)
(***************************************************************************)
EXTENDS BatchAudit

CONSTANTS
    Datasets,       \* the datasets, sequences of rows
    Registered,     \* the dataset behind the registered counts
    TOLERANCE,      \* as a fraction
    Partial         \* a file that is truncated

ASSUME ToleranceAssumption ==
    TOLERANCE \in Nat \X Nat /\ 0 < TOLERANCE[1] /\ TOLERANCE[1] < TOLERANCE[2]

VARIABLES
    dataset,        \* None for a behaviour that starts with a batch
    gen, evf, ver,  \* where generator, evalfence and verifier are
    casesFile,      \* [rows, torn]: whole rows in it, a cut one after them
    summaryFile, reportFile,
    got, verdict    \* the summary the verifier has read, its exit code

studyVars == <<dataset, gen, evf, ver, casesFile, summaryFile, reportFile, got, verdict>>

-----------------------------------------------------------------------------
(* The arithmetic of the adapter: ranges as they come, not sets. *)

(* The lines of a list of ranges, each with the place of the range it is in *)
Placed(ranges) == UNION {{i} \X (ranges[i].start .. ranges[i].end) : i \in DOMAIN ranges}

(* interval_size *)
RawSize(ranges) == Cardinality(Placed(ranges))

(* hit_size *)
Hits(row) ==
    Cardinality({p \in Placed(row.patch) :
      \E g \in Range(row.gold) : g.key = row.patch[p[1]].key /\ p[2] \in g.start .. g.end})

Current(row) == <<Hits(row), RawSize(row.patch)>>
Standard(row) == IF RawSize(row.gold) = 0 THEN <<1, 1>> ELSE <<Hits(row), RawSize(row.gold)>>

(* x > y + TOLERANCE *)
Above(x, y) == (x[1] * y[2] - y[1] * x[2]) * TOLERANCE[2] > TOLERANCE[1] * x[2] * y[2]

(* Mutant: only recalls that are too large are counted as mismatches. *)
Inflated(row) == Above(Current(row), Standard(row))
Mismatch(row) == Inflated(row) \/ Above(Standard(row), Current(row))

One(row) == /\ ~Above(Current(row), <<1, 1>>) /\ ~Above(<<1, 1>>, Current(row))
            /\ Above(<<1, 1>>, Standard(row))

(* The rows with deleted lines, in their order *)
Compared(d) == LET S == {i \in DOMAIN d : RawSize(d[i].patch) # 0}
               IN  [k \in 1 .. Cardinality(S) |-> d[Nth(S, k)]]

CountRows(d, P(_)) == Cardinality({i \in DOMAIN Compared(d) : P(Compared(d)[i])})

Observations(d) ==
    [rows |-> Len(d), skipped |-> Len(d) - Len(Compared(d)), cases |-> Len(Compared(d)),
     mismatches |-> CountRows(d, Mismatch), inflated |-> CountRows(d, Inflated),
     ones |-> CountRows(d, One)]

(* The gaps that the median is of count without the tolerance; mean, max   *)
(* and median raise on an empty list.                                      *)
Larger(row) == Current(row)[1] * Standard(row)[2] > Standard(row)[1] * Current(row)[2]
Summarizable(d) == CountRows(d, Larger) > 0

(* The evidence of a list of ranges once evalfence has normalized it *)
PlainKey(key) == IF key = "d\\a" THEN "d/a" ELSE key
LinesOf(ranges) == UNION {{PlainKey(r.key)} \X (r.start .. r.end) : r \in Range(ranges)}
EvidenceOf(words, present, ranges) ==
    [source |-> Label(words), present |-> present,
     set |-> [kind |-> "ok", lines |-> LinesOf(ranges)]]

Fallback == <<"gold", "patch", "fallback">>

CaseOf(row) ==
    [schemaOk |-> TRUE, caseIdOk |-> TRUE, tolerance |-> TOLERANCE,
     allowed |-> <<Label(<<"prediction", "model", "patch">>)>>,
     prediction |-> EvidenceOf(Fallback, FALSE, row.patch),
     gold |-> EvidenceOf(<<"gold", "init", "ctx">>, TRUE, row.gold),
     reported |-> [source |-> Label(Fallback), pred_size |-> RawSize(row.patch),
                   gold_size |-> RawSize(row.gold), intersection |-> Hits(row),
                   precision |-> Current(row), recall |-> Current(row), f1 |-> None]]

CasesOf(d) == [i \in DOMAIN Compared(d) |-> CaseOf(Compared(d)[i])]

(* What upstream's parsers return, of sizes that evalfence can read; null  *)
(* is nothing that a case holds.                                           *)
RangesWellFormed(ranges) ==
    /\ ranges \in Seq(Range(ranges))
    /\ \A r \in Range(ranges) : r.start \in Nat /\ r.end \in Nat /\ r.start <= r.end
    /\ RawSize(ranges) <= MaxU64

RowWellFormed(row) ==
    /\ RangesWellFormed(row.patch) /\ RangesWellFormed(row.gold)
    /\ LET c == CaseOf(row)
       IN  c.prediction # None /\ c.reported # None /\ c.reported.source # None

ASSUME DatasetsAssumption ==
    \A d \in Datasets : /\ d \in Seq(Range(d))
                        /\ \A row \in Range(d) : RowWellFormed(row)

-----------------------------------------------------------------------------
StudyInit ==
    /\ \/ Init /\ dataset = None
       \/ /\ dataset \in Datasets
          /\ cases = <<>> /\ max \in MaxExamples /\ reports = <<>> /\ batch = None
    /\ gen = "idle" /\ evf = "idle" /\ ver = "idle"
    /\ casesFile = None /\ summaryFile = None /\ reportFile = None
    /\ got = None /\ verdict = None

(* The row loop is done; cases_out.open("w") truncates. *)
OpenCases ==
    /\ dataset # None /\ gen = "idle"
    /\ casesFile' = [rows |-> 0, torn |-> FALSE]
    /\ gen' = "cases"
    /\ UNCHANGED <<vars, dataset, evf, ver, summaryFile, reportFile, got, verdict>>

(* The buffer reaches the disk wherever it is full. *)
FlushCases ==
    /\ gen = "cases" /\ casesFile.rows < Len(CasesOf(dataset))
    /\ casesFile' = IF casesFile.torn THEN [rows |-> casesFile.rows + 1, torn |-> FALSE]
                    ELSE [casesFile EXCEPT !.torn = TRUE]
    /\ UNCHANGED <<vars, dataset, gen, evf, ver, summaryFile, reportFile, got, verdict>>

(* The summary is computed once the cases are written; write_text opens it. *)
OpenSummary ==
    /\ gen = "cases" /\ casesFile.rows = Len(CasesOf(dataset))
    /\ IF Summarizable(dataset) THEN gen' = "summary" /\ summaryFile' = Partial
                                ELSE gen' = "idle" /\ UNCHANGED summaryFile
    /\ UNCHANGED <<vars, dataset, evf, ver, casesFile, reportFile, got, verdict>>

WriteSummary ==
    /\ gen = "summary"
    /\ summaryFile' = Observations(dataset)
    /\ gen' = "idle"
    /\ UNCHANGED <<vars, dataset, evf, ver, casesFile, reportFile, got, verdict>>

(* What audit-batch does not refuse: a row that is cut is no JSON. *)
Readable(file) == file # None /\ file.rows > 0 /\ ~file.torn

(* audit-batch reads the batch; it gives up on one it cannot parse. *)
ReadCases ==
    /\ evf = "idle" /\ dataset # None
    /\ Readable(casesFile)
    /\ cases' = SubSeq(CasesOf(dataset), 1, casesFile.rows)
    /\ reports' = <<>> /\ batch' = None
    /\ evf' = "audit"
    /\ UNCHANGED <<max, dataset, gen, ver, casesFile, summaryFile, reportFile, got, verdict>>

Audit == /\ dataset = None \/ evf = "audit"
         /\ Next
         /\ UNCHANGED studyVars

OpenReport ==
    /\ evf = "audit" /\ batch # None
    /\ reportFile' = Partial
    /\ evf' = "write"
    /\ UNCHANGED <<vars, dataset, gen, ver, casesFile, summaryFile, got, verdict>>

WriteReport ==
    /\ evf = "write"
    /\ reportFile' = batch
    /\ evf' = "idle"
    /\ UNCHANGED <<vars, dataset, gen, ver, casesFile, summaryFile, got, verdict>>

Kill ==
    /\ dataset # None
    /\ \/ gen' = "idle" /\ UNCHANGED <<evf, ver>>
       \/ evf' = "idle" /\ UNCHANGED <<gen, ver>>
       \/ ver' = "idle" /\ UNCHANGED <<gen, evf>>
    /\ UNCHANGED <<vars, dataset, casesFile, summaryFile, reportFile, got, verdict>>

-----------------------------------------------------------------------------
(* verify_case_study.py *)

Codes == {"EF001", "EF002", "EF005", "EF105"}

ExpectedCounts ==
    [code \in Codes |-> IF code = "EF105" THEN Observations(Registered).mismatches
                        ELSE Observations(Registered).cases]

VerifySummary(s) == s = Observations(Registered)

(* Mutant: only the count of the mismatches is compared. *)
VerifyMismatches(r) == "EF105" \in DOMAIN r.counts /\ r.counts["EF105"] = ExpectedCounts["EF105"]

VerifyReport(r) ==
    /\ r.total = Observations(Registered).cases
    /\ r.passed = 0 /\ r.failed = r.total
    /\ r.counts = ExpectedCounts

ReadSummary ==
    /\ ver = "idle" /\ summaryFile \notin {None, Partial}
    /\ got' = summaryFile
    /\ verdict' = None
    /\ ver' = "report"
    /\ UNCHANGED <<vars, dataset, gen, evf, casesFile, summaryFile, reportFile>>

(* The report is read after the summary, and both are judged. *)
Verify ==
    /\ ver = "report"
    /\ verdict' = IF reportFile \in {None, Partial} THEN [code |-> 1, report |-> None]
                  ELSE [code |-> IF VerifySummary(got) /\ VerifyReport(reportFile) THEN 0 ELSE 1,
                        report |-> reportFile]
    /\ ver' = "idle"
    /\ UNCHANGED <<vars, dataset, gen, evf, casesFile, summaryFile, reportFile, got>>

StudyNext == \/ OpenCases \/ FlushCases \/ OpenSummary \/ WriteSummary
             \/ ReadCases \/ Audit \/ OpenReport \/ WriteReport
             \/ ReadSummary \/ Verify \/ Kill

StudySpec == StudyInit /\ [][StudyNext]_<<vars, studyVars>>

-----------------------------------------------------------------------------
(* Properties *)

(* Two implementations of one arithmetic: evalfence reports of a batch     *)
(* nothing but the four registered codes exactly when the ranges of every  *)
(* row are disjoint and spelled alike, and then it counts as recall        *)
(* mismatches the rows the adapter counted, and every row under the other  *)
(* three.                                                                  *)
SetLike(row) ==
    /\ RawSize(row.patch) = Cardinality(LinesOf(row.patch))
    /\ RawSize(row.gold) = Cardinality(LinesOf(row.gold))
    /\ Hits(row) = Cardinality(LinesOf(row.patch) \cap LinesOf(row.gold))

CountsAgree ==
    dataset # None /\ batch # None =>
      LET audited == SubSeq(Compared(dataset), 1, batch.total)
      IN  /\ DOMAIN batch.counts \subseteq Codes <=> \A row \in Range(audited) : SetLike(row)
          /\ DOMAIN batch.counts \subseteq Codes =>
               \A code \in Codes :
                 (IF code \in DOMAIN batch.counts THEN batch.counts[code] ELSE 0)
                   = IF code = "EF105" THEN Observations(audited).mismatches ELSE batch.total

(* The verifier sees neither the cases nor the state of the other two; yet *)
(* what it passes is a report of every case of the dataset the summary is  *)
(* of, not of a batch still being written or cut off by a crash, although  *)
(* it may have been replaced since.                                        *)
VerifiedIsWhole ==
    verdict # None /\ verdict.code = 0 =>
      /\ verdict.report.total = Len(Compared(dataset))
      /\ verdict.report.counts["EF105"] = Observations(dataset).mismatches
=============================================================================
