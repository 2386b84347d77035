# Formal model of EvalFence

EvalFence is an offline auditor. A Rust program, `evalfence`, reads one JSON
case (or a file of them), recomputes what the case declares, and prints a report
whose exit code is the verdict. Around it, Python scripts build three case
studies from pinned upstream repositories and verify them, and GitHub workflows
run the scripts. This directory holds TLA+ models of that system, the TLC runs
that check them on small instances, and TLAPS proofs of the theorems that matter
most. Paths below are relative to the repository root.

Contents: 1 the system, 2 what is hard about it, 3 the modules, 4 the runs,
5 fairness and deadlock, 6 the proofs, 7 disagreements between code and
documents, 8 what is not modelled, 9 the plan.

## 1. The system

| component | state it keeps | operations | correct when |
|---|---|---|---|
| interval normalization, `src/interval.rs` | `by_file` map, violations, the list being merged | `normalize_set`, `normalize_file_key`, `merge_intervals` | no line of evidence is lost or invented; lists are canonical; one bad item refuses the set |
| interval cardinalities, `src/interval.rs` | two cursors and a u128 total | `set_size`, `intersection_size` | exact, or an error exactly when the value is not a u64; the walk ends |
| case audit, `src/audit.rs` | findings, calculated metrics | `audit_case` and its checks | a case passes exactly when it keeps its contract, whatever returns early |
| batch audit, `src/audit.rs` | reports, counts per code, bounded examples | `audit_batch` | counts cover every case, also those that are not shown |
| keyed-manifest audit, `src/manifest_audit.rs` | groups by id, findings, collapse witnesses | `audit_manifest` | a witness exactly where the order of the records decides what survives |
| agent-boundary audit, `src/boundary_audit.rs` | names seen, saturating counters, findings | `audit_agent_boundary` | passes exactly when the declared boundary holds; an overflow is never mistaken for a count |
| command line, `src/main.rs` | bytes read, cases parsed, output file, exit code | `read_input`, the line loop of `audit-batch`, `write_json`, `main` | exit code, output and verdict agree, whatever the input file does meanwhile |
| SWE-bench adapter, `scripts/swebench_manifest_audit.py` | a temporary directory, the published directory | `main`, `run_evalfence`, `survivor_digest` | the published directory is all or nothing |
| STATE-Bench scripts, `scripts/statebench_boundary_audit.py`, `verify_statebench_case_study.py`, `privacy_gate.py` | three files in `build/` | generate, audit, verify, gate | only the registered study verifies; files are never torn |
| source registration, `verify_source` of the three case-study scripts | which registered files are verified, which blobs were extracted | HEAD, `git status`, then id, blob and worktree file one by one; import | what is parsed is registered, whoever moves HEAD meanwhile; a run can be repeated in its checkout |
| STATE-Bench probe and causal control, `scripts/statebench_boundary_audit.py` | events, captured context, client counters, the arm's cart | the callbacks upstream makes, `run_task` per domain, two arms, the case and its summary | what the case declares is what upstream did; no client call goes unseen |
| ContextBench study, `scripts/contextbench_audit.py`, `verify_case_study.py` | cases, summary and report, written in place | rows to cases, `audit-batch`, verify | adapter and auditor count the same; only a whole report verifies |
| verifier of the SWE-bench study, `scripts/verify_manifest_case_study.py` | the report it reads | `verify_report` | accepts the two reports of the study, each for its own order, and no others |
| STATE-Bench workflow, `.github/workflows/statebench-boundary.yml` | step outcomes, the artifact | the steps and their `if:` | what is uploaded was gated; a green job uploaded the registered study |

How they interact. `main` calls one audit per command; `audit_case` calls
`normalize_set` for each evidence set and the cardinalities on the results;
`audit_batch` calls `audit_case` per row. The audits share nothing and run on one
thread: their concurrency begins at the process boundary. A producer may still be
writing the input `evalfence` reads; a killed run leaves a file the next run
finds; two adapters race for one output directory; generator, auditor, verifier
and gate exchange three files without a lock; and a workflow starts those
programs in sequence, on a runner that can be cancelled or lost. The STATE-Bench
generator hands its own agent, environment and clients to upstream's orchestrator,
which is not in the repository and calls back as it likes. All three studies
verify a git checkout command by command while somebody may work in it. The
verifiers judge finished files only, against counts registered in their source, so
two implementations (adapter and auditor) have to agree on every count.

## 2. What is hard about it

`PROJECT.json` lists every hazard with its line and the property that would catch
it. They come in five groups.

- **Loops over data with an edge.** Merging next to `u64::MAX` (`last.1 + 1`
  saturates), the two-pointer walk, u128 sums that leave u64, counters that
  saturate separately and are compared afterwards.
- **Checks that switch checks off.** Every audit goes on after most findings and
  returns early after some; a duplicate name, an invalid policy or an
  inconsistent group disables later checks; findings are sorted and
  deduplicated while counts are not. The recurring question is whether a case can
  pass, or a count can lose its finding, because another declaration was bad.
- **Files that change between two steps.** `fs::metadata` before `fs::read`,
  the check of `--output-dir` long before the rename, three files read one after
  the other by the verifier, a blob looked up through HEAD long after HEAD was
  compared.
- **Crashes and partial failure.** `fs::write` truncates first; a kill between
  two of five files; the ContextBench files written in place, so that a crash
  leaves a batch that is shorter and still valid; `always()` steps that run after a
  failed step.
- **Callbacks in an order nobody promised.** The probe tells a baseline snapshot
  from a final one, and a first turn from a later one, by what was recorded before;
  upstream may swallow the error of a client call, and may change lists it still
  holds after they were hashed.

## 3. The modules

Every definition that models code is in the `map` of `PROJECT.json` with its
lines. A definition introduced by the comment `Mutant:` is a plausible bug; it is
no part of the specification and serves to show that a property can fail. The
convention for sequential Rust code is one action per loop iteration, so that a
loop invariant is a state invariant; a function without a loop worth watching
is an operator.

- **Intervals** has the data: a file key and what `normalize_file_key` does to
  it, well-formed intervals, the lines they cover (`Points`, `Covered`),
  saturation at `MaxU64`, which stands for `u64::MAX`. A spelling of a key is one
  of the classes the function tells apart: plain, padded with blanks, with
  backslashes; and, refused, blank, absolute, with a drive, with dot components.
- **NormalizeSet** is `normalize_set` and `merge_intervals`: `ScanGood` and
  `ScanBad` are the two ends of a turn of the validation loop, `StartFile` the
  sort, `MergeExtend` and `MergePush` the two branches of the merge loop,
  `FinishFile` and `Return` the rest.
- **EvidenceSpec** is the abstract specification: one atomic step that refuses
  the set with a violation per bad item, or returns the lines named per file.
  NormalizeSet implements it (`ImplementsEvidence`) under the mapping that hides
  everything but the items and the returned value.
- **IntervalMetrics** is the three counting loops with their cursors.
- **CaseAudit** is `audit_case`, an operator from a case to its report. A check
  an early return skips contributes nothing. Evidence is what EvidenceSpec
  says normalization returns, so the two levels meet there. An f64 is an exact
  fraction with a non-finite value beside it: the conversion of the sizes, the quotients
  and the three steps of F1 are not rounded, so what is said of verdicts and metrics
  is said of rational numbers. Section 8 says where the code can differ.
- **BatchAudit** runs CaseAudit over the rows and aggregates as `audit_batch`. What a
  loop selects from a list is a set of positions and what it counts a cardinality; the
  order of the selected ones is that of their positions (`Nth`).
- **ManifestAudit** is `audit_manifest`: `CheckPolicy`, `ReadRecord` per record,
  `CheckIds`, `CheckGroup` per id in order, `Finish`.
- **BoundaryAudit** is `audit_agent_boundary`: `CheckPolicy`, `ReadInput` per
  input, `EndInputs`, `ReadCapability` per group, `Finish`. A message is
  kept as far as messages differ, because `dedup` compares code and message.
- **ManifestVerify** extends ManifestAudit with the study it is used for: the two
  cases `build_case` makes, the survivor a dictionary keeps, what the adapter asks of
  a report before it publishes (`AdapterAccepts`) and what the verifier asks of it
  afterwards (`VerifyReport`).
- **BoundaryProbe** extends BoundaryAudit with where its case comes from. Per domain:
  `LoadTask`, then any sequence of `Construct`, `Snapshot`, `Turn` and `ClientCall`,
  which are the callbacks of the agent, environment and client classes, with
  upstream changing a requirement list (`Touch`) or raising (`Raise`) at any moment; then
  `FinishTask` with its conditions, among them one item count for each of the two lists.
  `EndProbe` looks at the counters, `ControlTurn` and `FinishArm` are the two arms of the
  causal control, whose results are compared when both have returned (`Controlled`);
  `BuildCase` makes case and summary, with both results in it, and the actions of
  BoundaryAudit judge the case. An `honest` upstream
  keeps to the registered events. `log` is what upstream really did; only
  properties read it.
- **ContextBench** extends BatchAudit with the study around it: a row is the ranges
  of its deleted lines and its gold context, `CaseOf` and `Observations` are the
  arithmetic of the adapter on them. `TOLERANCE` is 1.0e-9 in the code, a constant here,
  and 1/1000 in the run, whose recalls are further apart than that or equal. Generator, `audit-batch` and verifier are three
  processes over three files; `OpenCases`, `FlushCases`, `OpenSummary`,
  `OpenReport` are the moments in which a file is truncated or half written, and
  `Kill` may follow any step.
- **Checkout** is `verify_source` and what a study does afterwards: `CheckHead`,
  `CheckStatus`, and per registered file `LookUp` (`rev-parse HEAD:file`, STATE-Bench
  only), `Extract` (`cat-file`) and `Compare` (the worktree file, which may have CRLF line
  ends unless it is a binary file of ContextBench: `Accepted`), then `Import` and
  `WriteOutput`. `Disturb` is anybody else: HEAD moves, a file changes, files appear.
  `Again` starts the next study in the same checkout.
- **Cli** is the process of `main.rs` and its surroundings. A row is a kind and a
  width. The producer begins and ends rows (a row that is begun is a torn one),
  stops, or removes the file. The process has an action per system call that
  somebody can get in front of: `Stat`, `ReadPath`, `ReadStdin`, `Open`, `Write`,
  and one per turn of the line loop. `Kill` and `Rerun` may follow any step. The
  three single-case commands differ in the audit only and are one lane.
- **ManifestStudy** is `main` of the SWE-bench adapter for any number of adapters
  with one `--output-dir`: check, source verification, staging, two cases, two
  reports, survivors, summary, rename, clean-up, with an I/O error or a kill
  anywhere; only an error in the removal itself ends with the directory still there
  (`"cleanup"`). The source verification is one outcome, its git commands are those of
  Checkout. The binary each adapter was given is any that returns an
  exit status, output and report; the rename is rename(2), which replaces an
  empty directory and nothing else.
- **BoundaryStudy** is the four STATE-Bench programs as processes over three
  files: any program may start at any time, beside any other, and be killed.
  What the generator may build is a set, `Builds`; how a build comes about is
  BoundaryProbe.
- **BoundaryWorkflow** extends it with one job: steps in order with their
  conditions, cancelling (which kills the running step unless it is under
  `always()`), a crash of a program, and the loss of the runner.
- **MC...** modules give TLC its inputs; they define nothing else.
- Eight modules hold the proofs. **NormalizeSetProofs**, **IntervalMetricsProofs**,
  **CliProofs**, **ManifestVerifyProofs** and **ManifestStudyProofs** are about the module
  they are named after; ManifestVerifyProofs includes ManifestAudit,
  **BoundaryProbeProofs** includes BoundaryAudit, **BoundaryWorkflowProofs** includes
  BoundaryStudy, and **ContextBenchProofs** includes CaseAudit, BatchAudit and, in a
  section of its own, Checkout.

A run of an extending module starts either from a case of the module it extends or
from the beginning of the study, so that one run checks the audit on every small
input and on what the study feeds it.

## 4. The runs

| run | what it asks | instance |
|---|---|---|
| `normalize` | Do grouping, sort and merge keep the evidence, is every list canonical, and is `normalize_set` the atomic step of EvidenceSpec, which it reaches? | every list of up to three intervals of one file over the lines 1..5; lists of up to three items over two files, every spelling, zero, reversed and good bounds |
| `cardinality` | Is the accumulator exact after every turn, the result exact or an overflow, and does the walk end? | two files, all canonical lists over 5 lines in the first, three in the second, as a pair of sets |
| `audit` | Does a case pass exactly when it keeps the contract, are metrics the defined ones, does a batch account for every failing case? Do ContextBench adapter and audit agree on every count, and is what verifies whole? | single cases over labels, presence, refusals, evidence, tolerance and reported metrics; batches of up to four. The study: datasets of up to two rows of eight kinds, and the registered one of four rows; every crash point |
| `manifest` | Are witnesses exactly order dependence, do counts match findings, does the verdict? Does the verifier accept the reports of the study and no others? | every sequence of up to four records over two ids and three digests; every small policy; the two cases of the study |
| `boundary` | Does the verdict match the boundary, do the counters saturate at the true sums, has every count its finding? Is what a built case declares what upstream did, is no call unseen, and does exactly the registered study verify? | up to two inputs over two good and two bad names; up to three groups with counts to `MaxU64` + 1; all declared counts. The probe: two domains with different counts for their two lists, up to five calls in each `run_task`, up to two turns in an arm |
| `boundary_unapproved` | Has every present, unlisted input an EF302 finding? (violated, see 7) | the inputs of `boundary` |
| `cli` | Do exit code and output agree, are only whole cases judged, is an earlier report safe, does a run end? | inputs of up to two rows of five kinds, two runs, limits of 2 to 4 bytes, one case per batch |
| `cli_input_bound` | Is a verdict never of more than the byte limit? (violated, see 7) | one run over a growing file |
| `manifest_study` | Is the output directory all or nothing, the winner's for good? | two adapters, the right binary and one for each check that could refuse it |
| `boundary_study` | Does only the registered study verify, whatever runs beside the verifier? | two processes, four builds |
| `checkout` | Is what is parsed registered, is what is imported, and does a STATE-Bench run leave no trace? | two registered files, one of them binary for ContextBench, and one other; any study after any other, anybody at work in between |
| `boundary_job` | Is what is uploaded vetted, and what does green mean? | one job, four builds |

Why the bounds are enough.

- *Intervals.* A merge step looks at two neighbouring intervals; three are the
  least where a merged interval meets a further one, and five lines hold
  two separated intervals with room to touch, overlap, nest, or end at
  `MaxU64`, where the saturation is. NormalizeSetProofs and IntervalMetricsProofs remove
  the bounds for safety. The walk of `intersection_size` keeps two cursors: five lines give
  lists of three intervals on both sides. The second file exists to pass
  `MaxU64` and to have a key in one set only.
- *Records and groups.* Order dependence of a group is a relation of its first,
  its last and one differing payload; four records allow A B A B, A B A and two
  groups at once, with an invalid digest anywhere. Counters need two groups to
  overflow and a third to go on after it.
- *Names.* A duplicate needs two inputs, a collapse of two findings two
  different bad names.
- *Command line.* Each limit can be met, passed by one, and passed by one row too
  many; a second run is enough to find what the first left. Limits only
  compare with widths, so their size does not matter.
- *Processes.* A race for a file or a directory is between two; `Kill` brings a
  further one into the state a third would leave. ManifestStudyProofs removes
  the bound for the adapters. Four builds are the registered one and one for each of the
  comparisons of the verifier (hashes of the summary, digest of the case, counts)
  together with a private text.
- *Probe.* The registered protocol has four calls: five allow every one to be
  doubled, and a client call among them. Two domains are the least where
  the counters, which are read once for all, have to remember the first. Two cart items
  allow one to be bought and one not; two turns, one that buys again. One
  client call and one changed list are enough, since a second one hides nothing.
- *ContextBench.* A batch of two rows can be cut after none, the first, in
  the middle of either; the kinds are recalls that differ either way or not
  at all, no gold, no deleted lines, overlapping ranges on either side, and a path in two
  spellings. The registered dataset has four rows, so that the verifier can be
  shown a shorter one. Tolerances are 0, 1/4, 1/2 and the three kinds of bad ones: with
  sets of up to two lines a metric is 0, 1/2, 2/3 or 1, so reported values fall inside, on
  and outside the tolerance, and where one is on it, all are multiples of 1/2. f64
  decides every comparison of the run as the model does. `MaxU64` is 2, and no list of the datasets is longer, as a size
  that is no u64 would not be read.
- *Checkout.* The first file can be verified before HEAD moves and the second
  after; the third is one that no hash is registered of. The proofs remove the
  bounds.

Symmetry over adapters and processes is used where the properties do not name
one and no liveness is checked (`manifest_study`, `boundary_study`).

Type invariants are checked where they say more than the shape of the records:
in `boundary_study`, `TypeOK` is that the files other processes see are never torn.
The others are proved (`TypeCorrect` in section 6) or, in modules without a proof,
left out.

## 5. Fairness and deadlock

The four audits, normalization and cardinalities are sequential: `WF_vars(Next)`
says that a program that can take a step takes it. In Cli, only the steps of the process are
fair, since the operating system schedules it; the producer may stall for ever
with the pipe open, nobody has to kill it or start it again, and
`EndsDespiteProducer` is stated under that. In BoundaryWorkflow the
runner is fair in starting, running and concluding steps; failures, crashes,
cancelling and the loss of the runner are not, and `EveryJobGated` allows the
loss. In BoundaryProbe,
`WF(ProbeNext)` says that the generator goes on and that upstream's orchestrator
returns; what it does is bounded by `honest`, and only then is
`HonestStudyVerifies` stated: a `Raise` is not excluded otherwise. ManifestStudy,
BoundaryStudy, ContextBench and Checkout state safety only and no fairness.

Deadlock is checked wherever the model has a step left in every state. It is not
in the runs `cli`, `cli_input_bound`, `manifest_study` and `boundary_job`: there the
system really stops, when the last process, adapter or step has ended. In
BoundaryProbe a refused generator stutters (`Refused`), in ContextBench and Checkout
there is always a program to be started or killed. The sequential modules have a `Done` step, so a loop that got stuck
would be reported.

## 6. The proofs

The proof modules are checked by tlapm with the back ends SMT (Z3), Zenon and LS4. The
theorems hold for all constants that satisfy the named assumptions.

**NormalizeSetProofs**, for any `MaxU64`, files and inputs
(`MaxU64Assumption`, `NoFileAssumption`, `InputsAssumption`).

- `TypeCorrect`, `NoLineLost`, `MergeCorrect`, `AlwaysCanonical`: the invariants
  of the run `normalize`.
- `ImplementsAtomicNormalize`: the initial states map to initial states of
  EvidenceSpec, and every step to its atomic step or to a stutter. The fairness
  half of the refinement stays with the run `normalize`.

The properties are not inductive by themselves. When `FinishFile` replaces a
file's list by the merged one, `EvidencePreserved` survives only because the sorted
copy covered what the list covered; and `MergeExtend` covers the right lines only
because the last merged interval starts no later than the next. `MergeLoop` adds
both, and `IInv` is its conjunction with the four properties. For the refinement,
`Recorded` adds that the violations are those of the items read so far. The sort
is `\E` over the sorted versions of the list, so nothing about a sorting
algorithm is assumed but what `sort_unstable` promises.

**IntervalMetricsProofs**, for any `MaxU64`, files and normalized sets
(`MaxU64Assumption`, `NoFileAssumption`, `SetsAssumption`: the argument is one of those
normalization returns; `OverflowAssumption`). The sets are not assumed to be finite: a
loop that returns has visited finitely many files.

- `CountIsExact`: between any two turns of the three loops the u128 total is the number of
  (file, line) pairs the loop has passed.
- `CardinalitiesAreExact`: what is returned is the number of pairs when that is a u64, and
  the overflow error otherwise.
- `IntersectionAlwaysFits`: when a size is a u64, so is the intersection, and it is no
  larger. No run checks this one; it is why precision and recall are at most 1.

There is no induction over a list here: the loops make it. `Counted` is the set of
pairs a loop has passed, a turn adds the lines of one interval or of one overlap, and the
lemmas say that these are new (`OneInterval`, `PrefixStep`, `PassedStep`) and how many
(`WidthIsCardinality`, `OverlapIsCardinality`). `PassedStep` is where the two-pointer walk
could be wrong: of the two current intervals the one that ends first can be left,
because everything after the other one starts later.

**CliProofs**, for any commands, inputs, limits and number of runs (`BoundsAssumption`,
`CommandsAssumption`, `InputsAssumption`: an input is a list of rows;
`NoReportAssumption`: a report is neither `None` nor `Partial`).

- `ExitsAreTrue`: an exit of 0 or 2 comes with the whole report of this run about every
  row it read, an exit of 1 with none of it.
- `ReportsAreOfWholeCases`: no report is made of a row that is cut off, of an empty batch or of
  rows past the limits.
- `OutputIsLeftAlone`: an action property, that the file changes only when this run has a
  report.

`CasesAreRows` is the heart: the verdicts collected so far are those of the rows
before the cursor that are not blank, in number and in kind, whatever the producer
appends meanwhile. `AtControl` says what is known at each control point, `ReportIsTrue`
and `NothingEarly` what the sinks hold. The widths of the rows occur in no proof:
the three theorems hold for any limits just because they ask nothing of them.

**ManifestVerifyProofs**, for every manifest of any length, any policy, any digests
(`CasesAssumption`; `SyntheticAssumption`: the two digests of the study differ).

- `PassingIsKeeping`, `CountsAreFindings`, `CountsAreOrderFree` and
  `WitnessesShowOrderDependence`, of `audit_manifest`;
- `AcceptsControlsOnly` and `WhatIsPublishedVerifies`, of adapter and verifier.

The invariant writes all variables out as functions of the case and of how far the two
loops have come: `Collected`, `Counted`, `Witnessed`, `Found`. The report is then
known from the case alone, and the properties are facts about sets of positions: that the
ordinal in a message names one id (`OrdinalNames`), so merging equal findings loses
none; that an id is dependent on the order exactly when it holds two digests, since swapping two
records moves another one to the end (`TwoDigestsDoNot`).

**ManifestStudyProofs**, for any set of adapters, any binaries, and only
`NoneAssumption` (`None` is neither an ending nor a directory).

- `OutputAllOrNothing`, `Ownership`, `RacesHaveAWinner`, `EndsClean`,
  `TypeCorrect`: the invariants of the run `manifest_study`.

None of them is inductive: they speak of the output directory, and
that is whatever an adapter had staged. `Local(p)` says what the staging
directory of p contains at each label (a prefix of the study, with the reports of
p's binary, which is a registered one once both are accepted). `Shared` says the same
of the output and of those that ended at the rename. A step of p changes nobody
else's `Local` (`Frame`), so each action needs `Local(p)'` and `Shared'`, and the
lemma `Combine` puts them together. The key step is the survivor check: it ties
the reports of an arbitrary binary to the ones of `Study` (`MatchingReports`).

**BoundaryWorkflowProofs**, first on BoundaryStudy, for any number of processes and any builds
(`RegisteredAssumption`, `BuildsAssumption`, `NoneAssumption`, `PartialAssumption`).

- `TypeCorrect`: case and summary are whole at every moment, the report may be cut off.
- `OnlyRegisteredVerifies`: a verifier that passed had read the registered study.

`IInv` is `Typed` and one `Local(p)` per process, which ties labels to programs and
`todo` to file names, so that what p has read is of the type of the disk. A step of
one process leaves the others' `Local` alone (`StepOthers`, `Combine`).
`VerifiedFiles` is the step from a comparison to the study: files of those types
whose digests fit and whose case is the registered one are the registered three.

Then, for one job in addition (`JobAssumption`):

- `ArtifactVetted`: an artifact holds the three files, public and of one generation.
- `GreenUploadsRegistered`: a green job uploaded the registered study.

Since every step of the job is one of BoundaryStudy, its `IInv` is kept; `JInv` adds
what follows from the job having the disk to itself: the pair while it is made
(`Pair`), one report of the case on disk (`OneReport`), and that a verdict once reached
stays true of the disk because only the first two steps write.

**BoundaryProbeProofs**, first on BoundaryAudit, for every case and every width of the
counters (`MaxU64Assumption`, `CasesAssumption`).

- `CountsAreFindings`: each of four counters is past zero exactly when its finding is
  there. The invariant says so in the middle of both loops: a saturating counter does not
  fall back to zero, a finding is not taken back, and the checks at the end
  have other codes.
- `CountersSaturate`: both capability counters are the true sums cut at `MaxU64`, and the
  overflow is noticed exactly when one of the sums is larger.
- `PassingIsBounded`: a case passes exactly when it keeps the contract.

`AuditInv` gives findings, counts, sums and the overflow flag in closed form at every
position of both loops. Saturating additions need more than that they add: `Cut` of a sum plus
the next value is `Cut` of the next sum, and a declared count is compared with the cut
value, which is why an overflow has a finding of its own.

Then on BoundaryProbe, for any domains, environments and bounds
(`DomainsAssumption`: the domains are a sequence).

- `DeclaresWhatHappened`: the construction order a case declares is the order in which
  upstream called back, in every domain. The probe keeps events and upstream made
  calls; `Shown` gives every event its place in the log and says which calls have
  none, and `ShownEvent` and `ShownSilent` carry it over one more call. With the four
  registered events the four places are the proof of the order (`ShownOrdered`).
- `NoCallGoesUnseen`: a case is built only if no client was called, in any domain, lane
  and arm. Counters at zero mean that no log has a call, since they only grow; the
  last look is at the end of the second arm, after which no client is called.
- `ProgramsAgree`: three programs agree on the study. Whatever upstream does, what
  evalfence reports of a case the generator builds is what the verifier has
  registered, and the study verifies exactly when no requirement list was changed
  (`StudyAssumption`: named domains that differ, each with a write, and no more writes
  than a counter holds). `Observing` says what the generator has seen, so that the case it
  builds is `StudyCase` up to the lists that changed (`BuiltIsStudied`); of that one case
  the findings, the counts and the report are written out, with `AuditInv` as the
  program that computes them.
- `BuiltCasesToo`: the two theorems on saturation and verdict hold of built cases.

**ContextBenchProofs**, for any batches, datasets, `MaxU64`, tolerance and
`--max-examples` (`BatchesAssumption` and `DatasetsAssumption`: cases and rows are as the parsers
make them, sets are finite, and the sizes of a row are u64 numbers, since evalfence
would not read others; `ToleranceAssumption`: a fraction above 0 and below 1;
`NoneAssumption`: null is neither a number nor a record of metrics; `MaxU64Assumption`,
`MaxExamplesAssumption`).

- `PassesMeanContract`: a case passes exactly when it keeps its contract.
- `MetricsAreExact`: precision, recall and F1 are the ones of the reference definition,
  and missing exactly when the evidence does not determine them.
- `FailuresAreCounted`: failures, counts of codes and examples account for every failing
  case and every finding.
- `StudyCountsAgree`: the adapter, which counts over lists of ranges, and evalfence,
  which counts over sets of lines, agree on every count, exactly when the ranges of
  every row are sets.
- `VerifierSeesWhole`: what verifies is the report of a whole dataset, whatever is
  killed and started again.

For one case there is a lemma per check (`HeaderGood`, `GoldGood`, `PredictionIsGood`,
`OverflowGood`, `CompareIsGood`), and `PassIsContract` puts them together. That f1, the harmonic mean of two
fractions, is within the tolerance exactly when 2 |P cap G| / (|P| + |G|) is, is `HarmonicIsF1`:
both sides have a common factor, which is zero only for an empty intersection. For
the batch, `BatchInv` ties the i-th report to the i-th case. The counts add up because
the findings, split by code or split by case, are the same disjoint union
(`SumOfSizes`, `CountsAddUp`). For a row, `RowFindings` and `SetLikeFound` write out
what evalfence finds of it: gold passed off as a prediction, and EF105 exactly if the adapter
counted a mismatch. `StudyInv` then says that evalfence always has a prefix of the
dataset's cases and that a summary, once it can be parsed, is of the whole dataset. The
verifier needs no more: its two comparisons tie the report to the registered counts, and
those to the dataset of the summary it has read.

On Checkout, for any registered, binary and other files (`FilesAssumption`: the binary ones
are registered, the others are not):

- `ParsesRegistered`, `ImportsRegistered`, `Repeatable` and `TypeCorrect`.

`Checked` says what each label guarantees: HEAD, the status and the files compared so far
hold on as they were looked at only while nobody disturbs, and the output of the STATE-Bench generator
is known to be outside from the first step on. That a blob which got past its hash
is the registered one needs neither; that is why `ParsesRegistered` has no premise about
others and `ImportsRegistered` has. The latter needs all three checks: HEAD and the status for
the files without a registered hash, the comparison for the binary file, in which git may
take other line ends for no change.

Induction over data. No theorem with an operator for a parameter can be instantiated by the
provers, so what a recursive definition computes is proved here in set form: a set of subsets
that has the empty set and grows with every element has all finite ones (`SubsetsReached`,
from the well-foundedness of strict inclusion, which the library states of a
relation), a set of numbers has a least element (from that of `<`), and sums are sizes
of disjoint unions. That is enough for every fold the models use.

Only model-checked: liveness and what needs ENABLED, that is `Terminates`,
`EndsDespiteProducer`, `EveryJobGated`, `HonestStudyVerifies` and the fairness half of
`ImplementsEvidence`, whose safety half is `ImplementsAtomicNormalize`. Every other property of a
passing run is a theorem. The two runs of section 7 find violations, so there is nothing to
prove.

## 7. Disagreements between code and documents

- `boundary_unapproved`. `docs/AGENT_BOUNDARY_CONTRACT.md:115` says of EF302 that "A
  present non-oracle input is not allowlisted." The code compares an input with
  the allowlist only if its name is valid and new (`src/boundary_audit.rs:75`).
  When the first of two inputs of one name is absent, the second one is
  present and unlisted and gets neither the finding nor the count. The case still
  fails, with EF312, and `PassMeansBoundary` shows that it always does.
- `cli_input_bound`. `README.md:314` says that "All three single-case commands are
  bounded to 8 MiB; interval batch input is bounded to 64 MiB, 1 MiB per row, and
  100,000 cases." For a path, `read_input` tests the length that `fs::metadata`
  reports and then reads what `fs::read` finds (`src/main.rs:193`); a
  file that grows in between is judged past the limit. Standard input is cut by
  `take(max_bytes + 1)` and is not affected; nor are the bounds on rows and cases.

## 8. What is not modelled

- Argument parsing (clap), JSON parsing (serde) and the wording of messages. A
  document that does not parse is the row kind `junk` of Cli.
- The rounding of f64. Tolerance comparisons are exact in the model, so
  `PassMeansContract` and `MetricsExact` of the run `audit` and their theorems are about
  rational numbers. The code can decide otherwise within a rounding error of the tolerance
  (calculated 1/2, reported 1/3, tolerance 1/6), in the last place of F1 at tolerance 0,
  and for sizes above 2^53, which `ratio` converts to f64.
- Regular expressions of the privacy gate and the tracked files it scans; a text is
  private or it is not.
- The syntax-tree checks of upstream's source (`verify_loader_shape` and the like): they
  compare text that Checkout shows to be registered, so their outcome is fixed. In
  ManifestStudy they are part of the one outcome of `VerifySource`.
- Upstream's own code. Its orchestrator is any sequence of callbacks, its parsers are
  the choice of a dataset, its simulator is the choice of an environment.
- Means, medians and gaps in the ContextBench summary; they are printed from the
  recalls that are modelled, and compared as numbers.
- The other workflows (`ci.yml`, `swebench-manifest.yml`), straight
  sequences of commands without conditions.
- A temporary file that a killed `write_canonical` leaves: no program reads it.

External parts are modelled from their use: rename(2), `TemporaryDirectory`,
`os.replace`, the steps of GitHub Actions and `success()`. They are marked so in
the map.

## 9. The plan

Written in this order: Intervals, NormalizeSet and EvidenceSpec with the first
proofs, since every metric rests on them; IntervalMetrics; the audits; Cli; the
processes (ManifestStudy with its proofs, BoundaryStudy, BoundaryWorkflow).

The second round added where the cases come from and where the files go: BoundaryProbe,
ContextBench, ManifestVerify and Checkout, and the proofs about the processes and
the counters.

Next, on the side of the model:

1. an abstract publisher ("the target is absent, or one complete version") that
   ManifestStudy and the files of BoundaryStudy implement, stated once;
2. f64 as the code rounds it, in the comparisons with the tolerance;
3. the privacy gate's scan of the tracked files, which are read one by one.

Then the proofs were carried to every safety property: the cardinalities, the command
line, both manifest programs, the boundary audit and the study built on it, the case and
batch audits and the ContextBench study.

Next, on the side of the proofs: the abstract publisher of point 1 as a refinement, proved
for any number of adapters; and that what CaseAudit takes evidence to be is what
NormalizeSet and IntervalMetrics return for it, as theorems across the three modules.
