----------------------------- MODULE CliProofs -----------------------------
(***************************************************************************)
(* Proofs about Cli, for every set of command lines, every set of inputs,  *)
(* every limit and every number of runs.  How wide the rows are together   *)
(* is nothing these proofs look at.                                        *)
(***************************************************************************)
EXTENDS Cli, SequenceTheorems, FiniteSetTheorems, TLAPS

USE BoundsAssumption, CommandsAssumption, InputsAssumption, NoReportAssumption

-----------------------------------------------------------------------------
(***************************************************************************)
(* The inductive invariant: what the process knows of the rows at every    *)
(* control point, and what the sinks hold of earlier runs.                 *)
(***************************************************************************)
Controls == {"start", "read", "rows", "audit", "open", "write", "ended"}

Types ==
    /\ command \in Commands
    /\ written \in Seq(Row) /\ left \in Seq(Row) /\ torn \in BOOLEAN
    /\ torn => left # <<>> /\ written # <<>>
    /\ sinks \in [{"file", "stdout"} -> Reports \cup {None, Partial}]
    /\ run \in Nat \ {0}
    /\ pc \in Controls
    /\ bytes \in Seq(Row)
    /\ at \in Nat \ {0} /\ at <= Len(bytes) + 1
    /\ cases \in Seq({"pass", "fail"})
    /\ report \in Reports \cup {None}
    /\ exit \in {None, 0, 1, 2, Killed}

(* The rows before the one the line loop reads next. *)
FilledTo(n) == {k \in Filled : k < n}
FailingTo(n) == {k \in Failing : k < n}
FailedCases == {v \in DOMAIN cases : cases[v] = "fail"}

(* The line loop has made one case of every row but the blank ones. *)
CasesAreRows ==
    /\ Len(cases) = Cardinality(FilledTo(at))
    /\ Cardinality(FailedCases) = Cardinality(FailingTo(at))
    /\ Len(cases) <= MaxBatchCases
    /\ \A k \in FilledTo(at) : bytes[k].kind # "junk" /\ bytes[k].width <= MaxLineBytes

AtControl ==
    /\ pc = "rows" => command.lane = "batch"
    /\ pc = "start" => at = 1 /\ cases = <<>>
    /\ pc = "read" => at = 1 /\ cases = <<>>
    /\ pc \in {"rows", "audit"} /\ command.lane = "batch" => CasesAreRows
    /\ pc = "audit" /\ command.lane = "batch" => at > Len(bytes) /\ cases # <<>>
    /\ pc \in {"start", "read", "rows", "audit"} => report = None
    /\ pc \in {"open", "write"} => report # None
    /\ pc = "write" => Sink = Partial

(* A report is of this run and of all rows read. *)
ReportIsTrue ==
    report # None => report = [run |-> run, total |-> Cardinality(Filled),
                               failed |-> Cardinality(Failing)]

(* The output holds nothing of this run before the process writes it. *)
NothingEarly ==
    /\ pc # "ended" => Sink \in {None, Partial} \/ Sink.run < run
    /\ \A o \in {"file", "stdout"} : sinks[o] \in Reports => sinks[o].run <= run

ExitIsTrue ==
    /\ pc # "ended" => exit = None
    /\ exit \in {0, 2} => /\ report # None /\ Sink = report
                          /\ exit = 0 <=> report.failed = 0
    /\ exit = 1 => Sink \in {None, Partial} \/ Sink.run < run

IInv == /\ Types
        /\ AtControl
        /\ ReportIsTrue
        /\ NothingEarly
        /\ ExitIsTrue
        /\ OnlyWholeCasesAudited

-----------------------------------------------------------------------------
(* Lemmas about rows. *)

(* What the proofs use of a sequence. *)
LEMMA SeqFacts ==
    ASSUME NEW S, NEW s \in Seq(S)
    PROVE  /\ Len(s) \in Nat /\ DOMAIN s = 1 .. Len(s)
           /\ \A k \in 1 .. Len(s) : s[k] \in S
  OBVIOUS

(* One more verdict is one more case, failing when the verdict is "fail". *)
LEMMA AppendVerdict ==
    ASSUME NEW s \in Seq({"pass", "fail"}), NEW v \in {"pass", "fail"}
    PROVE  /\ Append(s, v) \in Seq({"pass", "fail"})
           /\ Append(s, v) # <<>>
           /\ Len(Append(s, v)) = Len(s) + 1
           /\ Cardinality({k \in DOMAIN Append(s, v) : Append(s, v)[k] = "fail"}) =
                IF v = "fail" THEN Cardinality({k \in DOMAIN s : s[k] = "fail"}) + 1
                              ELSE Cardinality({k \in DOMAIN s : s[k] = "fail"})
<1> DEFINE t == Append(s, v)
           n == Len(s)
           F == {k \in DOMAIN s : s[k] = "fail"}
           G == {k \in DOMAIN t : t[k] = "fail"}
<1>1. /\ t \in Seq({"pass", "fail"}) /\ Len(t) = n + 1 /\ n \in Nat
      /\ DOMAIN s = 1 .. n /\ DOMAIN t = 1 .. n + 1
      /\ t[n + 1] = v /\ \A k \in 1 .. n : t[k] = s[k]
  OBVIOUS
<1>2. t # <<>>
  BY <1>1
<1>3. G = IF v = "fail" THEN F \cup {n + 1} ELSE F
  <2>1. 1 .. n + 1 = (1 .. n) \cup {n + 1} /\ n + 1 \notin 1 .. n
    BY <1>1
  <2> HIDE DEF t, n
  <2> QED BY <1>1, <2>1
<1>4. IsFiniteSet(F)
  <2>1. IsFiniteSet(1 .. n)
    BY <1>1, FS_Interval
  <2>2. F \in SUBSET (1 .. n)
    BY <1>1
  <2> QED BY <2>1, <2>2, FS_Subset
<1>5. n + 1 \notin F
  BY <1>1
<1>6. Cardinality(F \cup {n + 1}) = Cardinality(F) + 1
  BY <1>4, <1>5, FS_AddElement
<1> HIDE DEF t, F, G
<1>7. Cardinality(G) = IF v = "fail" THEN Cardinality(F) + 1 ELSE Cardinality(F)
  BY <1>3, <1>6
<1> USE DEF t, F, G
<1> QED BY <1>1, <1>2, <1>7

(* The rows that are not blank, and how one more row adds to them. *)
LEMMA FilledFinite ==
    ASSUME bytes \in Seq(Row)
    PROVE  /\ IsFiniteSet(Filled) /\ IsFiniteSet(Failing)
           /\ Cardinality(Filled) \in Nat /\ Cardinality(Failing) \in Nat
           /\ Failing = {} <=> Cardinality(Failing) = 0
<1>1. Len(bytes) \in Nat /\ DOMAIN bytes = 1 .. Len(bytes)
  BY SeqFacts
<1>2. IsFiniteSet(1 .. Len(bytes))
  BY <1>1, FS_Interval
<1>3. Filled \in SUBSET (1 .. Len(bytes)) /\ Failing \in SUBSET (1 .. Len(bytes))
  BY <1>1 DEF Filled, Failing
<1>4. IsFiniteSet(Filled) /\ IsFiniteSet(Failing)
  BY <1>2, <1>3, FS_Subset
<1> QED BY <1>4, FS_CardinalityType, FS_EmptySet

LEMMA NextRow ==
    ASSUME bytes \in Seq(Row), NEW n \in Nat \ {0}, n <= Len(bytes)
    PROVE  /\ bytes[n].kind = "blank" => /\ FilledTo(n + 1) = FilledTo(n)
                                         /\ FailingTo(n + 1) = FailingTo(n)
           /\ bytes[n].kind # "blank" =>
                /\ FilledTo(n + 1) = FilledTo(n) \cup {n}
                /\ Cardinality(FilledTo(n + 1)) = Cardinality(FilledTo(n)) + 1
                /\ Cardinality(FailingTo(n + 1)) =
                     IF bytes[n].kind = "fail" THEN Cardinality(FailingTo(n)) + 1
                                               ELSE Cardinality(FailingTo(n))
<1>1. Len(bytes) \in Nat /\ DOMAIN bytes = 1 .. Len(bytes) /\ n \in DOMAIN bytes
  BY SeqFacts
<1>2. \A k \in DOMAIN bytes : k < n + 1 <=> k < n \/ k = n
  BY <1>1
<1>3. FilledTo(n + 1) = IF bytes[n].kind # "blank" THEN FilledTo(n) \cup {n} ELSE FilledTo(n)
  BY <1>1, <1>2 DEF FilledTo, Filled
<1>4. FailingTo(n + 1) = IF bytes[n].kind = "fail" THEN FailingTo(n) \cup {n} ELSE FailingTo(n)
  BY <1>1, <1>2 DEF FailingTo, Failing, Filled
<1>5. n \notin FilledTo(n) /\ n \notin FailingTo(n)
  BY DEF FilledTo, FailingTo
<1>6. IsFiniteSet(FilledTo(n)) /\ IsFiniteSet(FailingTo(n))
  <2>1. FilledTo(n) \in SUBSET Filled /\ FailingTo(n) \in SUBSET Failing
    BY DEF FilledTo, FailingTo
  <2> QED BY <2>1, FilledFinite, FS_Subset
<1>7. /\ Cardinality(FilledTo(n) \cup {n}) = Cardinality(FilledTo(n)) + 1
      /\ Cardinality(FailingTo(n) \cup {n}) = Cardinality(FailingTo(n)) + 1
  BY <1>5, <1>6, FS_AddElement
<1> QED BY <1>3, <1>4, <1>7

(* Before the first row there is none, and past the last there are all. *)
LEMMA RowPositions ==
    ASSUME bytes \in Seq(Row)
    PROVE  /\ Failing \subseteq Filled
           /\ \A k \in Filled : k \in Nat /\ 1 <= k /\ k <= Len(bytes)
<1>1. Len(bytes) \in Nat /\ DOMAIN bytes = 1 .. Len(bytes)
  BY SeqFacts
<1> QED BY <1>1 DEF Filled, Failing

LEMMA NoRowYet ==
    ASSUME bytes \in Seq(Row)
    PROVE  FilledTo(1) = {} /\ FailingTo(1) = {}
<1>1. \A k \in Filled : ~(k < 1)
  BY RowPositions
<1> QED BY <1>1, RowPositions DEF FilledTo, FailingTo

LEMMA AllRows ==
    ASSUME bytes \in Seq(Row), NEW n \in Nat, n > Len(bytes)
    PROVE  FilledTo(n) = Filled /\ FailingTo(n) = Failing
<1>1. \A k \in Filled : k < n
  BY RowPositions, SeqFacts
<1> QED BY <1>1, RowPositions DEF FilledTo, FailingTo

-----------------------------------------------------------------------------
(* The initial states. *)

LEMMA InitIInv == Init => IInv
<1> SUFFICES ASSUME Init PROVE IInv
  OBVIOUS
<1>1. command \in Commands /\ pc = "start" /\ report = None /\ exit = None
  BY DEF Init
<1>2. Types
  <2>1. /\ written \in Seq(Row) /\ left \in Seq(Row)
        /\ bytes \in Seq(Row) /\ Len(bytes) = 0 /\ cases \in Seq({"pass", "fail"})
    BY DEF Init
  <2>2. sinks \in [{"file", "stdout"} -> Reports \cup {None, Partial}]
    BY DEF Init
  <2>3. at \in Nat \ {0} /\ at <= Len(bytes) + 1 /\ run \in Nat \ {0} /\ torn = FALSE
    BY <2>1 DEF Init
  <2> QED BY <1>1, <2>1, <2>2, <2>3 DEF Types, Controls
<1>3. sinks = [file |-> None, stdout |-> None] /\ command.output \in {"file", "stdout"}
  BY DEF Init
<1>4. AtControl
  BY <1>1 DEF Init, AtControl
<1>5. NothingEarly
  BY <1>1, <1>3 DEF NothingEarly, Sink
<1>6. ReportIsTrue /\ ExitIsTrue /\ OnlyWholeCasesAudited
  BY <1>1 DEF ReportIsTrue, ExitIsTrue, OnlyWholeCasesAudited
<1> QED BY <1>2, <1>4, <1>5, <1>6 DEF IInv

-----------------------------------------------------------------------------
(* The steps. *)

(* The sets of rows depend on nothing but the bytes. *)
LEMMA SameRows ==
    ASSUME UNCHANGED bytes
    PROVE  UNCHANGED <<Filled, Failing>>
  BY DEF Filled, Failing

(* The producer does not touch the process, nor what the process has read. *)
LEMMA ProducerStep ==
    ASSUME IInv, BeginRow \/ EndRow \/ Close \/ RemoveInput
    PROVE  IInv'
<1>1. UNCHANGED <<command, sinks, run, pc, bytes, at, cases, report, exit>>
  BY DEF BeginRow, EndRow, Close, RemoveInput, process
<1>2. Types'
  <2>1. /\ written' \in Seq(Row) /\ left' \in Seq(Row) /\ torn' \in BOOLEAN
        /\ torn' => left' # <<>> /\ written' # <<>>
    <3>1. CASE BeginRow
      <4>1. Torn \in Row
        BY DEF Torn, Row
      <4>2. Append(written, Torn) \in Seq(Row) /\ Append(written, Torn) # <<>>
        <5>1. written \in Seq(Row)
          BY DEF IInv, Types
        <5> QED BY <4>1, <5>1, AppendProperties
      <4> QED BY <3>1, <4>2 DEF BeginRow, IInv, Types
    <3>2. CASE EndRow
      <4>1. Head(left) \in Row /\ Tail(left) \in Seq(Row)
        BY <3>2 DEF EndRow, IInv, Types
      <4>2. Len(written) \in 1 .. Len(written)
        BY <3>2 DEF EndRow, IInv, Types
      <4>3. [written EXCEPT ![Len(written)] = Head(left)] \in Seq(Row)
        BY <4>1, <4>2 DEF IInv, Types
      <4> QED BY <3>2, <4>1, <4>3 DEF EndRow
    <3>3. CASE Close \/ RemoveInput
      BY <3>3 DEF Close, RemoveInput, IInv, Types
    <3> QED BY <3>1, <3>2, <3>3
  <2> QED BY <1>1, <2>1 DEF IInv, Types
<1>3. AtControl' /\ NothingEarly'
  BY <1>1 DEF IInv, AtControl, CasesAreRows, FailedCases, FilledTo, FailingTo, Filled, Failing,
              NothingEarly, Sink
<1>4. ReportIsTrue' /\ ExitIsTrue' /\ OnlyWholeCasesAudited'
  BY <1>1 DEF IInv, ReportIsTrue, ExitIsTrue, OnlyWholeCasesAudited, Filled, Failing, Sink
<1> QED BY <1>2, <1>3, <1>4 DEF IInv

(* Input that is refused, and a kill, leave the sinks and the report. *)
LEMMA EndedWithoutReport ==
    ASSUME IInv, Exit(1), pc # "ended",
           UNCHANGED <<command, producer, sinks, run, bytes, at, cases, report>>
    PROVE  IInv'
<1>1. pc' = "ended" /\ exit' = 1
  BY DEF Exit
<1>2. Types'
  BY <1>1 DEF IInv, Types, producer, Controls
<1>3. AtControl'
  BY <1>1 DEF AtControl
<1>4. UNCHANGED Sink /\ (Sink \in {None, Partial} \/ Sink.run < run)
  BY DEF IInv, NothingEarly, Sink
<1>5. NothingEarly' /\ ExitIsTrue'
  <2>1. NothingEarly'
    BY <1>1 DEF IInv, NothingEarly
  <2>2. ExitIsTrue'
    BY <1>1, <1>4 DEF ExitIsTrue
  <2> QED BY <2>1, <2>2
<1>6. ReportIsTrue' /\ OnlyWholeCasesAudited'
  BY SameRows DEF IInv, ReportIsTrue, OnlyWholeCasesAudited
<1> QED BY <1>2, <1>3, <1>5, <1>6 DEF IInv

LEMMA KillStep ==
    ASSUME IInv, Kill
    PROVE  IInv'
<1>1. pc' = "ended" /\ exit' = Killed
  BY DEF Kill, Exit
<1>2. UNCHANGED <<command, written, left, torn, sinks, run, bytes, at, cases, report>>
  BY DEF Kill, producer
<1>3. Types'
  BY <1>1, <1>2 DEF IInv, Types, Controls
<1>4. AtControl'
  BY <1>1 DEF AtControl
<1>5. NothingEarly'
  BY <1>1, <1>2 DEF IInv, NothingEarly
<1>6. ExitIsTrue'
  BY <1>1 DEF ExitIsTrue, Killed
<1>7. ReportIsTrue' /\ OnlyWholeCasesAudited'
  BY <1>2, SameRows DEF IInv, ReportIsTrue, OnlyWholeCasesAudited
<1> QED BY <1>3, <1>4, <1>5, <1>6, <1>7 DEF IInv

(* Where the process has read its input, the line loop begins. *)
LEMMA InputRead ==
    ASSUME IInv, pc \in {"start", "read"},
           bytes' = written, pc' = Parse,
           UNCHANGED <<command, producer, sinks, run, at, cases, report, exit>>
    PROVE  IInv'
<1>1. /\ report = None /\ exit = None /\ report' = None /\ exit' = None
      /\ at = 1 /\ cases = <<>>
  BY DEF IInv, AtControl, ExitIsTrue
<1>2. pc' = IF command.lane = "single" THEN "audit" ELSE "rows"
  BY DEF Parse
<1>3. command \in Commands /\ command.lane \in Lanes
  BY DEF IInv, Types
<1>4. bytes' \in Seq(Row) /\ Len(bytes') \in Nat /\ at' = 1 /\ cases' = <<>>
  BY <1>1 DEF IInv, Types, producer
<1>5. Types'
  BY <1>1, <1>2, <1>4 DEF IInv, Types, producer, Controls
<1>6. CasesAreRows'
  <2>1. (FilledTo(1) = {} /\ FailingTo(1) = {})'
    <3>1. (\A k \in Filled : ~(k < 1))' /\ Failing' \subseteq Filled'
      BY <1>4, SeqFacts DEF Filled, Failing
    <3> QED BY <3>1 DEF FilledTo, FailingTo
  <2>2. FilledTo(at)' = {} /\ FailingTo(at)' = {}
    BY <1>4, <2>1 DEF FilledTo, FailingTo
  <2>3. FailedCases' = {}
    BY <1>4 DEF FailedCases
  <2>4. Cardinality({}) = 0
    BY FS_EmptySet
  <2>5. Len(<<>>) = 0 /\ 0 <= MaxBatchCases
    OBVIOUS
  <2> QED BY <1>4, <2>2, <2>3, <2>4, <2>5 DEF CasesAreRows
<1>7. AtControl'
  BY <1>1, <1>2, <1>3, <1>6 DEF AtControl, Lanes
<1>8. NothingEarly' /\ ExitIsTrue'
  BY <1>1 DEF IInv, NothingEarly, ExitIsTrue, Sink
<1>9. ReportIsTrue' /\ OnlyWholeCasesAudited'
  BY <1>1 DEF ReportIsTrue, OnlyWholeCasesAudited
<1> QED BY <1>5, <1>7, <1>8, <1>9 DEF IInv

(* A step of the process that leaves the sinks, the report and the exit    *)
(* keeps what is said of them while there is no report.                    *)
LEMMA NoReportYet ==
    ASSUME IInv, report = None, pc # "ended", pc' # "ended",
           UNCHANGED <<command, sinks, run, report, exit>>
    PROVE  NothingEarly' /\ ExitIsTrue' /\ ReportIsTrue' /\ OnlyWholeCasesAudited'
<1>1. report' = None /\ exit' = None
  BY DEF IInv, ExitIsTrue
<1>2. NothingEarly' /\ ExitIsTrue'
  BY <1>1 DEF IInv, NothingEarly, ExitIsTrue, Sink
<1> QED BY <1>1, <1>2 DEF ReportIsTrue, OnlyWholeCasesAudited

LEMMA StatStep ==
    ASSUME IInv, Stat
    PROVE  IInv'
<1>1. pc = "start" /\ UNCHANGED <<command, producer, sinks, run, bytes, at, cases, report>>
  BY DEF Stat
<1>2. CASE Exit(1)
  BY <1>1, <1>2, EndedWithoutReport
<1>3. CASE pc' = "read" /\ UNCHANGED exit
  <2>1. at = 1 /\ cases = <<>> /\ report = None
    BY <1>1 DEF IInv, AtControl
  <2>2. Types'
    BY <1>1, <1>3 DEF IInv, Types, producer, Controls
  <2>3. AtControl'
    BY <1>1, <1>3, <2>1 DEF AtControl
  <2> QED BY <1>1, <1>3, <2>1, <2>2, <2>3, NoReportYet DEF IInv
<1> QED BY <1>2, <1>3 DEF Stat

LEMMA ReadStep ==
    ASSUME IInv, ReadPath \/ ReadStdin
    PROVE  IInv'
<1>1. /\ pc \in {"start", "read"}
      /\ UNCHANGED <<command, producer, sinks, run, at, cases, report>>
  BY DEF ReadPath, ReadStdin
<1>2. \/ Exit(1) /\ UNCHANGED bytes
      \/ bytes' = written /\ pc' = Parse /\ UNCHANGED exit
  BY DEF ReadPath, ReadStdin
<1>3. CASE Exit(1) /\ UNCHANGED bytes
  BY <1>1, <1>3, EndedWithoutReport
<1>4. CASE bytes' = written /\ pc' = Parse /\ UNCHANGED exit
  BY <1>1, <1>4, InputRead
<1> QED BY <1>2, <1>3, <1>4

(* One turn of the line loop. *)
LEMMA ReadRowStep ==
    ASSUME IInv, ReadRow
    PROVE  IInv'
<1> DEFINE row == bytes[at]
<1>1. /\ pc = "rows" /\ at <= Len(bytes) /\ report = None /\ command.lane = "batch"
      /\ UNCHANGED <<command, producer, sinks, run, bytes, report>>
  BY DEF ReadRow, IInv, AtControl
<1>2. /\ bytes \in Seq(Row) /\ Len(bytes) \in Nat /\ at \in Nat \ {0}
      /\ cases \in Seq({"pass", "fail"}) /\ Len(cases) \in Nat /\ MaxBatchCases \in Nat
  <2>1. bytes \in Seq(Row) /\ at \in Nat \ {0} /\ cases \in Seq({"pass", "fail"})
    BY DEF IInv, Types
  <2>2. MaxBatchCases \in Nat
    OBVIOUS
  <2> QED BY <2>1, <2>2, SeqFacts
<1>3. at \in DOMAIN bytes /\ row \in Row /\ row.kind \in {"pass", "fail", "junk", "blank"}
  <2>1. at \in 1 .. Len(bytes)
    BY <1>1, <1>2
  <2>2. row \in Row
    BY <1>2, <2>1, SeqFacts
  <2> QED BY <1>2, <2>1, <2>2, SeqFacts DEF Row
<1>4. CasesAreRows
  BY <1>1 DEF IInv, AtControl
<1>5. CASE row.kind # "blank" /\ RowRefused(row)
  <2>1. Exit(1) /\ UNCHANGED <<at, cases>>
    BY <1>5 DEF ReadRow
  <2> QED BY <1>1, <2>1, EndedWithoutReport
<1>6. CASE row.kind = "blank" \/ ~RowRefused(row)
  <2>1. pc' = pc /\ exit' = exit /\ at' = at + 1
    BY <1>6 DEF ReadRow
  <2>2. cases' \in Seq({"pass", "fail"}) /\ CasesAreRows'
    <3>1. UNCHANGED <<Filled, Failing>>
      BY <1>1, SameRows
    <3>2. FilledTo(at)' = FilledTo(at + 1) /\ FailingTo(at)' = FailingTo(at + 1)
      BY <2>1, <3>1 DEF FilledTo, FailingTo
    <3>3. CASE row.kind = "blank"
      <4>1. cases' = cases
        BY <3>3 DEF ReadRow
      <4>2. FilledTo(at + 1) = FilledTo(at) /\ FailingTo(at + 1) = FailingTo(at)
        BY <1>1, <1>2, <3>3, NextRow
      <4>3. FailedCases' = FailedCases
        BY <4>1 DEF FailedCases
      <4>4. FilledTo(at)' = FilledTo(at) /\ FailingTo(at)' = FailingTo(at)
        BY <3>2, <4>2
      <4> QED BY <1>1, <1>2, <1>4, <4>1, <4>3, <4>4 DEF CasesAreRows
    <3>4. CASE row.kind # "blank" /\ ~RowRefused(row)
      <4>1. /\ cases' = Append(cases, row.kind)
            /\ row.width <= MaxLineBytes /\ Len(cases) < MaxBatchCases
            /\ row.kind \in {"pass", "fail"}
        <5>1. cases' = Append(cases, row.kind)
          BY <3>4 DEF ReadRow
        <5>2. ~(row.width > MaxLineBytes) /\ ~(Len(cases) >= MaxBatchCases) /\ row.kind # "junk"
          BY <3>4 DEF RowRefused, BatchFull
        <5>3. row.width \in Nat /\ MaxLineBytes \in Nat
          BY <1>3 DEF Row
        <5> QED BY <1>2, <1>3, <3>4, <5>1, <5>2, <5>3
      <4>2. /\ FilledTo(at + 1) = FilledTo(at) \cup {at}
            /\ Cardinality(FilledTo(at + 1)) = Cardinality(FilledTo(at)) + 1
            /\ Cardinality(FailingTo(at + 1)) =
                 IF row.kind = "fail" THEN Cardinality(FailingTo(at)) + 1
                                      ELSE Cardinality(FailingTo(at))
        BY <1>1, <1>2, <3>4, NextRow
      <4>3. /\ cases' \in Seq({"pass", "fail"}) /\ Len(cases') = Len(cases) + 1
            /\ Cardinality(FailedCases') =
                 IF row.kind = "fail" THEN Cardinality(FailedCases) + 1
                                      ELSE Cardinality(FailedCases)
        BY <1>2, <4>1, AppendVerdict DEF FailedCases
      <4>4. \A k \in FilledTo(at + 1) : bytes[k].kind # "junk" /\ bytes[k].width <= MaxLineBytes
        BY <1>4, <3>4, <4>1, <4>2 DEF CasesAreRows
      <4>5. Len(cases') <= MaxBatchCases
        BY <1>2, <4>1, <4>3
      <4>6. Len(cases') = Cardinality(FilledTo(at)')
        BY <1>4, <3>2, <4>2, <4>3 DEF CasesAreRows
      <4>7. Cardinality(FailedCases') = Cardinality(FailingTo(at)')
        BY <1>4, <3>2, <4>2, <4>3 DEF CasesAreRows
      <4>8. \A k \in FilledTo(at)' : bytes'[k].kind # "junk" /\ bytes'[k].width <= MaxLineBytes
        BY <1>1, <3>2, <4>4
      <4> QED BY <4>3, <4>5, <4>6, <4>7, <4>8 DEF CasesAreRows
    <3> QED BY <1>6, <3>3, <3>4
  <2>3. Types'
    BY <1>1, <1>2, <2>1, <2>2 DEF IInv, Types, producer
  <2>4. AtControl'
    BY <1>1, <2>1, <2>2 DEF AtControl
  <2> QED BY <1>1, <2>1, <2>3, <2>4, NoReportYet DEF IInv
<1> QED BY <1>5, <1>6

(* Past the last row every row has been read. *)
LEMMA EndRowsStep ==
    ASSUME IInv, EndRows
    PROVE  IInv'
<1>1. /\ pc = "rows" /\ at > Len(bytes) /\ report = None
      /\ UNCHANGED <<command, producer, sinks, run, bytes, at, cases, report>>
  BY DEF EndRows, IInv, AtControl
<1>2. CASE Exit(1)
  BY <1>1, <1>2, EndedWithoutReport
<1>3. CASE cases # <<>> /\ pc' = "audit" /\ UNCHANGED exit
  <2>1. Types'
    BY <1>1, <1>3 DEF IInv, Types, producer, Controls
  <2>2. command.lane = "batch" /\ CasesAreRows
    BY <1>1 DEF IInv, AtControl
  <2>3. CasesAreRows'
    <3>1. UNCHANGED <<Filled, Failing, at, bytes, cases>>
      BY <1>1, SameRows
    <3>2. UNCHANGED <<FilledTo(at), FailingTo(at), FailedCases>>
      BY <3>1 DEF FilledTo, FailingTo, FailedCases
    <3> QED BY <2>2, <3>1, <3>2 DEF CasesAreRows
  <2>4. AtControl'
    BY <1>1, <1>3, <2>2, <2>3 DEF AtControl
  <2> QED BY <1>1, <1>3, <2>1, <2>4, NoReportYet DEF IInv
<1> QED BY <1>2, <1>3 DEF EndRows

(* The report is about all rows, of the single case or of the batch. *)
LEMMA AuditStep ==
    ASSUME IInv, Audit
    PROVE  IInv'
<1>1. /\ pc = "audit" /\ report = None
      /\ UNCHANGED <<command, producer, sinks, run, bytes, at, cases>>
  BY DEF Audit, IInv, AtControl
<1>2. bytes \in Seq(Row) /\ run \in Nat \ {0} /\ command.lane \in Lanes
  BY DEF IInv, Types
<1>3. CASE Exit(1) /\ UNCHANGED report
  BY <1>1, <1>3, EndedWithoutReport
<1>4. CASE /\ command.lane = "single" => IsOneCase
           /\ \E verdicts \in Verdicts : report' = Report(verdicts)
           /\ pc' = "open" /\ UNCHANGED exit
  <2>1. /\ report' = [run |-> run, total |-> Cardinality(Filled), failed |-> Cardinality(Failing)]
        /\ \A k \in Filled : bytes[k].kind # "junk"
        /\ Filled # {}
        /\ command.lane = "batch" => /\ Cardinality(Filled) <= MaxBatchCases
                                     /\ \A k \in Filled : bytes[k].width <= MaxLineBytes
    <3>1. CASE command.lane = "single"
      <4>1. PICK k \in Filled : Filled = {k} /\ bytes[k].kind # "junk"
        BY <1>4, <3>1 DEF IsOneCase
      <4> DEFINE v == <<bytes[k].kind>>
                 V == {i \in DOMAIN v : v[i] = "fail"}
      <4>2. Verdicts = {v}
        BY <3>1, <4>1 DEF Verdicts
      <4>3. report' = Report(v)
        BY <1>4, <4>2
      <4>4. Len(v) = 1 /\ DOMAIN v = {1} /\ v[1] = bytes[k].kind
        OBVIOUS
      <4>5. V = IF bytes[k].kind = "fail" THEN {1} ELSE {}
        BY <4>4
      <4>6. Failing = IF bytes[k].kind = "fail" THEN {k} ELSE {}
        BY <4>1 DEF Failing
      <4>7. Cardinality({1}) = 1 /\ Cardinality({k}) = 1
        BY FS_Singleton
      <4>8. Cardinality(V) = Cardinality(Failing)
        BY <4>5, <4>6, <4>7
      <4>9. Cardinality(Filled) = 1
        BY <4>1, <4>7
      <4>10. Report(v) = [run |-> run, total |-> Len(v), failed |-> Cardinality(V)]
        BY DEF Report
      <4> QED BY <3>1, <4>1, <4>3, <4>4, <4>8, <4>9, <4>10
    <3>2. CASE command.lane = "batch"
      <4>1. CasesAreRows /\ at > Len(bytes) /\ cases # <<>>
        BY <1>1, <3>2 DEF IInv, AtControl
      <4>2. /\ at \in Nat /\ cases \in Seq({"pass", "fail"})
            /\ Len(cases) \in Nat /\ Len(cases) # 0
        <5>1. at \in Nat /\ cases \in Seq({"pass", "fail"})
          BY DEF IInv, Types
        <5> QED BY <4>1, <5>1, EmptySeq
      <4>3. FilledTo(at) = Filled /\ FailingTo(at) = Failing
        BY <1>2, <4>1, <4>2, AllRows
      <4>4. report' = Report(cases)
        BY <1>4, <3>2 DEF Verdicts
      <4>5. Report(cases) = [run |-> run, total |-> Len(cases),
                             failed |-> Cardinality(FailedCases)]
        BY DEF Report, FailedCases
      <4>6. Filled # {}
        BY <4>1, <4>2, <4>3, FS_EmptySet DEF CasesAreRows
      <4>7. /\ Len(cases) = Cardinality(Filled) /\ Cardinality(FailedCases) = Cardinality(Failing)
            /\ Len(cases) <= MaxBatchCases
            /\ \A k \in Filled : bytes[k].kind # "junk" /\ bytes[k].width <= MaxLineBytes
        BY <4>1, <4>3 DEF CasesAreRows
      <4> QED BY <4>4, <4>5, <4>6, <4>7
    <3> QED BY <1>2, <3>1, <3>2 DEF Lanes
  <2>2. report' \in Reports /\ report' # None
    <3>1. Cardinality(Filled) \in Nat /\ Cardinality(Failing) \in Nat
      BY <1>2, FilledFinite
    <3>2. report' \in Reports
      BY <1>2, <2>1, <3>1 DEF Reports
    <3> QED BY <3>2
  <2>3. UNCHANGED <<Filled, Failing>>
    BY <1>1, SameRows
  <2>4. Types'
    BY <1>1, <1>4, <2>2 DEF IInv, Types, producer, Controls
  <2>5. AtControl'
    BY <1>4, <2>2 DEF AtControl
  <2>6. ReportIsTrue'
    BY <1>1, <2>1, <2>3 DEF ReportIsTrue
  <2>7. NothingEarly'
    BY <1>1, <1>4 DEF IInv, NothingEarly, Sink
  <2>8. ExitIsTrue'
    BY <1>1, <1>4 DEF IInv, ExitIsTrue
  <2>9. OnlyWholeCasesAudited'
    BY <1>1, <2>1, <2>3 DEF OnlyWholeCasesAudited
  <2> QED BY <2>4, <2>5, <2>6, <2>7, <2>8, <2>9 DEF IInv
<1> QED BY <1>2, <1>3, <1>4 DEF Audit

(* What the output holds once the process has set it. *)
LEMMA SetSink ==
    ASSUME IInv, NEW x, sinks' = [sinks EXCEPT ![command.output] = x], UNCHANGED command
    PROVE  /\ Sink' = x
           /\ \A o \in {"file", "stdout"} : sinks'[o] = x \/ sinks'[o] = sinks[o]
           /\ x \in Reports \cup {None, Partial} =>
                sinks' \in [{"file", "stdout"} -> Reports \cup {None, Partial}]
<1>1. command.output \in {"file", "stdout"}
  BY DEF IInv, Types
<1>2. sinks \in [{"file", "stdout"} -> Reports \cup {None, Partial}]
  BY DEF IInv, Types
<1> QED BY <1>1, <1>2 DEF Sink

LEMMA OpenStep ==
    ASSUME IInv, Open
    PROVE  IInv'
<1>1. /\ pc = "open" /\ report # None /\ exit = None
      /\ UNCHANGED <<command, producer, run, bytes, at, cases, report>>
  BY DEF Open, IInv, AtControl, ExitIsTrue
<1>2. CASE Exit(1) /\ UNCHANGED sinks
  BY <1>1, <1>2, EndedWithoutReport
<1>3. CASE /\ sinks' = [sinks EXCEPT ![command.output] = Partial]
           /\ pc' = "write" /\ UNCHANGED exit
  <2>1. /\ Sink' = Partial
        /\ \A o \in {"file", "stdout"} : sinks'[o] = Partial \/ sinks'[o] = sinks[o]
        /\ sinks' \in [{"file", "stdout"} -> Reports \cup {None, Partial}]
    BY <1>1, <1>3, SetSink
  <2>2. Types'
    BY <1>1, <1>3, <2>1 DEF IInv, Types, producer, Controls
  <2>3. AtControl'
    BY <1>1, <1>3, <2>1 DEF AtControl
  <2>4. NothingEarly'
    BY <1>1, <2>1 DEF IInv, NothingEarly
  <2>5. ExitIsTrue'
    BY <1>1, <1>3 DEF ExitIsTrue
  <2>6. ReportIsTrue' /\ OnlyWholeCasesAudited'
    BY <1>1, SameRows DEF IInv, ReportIsTrue, OnlyWholeCasesAudited
  <2> QED BY <2>2, <2>3, <2>4, <2>5, <2>6 DEF IInv
<1> QED BY <1>2, <1>3 DEF Open

LEMMA WriteStep ==
    ASSUME IInv, Write
    PROVE  IInv'
<1>1. /\ pc = "write" /\ report # None /\ exit = None
      /\ UNCHANGED <<command, producer, run, bytes, at, cases, report>>
  BY DEF Write, IInv, AtControl, ExitIsTrue
<1>2. CASE Exit(1) /\ UNCHANGED sinks
  BY <1>1, <1>2, EndedWithoutReport
<1>3. CASE /\ sinks' = [sinks EXCEPT ![command.output] = report]
           /\ Exit(IF report.failed = 0 THEN 0 ELSE 2)
  <2>1. /\ pc' = "ended" /\ exit' \in {0, 2}
        /\ exit' = 0 <=> report.failed = 0
    BY <1>3 DEF Exit
  <2>2. report \in Reports /\ report.run = run /\ run \in Nat
    BY <1>1 DEF IInv, Types, ReportIsTrue
  <2>3. /\ Sink' = report
        /\ \A o \in {"file", "stdout"} : sinks'[o] = report \/ sinks'[o] = sinks[o]
        /\ sinks' \in [{"file", "stdout"} -> Reports \cup {None, Partial}]
    BY <1>1, <1>3, <2>2, SetSink
  <2>4. Types'
    BY <1>1, <2>1, <2>3 DEF IInv, Types, producer, Controls
  <2>5. AtControl'
    BY <2>1 DEF AtControl
  <2>6. NothingEarly'
    BY <1>1, <2>1, <2>2, <2>3 DEF IInv, NothingEarly
  <2>7. ExitIsTrue'
    BY <1>1, <2>1, <2>3 DEF ExitIsTrue
  <2>8. ReportIsTrue' /\ OnlyWholeCasesAudited'
    BY <1>1, SameRows DEF IInv, ReportIsTrue, OnlyWholeCasesAudited
  <2> QED BY <2>4, <2>5, <2>6, <2>7, <2>8 DEF IInv
<1> QED BY <1>2, <1>3 DEF Write

(* What another run finds in the file is of an earlier one. *)
LEMMA RerunStep ==
    ASSUME IInv, Rerun
    PROVE  IInv'
<1>1. /\ pc' = "start" /\ bytes' = <<>> /\ at' = 1 /\ cases' = <<>>
      /\ report' = None /\ exit' = None /\ run' = run + 1
      /\ sinks' = [sinks EXCEPT !.stdout = None]
      /\ UNCHANGED <<command, producer>>
  BY DEF Rerun
<1>2. /\ run \in Nat /\ command.output \in {"file", "stdout"}
      /\ sinks \in [{"file", "stdout"} -> Reports \cup {None, Partial}]
  BY DEF IInv, Types
<1>3. /\ sinks' \in [{"file", "stdout"} -> Reports \cup {None, Partial}]
      /\ \A o \in {"file", "stdout"} : sinks'[o] = None \/ sinks'[o] = sinks[o]
  BY <1>1, <1>2
<1>4. Types'
  <2>1. bytes' \in Seq(Row) /\ Len(bytes') = 0 /\ cases' \in Seq({"pass", "fail"})
    BY <1>1
  <2>2. at' \in Nat \ {0} /\ at' <= Len(bytes') + 1 /\ run' \in Nat \ {0}
    BY <1>1, <1>2, <2>1
  <2> QED BY <1>1, <1>3, <2>1, <2>2 DEF IInv, Types, producer, Controls
<1>5. AtControl'
  BY <1>1 DEF AtControl
<1>6. NothingEarly'
  <2>1. \A o \in {"file", "stdout"} :
          \/ sinks'[o] \in {None, Partial}
          \/ sinks'[o] \in Reports /\ sinks'[o].run <= run
    BY <1>2, <1>3 DEF IInv, NothingEarly
  <2>2. \A o \in {"file", "stdout"} : sinks'[o] \in Reports => sinks'[o].run \in Nat
    BY DEF Reports
  <2> QED BY <1>1, <1>2, <2>1, <2>2 DEF NothingEarly, Sink
<1>7. ExitIsTrue' /\ ReportIsTrue' /\ OnlyWholeCasesAudited'
  BY <1>1 DEF ExitIsTrue, ReportIsTrue, OnlyWholeCasesAudited
<1> QED BY <1>4, <1>5, <1>6, <1>7 DEF IInv

LEMMA NextIInv == IInv /\ [Next]_vars => IInv'
<1> SUFFICES ASSUME IInv, [Next]_vars PROVE IInv'
  OBVIOUS
<1>1. CASE BeginRow \/ EndRow \/ Close \/ RemoveInput
  BY <1>1, ProducerStep
<1>2. CASE Stat
  BY <1>2, StatStep
<1>3. CASE ReadPath \/ ReadStdin
  BY <1>3, ReadStep
<1>4. CASE ReadRow
  BY <1>4, ReadRowStep
<1>5. CASE EndRows
  BY <1>5, EndRowsStep
<1>6. CASE Audit
  BY <1>6, AuditStep
<1>7. CASE Open
  BY <1>7, OpenStep
<1>8. CASE Write
  BY <1>8, WriteStep
<1>9. CASE Kill
  BY <1>9, KillStep
<1>10. CASE Rerun
  BY <1>10, RerunStep
<1>11. CASE UNCHANGED vars
  <2>1. UNCHANGED <<command, written, left, torn, sinks, run, pc, bytes, at, cases, report, exit>>
    BY <1>11 DEF vars, producer, process
  <2>2. UNCHANGED <<Filled, Failing, Sink>>
    BY <2>1, SameRows DEF Sink
  <2>3. Types' /\ NothingEarly' /\ ExitIsTrue' /\ ReportIsTrue' /\ OnlyWholeCasesAudited'
    BY <2>1, <2>2 DEF IInv, Types, NothingEarly, ExitIsTrue, ReportIsTrue, OnlyWholeCasesAudited
  <2>4. AtControl'
    BY <2>1, <2>2 DEF IInv, AtControl, CasesAreRows, FilledTo, FailingTo, FailedCases
  <2> QED BY <2>3, <2>4 DEF IInv
<1> QED BY <1>1, <1>2, <1>3, <1>4, <1>5, <1>6, <1>7, <1>8, <1>9, <1>10, <1>11 DEF Next, Step

LEMMA Invariance == Spec => []IInv
  BY InitIInv, NextIInv, PTL DEF Spec

-----------------------------------------------------------------------------
(***************************************************************************)
(* The theorems.                                                           *)
(***************************************************************************)

(* main: an exit of 0 or 2 comes with the whole report of this run about   *)
(* all rows that were read, and an exit of 1 with none of it, whatever the *)
(* producer, the kills and the earlier runs do.                            *)
THEOREM ExitsAreTrue == Spec => []ExitTellsVerdict
<1>1. IInv => ExitTellsVerdict
  <2> SUFFICES ASSUME IInv PROVE ExitTellsVerdict
    OBVIOUS
  <2>1. CASE exit \in {0, 2}
    <3>1. Failing = {} <=> Cardinality(Failing) = 0
      BY FilledFinite DEF IInv, Types
    <3>2. report = [run |-> run, total |-> Cardinality(Filled), failed |-> Cardinality(Failing)]
      BY <2>1 DEF IInv, ReportIsTrue, ExitIsTrue
    <3> QED BY <2>1, <3>1, <3>2 DEF IInv, ExitIsTrue, ExitTellsVerdict
  <2>2. CASE exit \notin {0, 2}
    BY <2>2 DEF IInv, ExitIsTrue, ExitTellsVerdict
  <2> QED BY <2>1, <2>2
<1> QED BY <1>1, Invariance, PTL

(* audit-batch and the single-case commands: no report is made of a row    *)
(* that was cut off, of an empty batch, or of rows past the limits.        *)
THEOREM ReportsAreOfWholeCases == Spec => []OnlyWholeCasesAudited
  BY Invariance, PTL DEF IInv

(* write_json: the output file changes only when this run has a report, so *)
(* a run that fails on its input leaves the earlier report as it was.      *)
THEOREM OutputIsLeftAlone == Spec => OutputOnlyFromReport
<1>1. IInv /\ [Next]_vars => [sinks'.file # sinks.file => report # None]_vars
  <2> SUFFICES ASSUME IInv, Next, sinks'.file # sinks.file
               PROVE  report # None
    OBVIOUS
  <2>1. sinks \in [{"file", "stdout"} -> Reports \cup {None, Partial}]
    BY DEF IInv, Types
  <2>2. pc \in {"open", "write"}
    <3>1. CASE BeginRow \/ EndRow \/ Close \/ RemoveInput
      BY <3>1 DEF BeginRow, EndRow, Close, RemoveInput
    <3>2. CASE Stat \/ ReadPath \/ ReadStdin \/ ReadRow
      BY <3>2 DEF Stat, ReadPath, ReadStdin, ReadRow
    <3>3. CASE EndRows \/ Audit \/ Kill
      BY <3>3 DEF EndRows, Audit, Kill
    <3>4. CASE Open \/ Write
      BY <3>4 DEF Open, Write
    <3>5. CASE Rerun
      BY <2>1, <3>5 DEF Rerun
    <3> QED BY <3>1, <3>2, <3>3, <3>4, <3>5 DEF Next, Step
  <2> QED BY <2>2 DEF IInv, AtControl
<1> QED BY <1>1, Invariance, PTL DEF Spec, OutputOnlyFromReport
=============================================================================
