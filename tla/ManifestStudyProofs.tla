------------------------ MODULE ManifestStudyProofs ------------------------
(***************************************************************************)
(* ManifestStudy for any number of adapters and any binaries: the output   *)
(* directory is all or nothing, and the adapter that published owns it.    *)
(*                                                                         *)
(* None of the properties is inductive: they speak of the output, which is *)
(* what some adapter had staged.  Local says what the staging directory of *)
(* an adapter holds at each label; Shared says the same of the output and  *)
(* of the adapters that ended at the rename.                               *)
(***************************************************************************)
EXTENDS ManifestStudy, SequenceTheorems, TLAPS

Labels == {"check", "verify", "stage", "cases", "reports", "summary",
           "rename", "cleanup", "ended"}

(* The unfinished studies, by the last file written *)
OneCase == <<ForwardCase>>
BothCases == <<ForwardCase, ReverseCase>>
OneReport(b) == <<ForwardCase, ReverseCase, Report(b, ForwardCase)>>
ReportsOf(b) == <<ForwardCase, ReverseCase, Report(b, ForwardCase), Report(b, ReverseCase)>>

Drafts(b) == {<<>>, OneCase, BothCases, OneReport(b), ReportsOf(b), Study}

Typed ==
    /\ binary \in [Adapters -> Binaries] /\ source \in [Adapters -> BOOLEAN]
    /\ pc \in [Adapters -> Labels]
    /\ temporary \in [Adapters -> BOOLEAN]
    /\ message \in [Adapters -> Ends \cup {None}]
    /\ DOMAIN staging = Adapters

(* What the labels of p tell of its checkout, binary and staging directory *)
Local(p) ==
    /\ staging[p] = None \/ (temporary[p] /\ staging[p] \in Drafts(binary[p]))
    /\ pc[p] = "stage" => source[p]
    /\ pc[p] = "cases" => source[p] /\ temporary[p] /\ staging[p] \in {<<>>, OneCase}
    /\ pc[p] = "reports" =>
         /\ source[p] /\ temporary[p]
         /\ \/ staging[p] = BothCases
            \/ staging[p] = OneReport(binary[p]) /\ Registered(binary[p])
            \/ staging[p] = ReportsOf(binary[p]) /\ Registered(binary[p])
    /\ pc[p] = "summary" =>
         /\ source[p] /\ temporary[p] /\ Registered(binary[p])
         /\ staging[p] = ReportsOf(binary[p]) /\ SurvivorsMatch(staging[p])
    /\ pc[p] = "rename" =>
         source[p] /\ temporary[p] /\ Registered(binary[p]) /\ staging[p] = Study
    /\ pc[p] \in {"cleanup", "ended"} => message[p] # None
    /\ pc[p] = "ended" /\ message[p] \notin {"killed", "cleanup"} => ~temporary[p]

Published == [by : Adapters, files : {Study}]

Shared ==
    /\ output \in Published \cup {None, EmptyByOther}
    /\ output \in Published => Registered(binary[output.by]) /\ source[output.by]
    /\ \A p \in Adapters :
         /\ message[p] = "published" => output = [by |-> p, files |-> Study]
         /\ message[p] = "rename" => output \in Published

IInv == Typed /\ (\A p \in Adapters : Local(p)) /\ Shared

-----------------------------------------------------------------------------
(* Directories *)

(* A sequence one longer than s that begins like s is an append to s. *)
LEMMA AppendIs ==
    ASSUME NEW S, NEW s \in Seq(S), NEW e \in S, NEW t \in Seq(S),
           Len(t) = Len(s) + 1, t[Len(t)] = e, \A i \in 1 .. Len(s) : t[i] = s[i]
    PROVE  Append(s, e) = t
<1>1. Append(s, e) \in Seq(S) /\ Len(Append(s, e)) = Len(t)
  BY AppendProperties
<1>2. ASSUME NEW i \in 1 .. Len(t) PROVE Append(s, e)[i] = t[i]
  <2>1. CASE i = Len(t)
    BY <2>1, AppendProperties
  <2>2. CASE i # Len(t)
    <3>1. i \in 1 .. Len(s)
      BY <2>2, LenProperties
    <3> QED BY <3>1, AppendProperties
  <2> QED BY <2>1, <2>2
<1> QED BY <1>1, <1>2, SeqEqual

(* Its instances for the files of a directory, one after the other *)
LEMMA Append1 ==
    ASSUME NEW v, NEW w
    PROVE  Append(<<v>>, w) = <<v, w>>
<1> DEFINE T == {v, w}
           s == <<v>>
           t == <<v, w>>
<1>1. s \in Seq(T) /\ t \in Seq(T) /\ w \in T
  OBVIOUS
<1>2. Len(s) = 1 /\ Len(t) = 2 /\ t[1] = s[1] /\ t[2] = w
  OBVIOUS
<1> HIDE DEF T, s, t
<1>3. \A i \in 1 .. Len(s) : t[i] = s[i]
  BY <1>2
<1>4. Len(t) = Len(s) + 1 /\ t[Len(t)] = w
  BY <1>2
<1>5. Append(s, w) = t
  BY <1>1, <1>3, <1>4, AppendIs, Zenon
<1> QED BY <1>5 DEF s, t

LEMMA Append2 ==
    ASSUME NEW v, NEW w, NEW x
    PROVE  Append(<<v, w>>, x) = <<v, w, x>>
<1> DEFINE T == {v, w, x}
           s == <<v, w>>
           t == <<v, w, x>>
<1>1. s \in Seq(T) /\ t \in Seq(T) /\ x \in T
  OBVIOUS
<1>2. Len(s) = 2 /\ Len(t) = 3 /\ t[1] = s[1] /\ t[2] = s[2] /\ t[3] = x
  OBVIOUS
<1> HIDE DEF T, s, t
<1>3. \A i \in 1 .. Len(s) : t[i] = s[i]
  BY <1>2
<1>4. Len(t) = Len(s) + 1 /\ t[Len(t)] = x
  BY <1>2
<1>5. Append(s, x) = t
  BY <1>1, <1>3, <1>4, AppendIs, Zenon
<1> QED BY <1>5 DEF s, t

LEMMA Append3 ==
    ASSUME NEW v, NEW w, NEW x, NEW y
    PROVE  Append(<<v, w, x>>, y) = <<v, w, x, y>>
<1> DEFINE T == {v, w, x, y}
           s == <<v, w, x>>
           t == <<v, w, x, y>>
<1>1. s \in Seq(T) /\ t \in Seq(T) /\ y \in T
  OBVIOUS
<1>2. Len(s) = 3 /\ Len(t) = 4 /\ t[1] = s[1] /\ t[2] = s[2] /\ t[3] = s[3] /\ t[4] = y
  OBVIOUS
<1> HIDE DEF T, s, t
<1>3. \A i \in 1 .. Len(s) : t[i] = s[i]
  BY <1>2
<1>4. Len(t) = Len(s) + 1 /\ t[Len(t)] = y
  BY <1>2
<1>5. Append(s, y) = t
  BY <1>1, <1>3, <1>4, AppendIs, Zenon
<1> QED BY <1>5 DEF s, t

LEMMA Append4 ==
    ASSUME NEW v, NEW w, NEW x, NEW y, NEW z
    PROVE  Append(<<v, w, x, y>>, z) = <<v, w, x, y, z>>
<1> DEFINE T == {v, w, x, y, z}
           s == <<v, w, x, y>>
           t == <<v, w, x, y, z>>
<1>1. s \in Seq(T) /\ t \in Seq(T) /\ z \in T
  OBVIOUS
<1>2. Len(s) = 4 /\ Len(t) = 5 /\ t[1] = s[1] /\ t[2] = s[2] /\ t[3] = s[3] /\ t[4] = s[4] /\ t[5] = z
  OBVIOUS
<1> HIDE DEF T, s, t
<1>3. \A i \in 1 .. Len(s) : t[i] = s[i]
  BY <1>2
<1>4. Len(t) = Len(s) + 1 /\ t[Len(t)] = z
  BY <1>2
<1>5. Append(s, z) = t
  BY <1>1, <1>3, <1>4, AppendIs, Zenon
<1> QED BY <1>5 DEF s, t

(* The lengths of what can be staged, and the case a report is due on *)
LEMMA Lengths ==
    ASSUME NEW b
    PROVE  /\ Len(<<>>) = 0 /\ Len(OneCase) = 1 /\ Len(BothCases) = 2
           /\ Len(OneReport(b)) = 3 /\ Len(ReportsOf(b)) = 4 /\ Len(Study) = 5
           /\ BothCases[1] = ForwardCase /\ OneReport(b)[2] = ReverseCase
           /\ OneCase # <<>>
BY DEF OneCase, BothCases, OneReport, ReportsOf, Study

(* The appends of the adapter, up to the reports *)
LEMMA Appends ==
    ASSUME NEW b
    PROVE  /\ Append(<<>>, ForwardCase) = OneCase
           /\ Append(OneCase, ReverseCase) = BothCases
           /\ Append(BothCases, Report(b, ForwardCase)) = OneReport(b)
           /\ Append(OneReport(b), Report(b, ReverseCase)) = ReportsOf(b)
<1>1. Append(<<>>, ForwardCase) = OneCase
  BY DEF OneCase
<1>2. Append(OneCase, ReverseCase) = BothCases
  BY Append1, Zenon DEF OneCase, BothCases
<1>3. Append(BothCases, Report(b, ForwardCase)) = OneReport(b)
  BY Append2, Zenon DEF BothCases, OneReport
<1>4. Append(OneReport(b), Report(b, ReverseCase)) = ReportsOf(b)
  BY Append3, Zenon DEF OneReport, ReportsOf
<1> QED BY <1>1, <1>2, <1>3, <1>4

(* Reports that pass the survivor check are those of the finished study. *)
LEMMA MatchingReports ==
    ASSUME NEW b, SurvivorsMatch(ReportsOf(b))
    PROVE  Append(ReportsOf(b), Summary) = Study
<1>1. Last(ForwardCase) = "second" /\ Last(ReverseCase) = "first"
  BY DEF Last, ForwardCase, ReverseCase
<1>2. Report(b, ForwardCase) = [kept |-> "second"]
  BY <1>1 DEF SurvivorsMatch, Survivor, ReportsOf, Report
<1>3. Report(b, ReverseCase) = [kept |-> "first"]
  BY <1>1 DEF SurvivorsMatch, Survivor, ReportsOf, Report
<1>5. Append(<<ForwardCase, ReverseCase, [kept |-> "second"], [kept |-> "first"]>>, Summary)
        = Study
  BY Append4, Zenon DEF Study
<1>6. ReportsOf(b) = <<ForwardCase, ReverseCase, [kept |-> "second"], [kept |-> "first"]>>
  BY <1>2, <1>3, Zenon DEF ReportsOf
<1> QED BY <1>5, <1>6, Zenon

(* A published directory is neither absent nor the empty one. *)
LEMMA PublishedIsNeither ==
    ASSUME NEW d \in Published PROVE d \notin {None, EmptyByOther}
<1>1. d # None BY NoneAssumption DEF Published
<1>2. Study # <<>> BY DEF Study
<1>3. d.files # EmptyByOther.files BY <1>2 DEF Published, EmptyByOther
<1> QED BY <1>1, <1>3

-----------------------------------------------------------------------------
(* One step *)

(* What a step of one adapter leaves alone of another *)
Frame(q) == /\ pc'[q] = pc[q] /\ staging'[q] = staging[q]
            /\ temporary'[q] = temporary[q] /\ message'[q] = message[q]

LEMMA LocalKept ==
    ASSUME NEW q \in Adapters, Local(q), Frame(q), UNCHANGED arguments
    PROVE  Local(q)'
BY DEF Local, Frame, arguments

(* The output and the outcomes at the rename, when a step changes neither *)
LEMMA SharedKept ==
    ASSUME Shared, UNCHANGED <<arguments, output>>,
           \A q \in Adapters : message'[q] = message[q] \/ message'[q] \notin {"published", "rename"}
    PROVE  Shared'
BY DEF Shared, Published, arguments

LEMMA Combine ==
    ASSUME IInv, NEW p \in Adapters, UNCHANGED arguments,
           Typed', Local(p)', Shared', \A q \in Adapters \ {p} : Frame(q)
    PROVE  IInv'
<1>1. ASSUME NEW q \in Adapters PROVE Local(q)'
  BY LocalKept, q = p \/ q # p DEF IInv
<1> QED BY <1>1 DEF IInv

(* Every step of an adapter preserves the invariant. *)
LEMMA StepInductive ==
    ASSUME IInv, NEW p \in Adapters, Step(p) \/ Kill(p)
    PROVE  IInv'
<1> USE DEF IInv, Fail, Abort, Goto
<1>1. CASE CheckAbsent(p)
  <2>1. Typed' /\ UNCHANGED <<arguments, output>>
    BY <1>1 DEF CheckAbsent, Typed, Labels, Ends, arguments
  <2>2. \A q \in Adapters \ {p} : Frame(q)
    BY <1>1 DEF CheckAbsent, Typed, Frame
  <2>3. Local(p)'
    BY <1>1, NoneAssumption DEF CheckAbsent, Typed, Local, Labels, Ends, arguments
  <2>4. \A q \in Adapters : message'[q] = message[q] \/ message'[q] \notin {"published", "rename"}
    BY <1>1, <2>2 DEF CheckAbsent, Typed, Frame
  <2> QED BY <2>1, <2>2, <2>3, <2>4, SharedKept, Combine DEF IInv
<1>2. CASE VerifySource(p)
  <2>1. Typed' /\ UNCHANGED <<arguments, output>>
    BY <1>2 DEF VerifySource, Typed, Labels, Ends, arguments
  <2>2. \A q \in Adapters \ {p} : Frame(q)
    BY <1>2 DEF VerifySource, Typed, Frame
  <2>3. Local(p)'
    BY <1>2, NoneAssumption DEF VerifySource, Typed, Local, Labels, Ends, arguments
  <2>4. \A q \in Adapters : message'[q] = message[q] \/ message'[q] \notin {"published", "rename"}
    BY <1>2, <2>2 DEF VerifySource, Typed, Frame
  <2> QED BY <2>1, <2>2, <2>3, <2>4, SharedKept, Combine DEF IInv
<1>3. CASE Stage(p)
  <2>1. Typed' /\ UNCHANGED <<arguments, output>>
    BY <1>3 DEF Stage, Typed, Labels, Ends, arguments
  <2>2. \A q \in Adapters \ {p} : Frame(q)
    BY <1>3 DEF Stage, Typed, Frame
  <2>3. Local(p)'
    BY <1>3, NoneAssumption DEF Stage, Typed, Local, Labels, Ends, arguments, Drafts
  <2>4. \A q \in Adapters : message'[q] = message[q] \/ message'[q] \notin {"published", "rename"}
    BY <1>3, <2>2 DEF Stage, Typed, Frame
  <2> QED BY <2>1, <2>2, <2>3, <2>4, SharedKept, Combine DEF IInv
<1>4. CASE WriteCase(p)
  <2>1. Typed' /\ UNCHANGED <<arguments, output>>
    BY <1>4 DEF WriteCase, Typed, Labels, Ends, arguments, WriteFile
  <2>2. \A q \in Adapters \ {p} : Frame(q)
    BY <1>4 DEF WriteCase, Typed, Frame, WriteFile
  <2>3. Local(p)'
    <3>1. /\ source'[p] /\ temporary'[p] /\ binary'[p] = binary[p]
          /\ staging[p] \in {<<>>, OneCase}
      BY <1>4 DEF WriteCase, Local, arguments
    <3>2. OneCase # <<>>
      BY DEF OneCase
    <3>3. CASE staging[p] = <<>> /\ staging'[p] = OneCase /\ pc'[p] = "cases"
      BY <3>1, <3>3, Zenon DEF Local, Drafts
    <3>4. CASE staging[p] = OneCase /\ staging'[p] = BothCases /\ pc'[p] = "reports"
      BY <3>1, <3>4, Zenon DEF Local, Drafts
    <3>5. CASE staging'[p] = staging[p] /\ pc'[p] = "cleanup" /\ message'[p] = "io"
      BY <2>1, <3>1, <3>5, NoneAssumption DEF Local, Ends, Drafts
    <3>6. CASE WriteFile(p, IF staging[p] = <<>> THEN ForwardCase ELSE ReverseCase)
               /\ Goto(p, IF staging[p] = <<>> THEN "cases" ELSE "reports")
      <4>1. /\ staging'[p] = Append(staging[p], IF staging[p] = <<>> THEN ForwardCase ELSE ReverseCase)
            /\ pc'[p] = IF staging[p] = <<>> THEN "cases" ELSE "reports"
        BY <3>6 DEF WriteFile, Typed
      <4> QED BY <3>1, <3>2, <3>3, <3>4, <4>1, Appends, Zenon
    <3>7. CASE Fail(p, "io") /\ UNCHANGED staging
      BY <1>4, <3>1, <3>5, <3>7 DEF WriteCase, Typed, Local
    <3> QED BY <1>4, <3>6, <3>7 DEF WriteCase
  <2>4. \A q \in Adapters : message'[q] = message[q] \/ message'[q] \notin {"published", "rename"}
    BY <1>4, <2>2 DEF WriteCase, Typed, Frame, WriteFile
  <2> QED BY <2>1, <2>2, <2>3, <2>4, SharedKept, Combine DEF IInv
<1>5. CASE RunEvalfence(p)
  <2>1. Typed' /\ UNCHANGED <<arguments, output>>
    BY <1>5 DEF RunEvalfence, Typed, Labels, Ends, arguments, WriteFile
  <2>2. \A q \in Adapters \ {p} : Frame(q)
    BY <1>5 DEF RunEvalfence, Typed, Frame, WriteFile
  <2>3. Local(p)'
    <3> DEFINE b == binary[p]
    <3>1. /\ source'[p] /\ temporary'[p] /\ binary'[p] = b
          /\ \/ staging[p] = BothCases \/ staging[p] = OneReport(b)
             \/ staging[p] = ReportsOf(b)
      BY <1>5 DEF RunEvalfence, Local, arguments
    <3>2. Len(staging[p]) < 4
      BY <1>5 DEF RunEvalfence
    <3> DEFINE Written == staging'[p] = Append(staging[p], Report(b, staging[p][Len(staging[p]) - 1]))
    <3>3. ASSUME Written
          PROVE
          \/ staging[p] = BothCases /\ staging'[p] = OneReport(b)
          \/ staging[p] = OneReport(b) /\ staging'[p] = ReportsOf(b)
      <4>1. CASE staging[p] = BothCases
        <5>1. staging[p][Len(staging[p]) - 1] = ForwardCase
          BY <4>1 DEF BothCases
        <5> QED BY <3>3, <4>1, <5>1, Appends, Zenon
      <4>2. CASE staging[p] = OneReport(b)
        <5>1. staging[p][Len(staging[p]) - 1] = ReverseCase
          BY <4>2 DEF OneReport
        <5> QED BY <3>3, <4>2, <5>1, Appends, Zenon
      <4>3. staging[p] # ReportsOf(b)
        <5>1. Len(ReportsOf(b)) = 4 /\ ~(4 < 4)
          BY Lengths
        <5> QED BY <3>2, <5>1, Zenon
      <4> QED BY <3>1, <4>1, <4>2, <4>3
    <3>4. ASSUME Written PROVE staging'[p] \in Drafts(b)
      BY <3>3, <3>4, Zenon DEF Drafts
    <3>5. CASE Written /\ Registered(b) /\ pc'[p] = "reports"
      <4>1. Registered(b)'
        BY <3>1, <3>5 DEF Registered
      <4> QED BY <3>1, <3>3, <3>4, <4>1, <3>5, Zenon DEF Local
    <3>6. CASE Written /\ pc'[p] = "cleanup" /\ message'[p] = "binary"
      BY <2>1, <3>1, <3>4, <3>6, NoneAssumption DEF Local, Ends
    <3>7. CASE staging'[p] = staging[p] /\ pc'[p] = "cleanup" /\ message'[p] = "io"
      <4>1. staging'[p] \in Drafts(b)
        BY <3>1, <3>7, Zenon DEF Drafts
      <4> QED BY <2>1, <3>1, <3>7, <4>1, NoneAssumption DEF Local, Ends
    <3>8. temporary[p]
      BY <1>5 DEF RunEvalfence, Local
    <3>9. CASE WriteFile(p, Report(b, staging[p][Len(staging[p]) - 1]))
               /\ (IF Registered(b) THEN Goto(p, "reports") ELSE Fail(p, "binary"))
      <4>1. Written
        BY <3>9 DEF WriteFile, Typed
      <4> HIDE DEF Written
      <4> QED BY <1>5, <3>5, <3>6, <3>8, <3>9, <4>1 DEF RunEvalfence, Typed
    <3>10. CASE Fail(p, "io") /\ UNCHANGED staging
      BY <1>5, <3>7, <3>8, <3>10 DEF RunEvalfence, Typed
    <3> QED BY <1>5, <3>9, <3>10 DEF RunEvalfence
  <2>4. \A q \in Adapters : message'[q] = message[q] \/ message'[q] \notin {"published", "rename"}
    BY <1>5, <2>2 DEF RunEvalfence, Typed, Frame, WriteFile
  <2> QED BY <2>1, <2>2, <2>3, <2>4, SharedKept, Combine DEF IInv
<1>6. CASE CheckSurvivors(p)
  <2>1. Typed' /\ UNCHANGED <<arguments, output>>
    BY <1>6 DEF CheckSurvivors, Typed, Labels, Ends, arguments
  <2>2. \A q \in Adapters \ {p} : Frame(q)
    BY <1>6 DEF CheckSurvivors, Typed, Frame
  <2>3. Local(p)'
    <3>1. /\ source[p] /\ temporary[p] /\ Registered(binary[p])
          /\ staging[p] = ReportsOf(binary[p])
      <4>1. Len(BothCases) = 2 /\ Len(OneReport(binary[p])) = 3
        BY Lengths, Zenon
      <4>2. 2 # 4 /\ 3 # 4
        OBVIOUS
      <4>3. Len(BothCases) # 4 /\ Len(OneReport(binary[p])) # 4
        BY <4>1, <4>2, Zenon
      <4>4. pc[p] = "reports" /\ Len(staging[p]) = 4
        BY <1>6 DEF CheckSurvivors
      <4> QED BY <4>3, <4>4, Zenon DEF Local
    <3>2. staging'[p] = staging[p] /\ temporary'[p] = temporary[p]
      BY <1>6 DEF CheckSurvivors
    <3>3. CASE SurvivorsMatch(staging[p]) /\ pc'[p] = "summary"
      <4>1. SurvivorsMatch(staging[p])'
        BY <3>2, <3>3 DEF SurvivorsMatch
      <4> QED BY <2>1, <3>1, <3>2, <3>3, <4>1 DEF Local, arguments, Drafts
    <3>4. CASE pc'[p] = "cleanup" /\ message'[p] = "survivor"
      BY <2>1, <3>1, <3>2, <3>4, NoneAssumption DEF Local, arguments, Drafts, Ends
    <3> QED BY <1>6, <3>1, <3>3, <3>4 DEF CheckSurvivors, Typed
  <2>4. \A q \in Adapters : message'[q] = message[q] \/ message'[q] \notin {"published", "rename"}
    BY <1>6, <2>2 DEF CheckSurvivors, Typed, Frame
  <2> QED BY <2>1, <2>2, <2>3, <2>4, SharedKept, Combine DEF IInv
<1>7. CASE WriteSummary(p)
  <2>1. Typed' /\ UNCHANGED <<arguments, output>>
    BY <1>7 DEF WriteSummary, Typed, Labels, Ends, arguments, WriteFile
  <2>2. \A q \in Adapters \ {p} : Frame(q)
    BY <1>7 DEF WriteSummary, Typed, Frame, WriteFile
  <2>3. Local(p)'
    <3>1. /\ source[p] /\ temporary[p] /\ Registered(binary[p])
          /\ staging[p] = ReportsOf(binary[p]) /\ SurvivorsMatch(ReportsOf(binary[p]))
      BY <1>7 DEF WriteSummary, Local
    <3>2. Append(staging[p], Summary) = Study
      BY <3>1, MatchingReports, Zenon
    <3>3. CASE staging'[p] = Study /\ pc'[p] = "rename"
      BY <1>7, <2>1, <3>1, <3>3 DEF WriteSummary, Local, arguments, Drafts
    <3>4. CASE staging'[p] = staging[p] /\ pc'[p] = "cleanup" /\ message'[p] = "io"
      BY <1>7, <2>1, <3>1, <3>4, NoneAssumption DEF WriteSummary, Local, arguments, Drafts, Ends
    <3> QED BY <1>7, <3>1, <3>2, <3>3, <3>4 DEF WriteSummary, WriteFile, Typed
  <2>4. \A q \in Adapters : message'[q] = message[q] \/ message'[q] \notin {"published", "rename"}
    BY <1>7, <2>2 DEF WriteSummary, Typed, Frame, WriteFile
  <2> QED BY <2>1, <2>2, <2>3, <2>4, SharedKept, Combine DEF IInv
<1>8. CASE Rename(p)
  <2>1. Typed' /\ UNCHANGED arguments
    BY <1>8 DEF Rename, Typed, Labels, Ends, arguments
  <2>2. \A q \in Adapters \ {p} : Frame(q)
    BY <1>8 DEF Rename, Typed, Frame
  <2>3. Local(p)'
    BY <1>8, NoneAssumption DEF Rename, Typed, Local, Labels, Ends, arguments
  <2>4. Shared'
    <3>1. CASE Replaceable /\ output' = [by |-> p, files |-> staging[p]] /\ message'[p] = "published"
      <4>1. output' = [by |-> p, files |-> Study] /\ output' \in Published
        BY <1>8, <3>1 DEF Rename, Local, Published
      <4>2. Registered(binary[p]) /\ source[p]
        BY <1>8 DEF Rename, Local
      <4>3. output \notin Published
        BY <3>1, PublishedIsNeither DEF Replaceable
      <4>4. \A q \in Adapters \ {p} : message'[q] \notin {"published", "rename"}
        BY <2>2, <4>3 DEF Shared, Frame, Published
      <4> QED BY <2>1, <3>1, <4>1, <4>2, <4>4 DEF Shared, arguments
    <3>2. CASE ~Replaceable /\ UNCHANGED output /\ message'[p] = "rename"
      <4>1. output \in Published
        BY <3>2 DEF Shared, Replaceable
      <4> QED BY <2>1, <2>2, <3>2, <4>1 DEF Shared, Frame, arguments
    <3>3. CASE UNCHANGED output /\ message'[p] = "io"
      <4>1. \A q \in Adapters : message'[q] = message[q] \/ message'[q] \notin {"published", "rename"}
        BY <2>2, <3>3 DEF Frame
      <4> QED BY <2>1, <3>3, <4>1, SharedKept
    <3> QED BY <1>8, <3>1, <3>2, <3>3 DEF Rename, Typed
  <2> QED BY <2>1, <2>2, <2>3, <2>4, Combine
<1>9. CASE Cleanup(p)
  <2>1. Typed' /\ UNCHANGED <<arguments, output>>
    BY <1>9 DEF Cleanup, Typed, Labels, Ends, arguments
  <2>2. \A q \in Adapters \ {p} : Frame(q)
    BY <1>9 DEF Cleanup, Typed, Frame
  <2>3. Local(p)'
    BY <1>9, NoneAssumption DEF Cleanup, Typed, Local, Labels, Ends, arguments
  <2>4. \A q \in Adapters : message'[q] = message[q] \/ message'[q] \notin {"published", "rename"}
    BY <1>9, <2>2 DEF Cleanup, Typed, Frame
  <2> QED BY <2>1, <2>2, <2>3, <2>4, SharedKept, Combine DEF IInv
<1>10. CASE Kill(p)
  <2>1. Typed' /\ UNCHANGED <<arguments, output>>
    BY <1>10 DEF Kill, Typed, Labels, Ends, arguments
  <2>2. \A q \in Adapters \ {p} : Frame(q)
    BY <1>10 DEF Kill, Typed, Frame
  <2>3. Local(p)'
    BY <1>10, NoneAssumption DEF Kill, Typed, Local, Labels, Ends, arguments
  <2>4. \A q \in Adapters : message'[q] = message[q] \/ message'[q] \notin {"published", "rename"}
    BY <1>10, <2>2 DEF Kill, Typed, Frame
  <2> QED BY <2>1, <2>2, <2>3, <2>4, SharedKept, Combine DEF IInv
<1> QED BY <1>1, <1>2, <1>3, <1>4, <1>5, <1>6, <1>7, <1>8, <1>9, <1>10 DEF Step

(* A directory made by another process disturbs no adapter. *)
LEMMA MakeOutputInductive == IInv /\ MakeOutput => IInv'
<1> SUFFICES ASSUME IInv, MakeOutput PROVE IInv'
  OBVIOUS
<1>1. Typed' /\ UNCHANGED arguments
  BY DEF IInv, MakeOutput, Typed, arguments
<1>2. \A p \in Adapters : Local(p)'
  <2> TAKE p \in Adapters
  <2>1. Frame(p) /\ UNCHANGED arguments
    BY DEF MakeOutput, Frame, arguments
  <2> QED BY <2>1, LocalKept DEF IInv
<1>3. output \notin Published
  BY PublishedIsNeither DEF MakeOutput
<1>4. Shared'
  <2>1. \A p \in Adapters : message[p] \notin {"published", "rename"}
    BY <1>3 DEF IInv, Shared, Published
  <2>2. output' \notin Published
    BY PublishedIsNeither DEF MakeOutput
  <2> QED BY <2>1, <2>2 DEF MakeOutput, Shared
<1> QED BY <1>1, <1>2, <1>4 DEF IInv

LEMMA InitInductive == Init => IInv
<1> SUFFICES ASSUME Init PROVE IInv
  OBVIOUS
<1>1. Typed
  BY DEF Init, Typed, Labels
<1>2. ASSUME NEW p \in Adapters PROVE Local(p)
  BY DEF Init, Local
<1>3. output \notin Published
  BY PublishedIsNeither DEF Init
<1>4. Shared
  BY <1>3, NoneAssumption DEF Init, Shared, Ends
<1> QED BY <1>1, <1>2, <1>4 DEF IInv

(* The invariant holds of every execution. *)
THEOREM Invariance == Spec => []IInv
<1>1. Init => IInv
  BY InitInductive
<1>2. IInv /\ [Next]_vars => IInv'
  <2> SUFFICES ASSUME IInv, [Next]_vars PROVE IInv'
    OBVIOUS
  <2>1. CASE MakeOutput
    BY <2>1, MakeOutputInductive
  <2>2. ASSUME NEW p \in Adapters, Step(p) \/ Kill(p) PROVE IInv'
    BY <2>2, StepInductive
  <2>3. CASE UNCHANGED vars
    <3>1. Typed' /\ UNCHANGED <<arguments, output>>
      BY <2>3 DEF vars, arguments, IInv, Typed
    <3>2. \A p \in Adapters : Local(p)'
      <4> TAKE p \in Adapters
      <4>1. Frame(p)
        BY <2>3 DEF vars, Frame
      <4> QED BY <3>1, <4>1, LocalKept DEF IInv
    <3>3. Shared'
      BY <2>3, <3>1, SharedKept DEF vars, IInv
    <3> QED BY <3>1, <3>2, <3>3 DEF IInv
  <2> QED BY <2>1, <2>2, <2>3 DEF Next
<1> QED BY <1>1, <1>2, PTL DEF Spec

(* Every state is of its type, and what is staged is never more than five  *)
(* files, and exactly five when the adapter gets to the rename.            *)
THEOREM TypeCorrect == Spec => []TypeOK
<1>1. IInv => TypeOK
  <2> SUFFICES ASSUME IInv PROVE TypeOK
    OBVIOUS
  <2>1. ASSUME NEW p \in Adapters
        PROVE  /\ staging[p] # None => temporary[p] /\ Len(staging[p]) \in 0 .. 5
               /\ pc[p] = "ended" => message[p] # None
               /\ pc[p] = "rename" => Len(staging[p]) = 5
    <3>1. Local(p)
      BY DEF IInv
    <3>2. \A d \in Drafts(binary[p]) : Len(d) \in 0 .. 5
      BY Lengths DEF Drafts
    <3>3. Len(Study) = 5
      BY Lengths
    <3> QED BY <3>1, <3>2, <3>3 DEF Local
  <2> QED BY <2>1 DEF IInv, Typed, Labels, TypeOK
<1> QED BY <1>1, Invariance, PTL

(* For any number of adapters, killed or failing at any step, the output   *)
(* directory is absent, empty or one complete, verified study.             *)
THEOREM OutputAllOrNothing == Spec => []AllOrNothing
<1>1. IInv => AllOrNothing
  BY DEF IInv, Shared, Published, AllOrNothing
<1> QED BY <1>1, Invariance, PTL

(* An adapter that has published owns the output directory from then on,   *)
(* although the check for absence and the rename are not one step.         *)
THEOREM Ownership == Spec => []WinnerOwnsOutput
<1>1. IInv => WinnerOwnsOutput
  BY DEF IInv, Shared, WinnerOwnsOutput
<1> QED BY <1>1, Invariance, PTL

(* An adapter loses the rename to nothing but another one's study. *)
THEOREM RacesHaveAWinner == Spec => []LosesToAPublication
<1>1. IInv => LosesToAPublication
  BY DEF IInv, Shared, Published, LosesToAPublication
<1> QED BY <1>1, Invariance, PTL

(* Every end but a kill or an I/O error has removed the temporary files. *)
THEOREM EndsClean == Spec => []NothingLeftBehind
<1>1. IInv => NothingLeftBehind
  BY DEF IInv, Local, NothingLeftBehind
<1> QED BY <1>1, Invariance, PTL
=============================================================================
