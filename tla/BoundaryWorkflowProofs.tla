----------------------- MODULE BoundaryWorkflowProofs -----------------------
(***************************************************************************)
(* BoundaryStudy for any number of processes and any builds: the three     *)
(* files are never torn but for the report, and the verifier passes the    *)
(* registered study only.  Then the job of BoundaryWorkflow for any        *)
(* builds: what it uploads is vetted, and a green job has uploaded the     *)
(* registered study.                                                       *)
(*                                                                         *)
(* IInv follows every process by its program: Typed says which labels      *)
(* belong to which program and that the files it has still to write or     *)
(* read are names, so that what it has read is of the type of the disk;    *)
(* Local says that a verifier that passed had read a verified study.       *)
(*                                                                         *)
(* IInv holds of the job too, since every step of it is one of             *)
(* BoundaryStudy.  The job has the disk to itself, so JInv can say more:   *)
(* what the current program has read is what is on disk, and a verdict     *)
(* once reached stays true of the disk, because only the first two steps   *)
(* write.                                                                  *)
(***************************************************************************)
EXTENDS BoundaryWorkflow, SequenceTheorems, TLAPS

-----------------------------------------------------------------------------
(* Any number of processes *)

Reports == {ReportOf(c) : c \in CasesBuilt}
Contents == CasesBuilt \cup SummariesBuilt \cup Reports \cup {Partial, None}

(* Whole cases and summaries; the report may be cut off *)
Files == {f \in [Names -> Contents] :
            /\ f["case"] \in CasesBuilt \cup {None}
            /\ f["summary"] \in SummariesBuilt \cup {None}
            /\ f["report"] \in Reports \cup {Partial, None}}

Labels == {"build", "stage", "replace", "read", "judge", "open", "write", "ended"}
Codes == {None, 0, 1, 2, Killed}

Typed ==
    /\ disk \in Files
    /\ prog \in [Procs -> Programs \cup {None}]
    /\ pc \in [Procs -> Labels]
    /\ made \in [Procs -> Builds \cup {None}]
    /\ todo \in [Procs -> Seq(Names)]
    /\ got \in [Procs -> Files]
    /\ exit \in [Procs -> Codes]

Local(p) ==
    /\ pc[p] \in {"build", "stage", "replace"} =>
         prog[p] = "generate" /\ todo[p] \in Seq({"case", "summary"})
    /\ pc[p] \in {"stage", "replace"} => made[p] \in Builds
    /\ pc[p] \in {"build", "stage", "replace", "read"} => todo[p] # <<>>
    /\ pc[p] = "read" => prog[p] \in Programs \ {"generate"}
    /\ pc[p] = "judge" => prog[p] \in {"verify", "gate"}
    /\ pc[p] = "read" /\ prog[p] = "evalfence" => todo[p] = <<"case">>
    /\ pc[p] \in {"open", "write"} =>
         prog[p] = "evalfence" /\ got[p]["case"] \in CasesBuilt
    /\ pc[p] # "ended" => exit[p] = None
    /\ prog[p] = "verify" /\ exit[p] = 0 => Verified(got[p])

IInv == Typed /\ \A p \in Procs : Local(p)

-----------------------------------------------------------------------------
(* What the assumptions say of what is built. *)

LEMMA BuildTypes ==
    ASSUME NEW b \in Builds
    PROVE  /\ b.case \in CasesBuilt /\ b.summary \in SummariesBuilt
           /\ b.case \in Case /\ b.summary.digest = b.case
<1>1. b.case \in CasesBuilt /\ b.summary \in SummariesBuilt
  BY DEF CasesBuilt, SummariesBuilt
<1>2. PICK r : b.case \in Case /\ b.summary = SummaryOf(b.case, r)
  BY BuildsAssumption
<1> QED BY <1>1, <1>2 DEF SummaryOf

LEMMA FilesOfNames ==
    ASSUME NEW g \in Programs
    PROVE  /\ FilesOf(g) \in Seq(Names) /\ FilesOf(g) # <<>>
           /\ g = "generate" => FilesOf(g) \in Seq({"case", "summary"})
           /\ g = "evalfence" => FilesOf(g) = <<"case">>
<1>1. CASE g = "generate"
  <2>1. FilesOf(g) = <<"case", "summary">>
    BY <1>1 DEF FilesOf
  <2>2. FilesOf(g) \in Seq(Names) /\ FilesOf(g) \in Seq({"case", "summary"})
    BY <2>1 DEF Names
  <2>3. FilesOf(g) # <<>>
    BY <2>1
  <2> QED BY <1>1, <2>2, <2>3
<1>2. CASE g = "evalfence"
  <2>1. FilesOf(g) = <<"case">>
    BY <1>2 DEF FilesOf
  <2>2. FilesOf(g) \in Seq(Names)
    BY <2>1 DEF Names
  <2>3. FilesOf(g) # <<>>
    BY <2>1
  <2>4. g # "generate"
    BY <1>2
  <2> QED BY <2>1, <2>2, <2>3, <2>4
<1>3. CASE g = "verify"
  <2>1. FilesOf(g) = <<"summary", "case", "report">>
    BY <1>3 DEF FilesOf
  <2>2. FilesOf(g) \in Seq(Names)
    BY <2>1 DEF Names
  <2>3. FilesOf(g) # <<>>
    BY <2>1
  <2>4. g # "generate" /\ g # "evalfence"
    BY <1>3
  <2> QED BY <2>2, <2>3, <2>4
<1>4. CASE g = "gate"
  <2>1. FilesOf(g) = <<"case", "summary", "report">>
    BY <1>4 DEF FilesOf
  <2>2. FilesOf(g) \in Seq(Names)
    BY <2>1 DEF Names
  <2>3. FilesOf(g) # <<>>
    BY <2>1
  <2>4. g # "generate" /\ g # "evalfence"
    BY <1>4
  <2> QED BY <2>2, <2>3, <2>4
<1> QED BY <1>1, <1>2, <1>3, <1>4 DEF Programs

(* Taking the first file from a list of files *)
LEMMA TakeFile ==
    ASSUME NEW S, NEW s \in Seq(S), s # <<>>
    PROVE  /\ Head(s) \in S /\ Tail(s) \in Seq(S)
           /\ Len(Tail(s)) = Len(s) - 1 /\ Len(s) \in Nat \ {0}
BY HeadTailProperties, EmptySeq, LenProperties

(* The files after one of them is replaced by content of its type *)
LEMMA FilesExcept ==
    ASSUME NEW f \in Files, NEW n \in Names, NEW c \in Contents,
           n = "case" => c \in CasesBuilt \cup {None},
           n = "summary" => c \in SummariesBuilt \cup {None},
           n = "report" => c \in Reports \cup {Partial, None}
    PROVE  [f EXCEPT ![n] = c] \in Files
<1> DEFINE g == [f EXCEPT ![n] = c]
<1>1. f \in [Names -> Contents]
  BY DEF Files
<1>2. g \in [Names -> Contents]
  BY <1>1
<1>3. \A m \in Names : g[m] = IF m = n THEN c ELSE f[m]
  BY <1>1
<1> HIDE DEF g
<1>4. /\ g["case"] \in CasesBuilt \cup {None}
      /\ g["summary"] \in SummariesBuilt \cup {None}
      /\ g["report"] \in Reports \cup {Partial, None}
  BY <1>3 DEF Files, Names
<1> QED BY <1>2, <1>4 DEF Files, g

(* A verified set of files is the registered study. *)
LEMMA VerifiedFiles ==
    ASSUME NEW f \in Files, Verified(f)
    PROVE  /\ f["case"] = Registered /\ f["summary"] = Expected
           /\ f["report"] = ReportOf(Registered)
<1>1. f["summary"] = Expected
  BY DEF Verified, VerifyExactSummary
<1>2. f["case"] = Registered
  BY <1>1 DEF Verified, VerifySummary, Expected, SummaryOf
<1>3. f["report"] \in Reports
  BY DEF Verified, Files, Names
<1>4. PICK c \in CasesBuilt : f["report"] = ReportOf(c)
  BY <1>3 DEF Reports
<1>5. ReportOf(c).shape = "registered" /\ ReportOf(c).private = Registered.private
  <2>1. PICK b \in Builds : c = b.case
    BY DEF CasesBuilt
  <2>2. c \in Case
    BY <2>1, BuildTypes
  <2>3. c.shape = "registered" /\ ~c.private
    BY <1>4 DEF Verified, VerifyReport, PublicShape, ReportOf
  <2> QED BY <2>2, <2>3, RegisteredAssumption DEF ReportOf, Case
<1>6. ReportOf(c) = ReportOf(Registered)
  BY <1>5, RegisteredAssumption DEF ReportOf
<1> QED BY <1>1, <1>2, <1>4, <1>6

-----------------------------------------------------------------------------
LEMMA InitIInv == Init => IInv
<1> SUFFICES ASSUME Init PROVE IInv
  OBVIOUS
<1>1. Nothing \in Files
  BY DEF Nothing, Files, Names, Contents
<1>2. Typed
  BY <1>1 DEF Init, Typed, Labels, Codes
<1>3. ASSUME NEW p \in Procs PROVE Local(p)
  BY <1>3, NoneAssumption DEF Init, Local, Programs
<1> QED BY <1>2, <1>3 DEF IInv

(* A step of p changes no other process. *)
Others(p) == \A q \in Procs \ {p} : /\ prog'[q] = prog[q] /\ pc'[q] = pc[q]
                                    /\ made'[q] = made[q] /\ todo'[q] = todo[q]
                                    /\ got'[q] = got[q] /\ exit'[q] = exit[q]

LEMMA Combine ==
    ASSUME IInv, NEW p \in Procs, Typed', Local(p)', Others(p)
    PROVE  IInv'
<1>1. ASSUME NEW q \in Procs, q # p PROVE Local(q)'
  <2>1. Local(q)
    BY DEF IInv
  <2>2. /\ prog'[q] = prog[q] /\ pc'[q] = pc[q] /\ made'[q] = made[q]
        /\ todo'[q] = todo[q] /\ got'[q] = got[q] /\ exit'[q] = exit[q]
    BY <1>1 DEF Others
  <2> QED BY <2>1, <2>2 DEF Local, Verified
<1> QED BY <1>1 DEF IInv

LEMMA StepOthers ==
    ASSUME Typed, NEW p \in Procs, Step(p) \/ Kill(p) \/ \E g \in Programs : Start(p, g)
    PROVE  Others(p)
<1> USE DEF Others, Typed, Goto, Exit
<1>1. CASE Build(p)
  BY <1>1 DEF Build
<1>2. CASE Stage(p)
  BY <1>2 DEF Stage
<1>3. CASE Replace(p)
  BY <1>3 DEF Replace
<1>4. CASE Read(p)
  BY <1>4 DEF Read
<1>5. CASE Judge(p)
  BY <1>5 DEF Judge
<1>6. CASE OpenReport(p)
  BY <1>6 DEF OpenReport
<1>7. CASE WriteReport(p)
  BY <1>7 DEF WriteReport
<1>8. CASE Kill(p)
  BY <1>8 DEF Kill
<1>9. ASSUME NEW g \in Programs, Start(p, g) PROVE Others(p)
  BY <1>9 DEF Start
<1> QED BY <1>1, <1>2, <1>3, <1>4, <1>5, <1>6, <1>7, <1>8, <1>9 DEF Step

LEMMA StartIInv ==
    ASSUME IInv, NEW p \in Procs, NEW g \in Programs, Start(p, g)
    PROVE  IInv'
<1>1. Typed /\ Local(p)
  BY DEF IInv
<1>2. Nothing \in Files
  BY DEF Nothing, Files, Names, Contents
<1>3. Typed'
  BY <1>1, <1>2, FilesOfNames DEF Start, Typed, Labels, Codes
<1>4. /\ prog'[p] = g /\ pc'[p] = (IF g = "generate" THEN "build" ELSE "read")
      /\ todo'[p] = FilesOf(g) /\ exit'[p] = None
  BY <1>1 DEF Start, Typed
<1>5. Local(p)'
  <2>1. pc'[p] = "build" => g = "generate"
    BY <1>4
  <2>2. pc'[p] \in {"build", "read"} /\ exit'[p] # 0
    BY <1>4, NoneAssumption
  <2>3. todo'[p] # <<>> /\ (g = "generate" => todo'[p] \in Seq({"case", "summary"}))
    BY <1>4, FilesOfNames
  <2>4. pc'[p] = "read" => g \in Programs \ {"generate"}
    BY <1>4
  <2>5. g = "evalfence" => todo'[p] = <<"case">>
    BY <1>4, FilesOfNames
  <2> QED BY <1>4, <2>1, <2>2, <2>3, <2>4, <2>5 DEF Local
<1>6. Others(p)
  BY <1>1, StepOthers
<1> QED BY <1>3, <1>5, <1>6, Combine

(* A step of p that only moves it to a label, or ends it without success *)
LEMMA BuildIInv ==
    ASSUME IInv, NEW p \in Procs, Build(p)
    PROVE  IInv'
<1>1. Typed /\ Local(p)
  BY DEF IInv
<1>2. Typed'
  BY <1>1 DEF Build, Goto, Exit, Typed, Labels, Codes
<1>3. Local(p)'
  <2>1. CASE pc'[p] = "ended"
    BY <1>1, <2>1 DEF Build, Goto, Exit, Typed, Local
  <2>2. CASE pc'[p] # "ended"
    BY <1>1, <2>2 DEF Build, Goto, Exit, Typed, Local
  <2> QED BY <2>1, <2>2
<1>4. Others(p)
  BY <1>1, StepOthers DEF Step
<1> QED BY <1>2, <1>3, <1>4, Combine

LEMMA StageIInv ==
    ASSUME IInv, NEW p \in Procs, Stage(p)
    PROVE  IInv'
<1>1. Typed /\ Local(p)
  BY DEF IInv
<1>2. Typed'
  BY <1>1 DEF Stage, Goto, Exit, Typed, Labels, Codes
<1>3. Local(p)'
  BY <1>1 DEF Stage, Goto, Exit, Typed, Local
<1>4. Others(p)
  BY <1>1, StepOthers DEF Step
<1> QED BY <1>2, <1>3, <1>4, Combine

LEMMA ReplaceIInv ==
    ASSUME IInv, NEW p \in Procs, Replace(p)
    PROVE  IInv'
<1>1. Typed /\ Local(p)
  BY DEF IInv
<1>2. /\ pc[p] = "replace" /\ prog[p] = "generate" /\ made[p] \in Builds
      /\ todo[p] \in Seq({"case", "summary"}) /\ todo[p] # <<>>
  BY <1>1 DEF Replace, Local
<1>3. /\ Head(todo[p]) \in {"case", "summary"}
      /\ Tail(todo[p]) \in Seq({"case", "summary"})
      /\ Len(Tail(todo[p])) = Len(todo[p]) - 1 /\ Len(todo[p]) \in Nat \ {0}
  BY <1>2, TakeFile
<1>4. UNCHANGED <<prog, made, got>>
  BY DEF Replace
<1>5. CASE Exit(p, 1) /\ UNCHANGED <<disk, todo>>
  <2>1. Typed'
    BY <1>1, <1>4, <1>5 DEF Exit, Typed, Labels, Codes
  <2>2. Local(p)'
    BY <1>1, <1>2, <1>4, <1>5 DEF Exit, Typed, Local
  <2> QED BY <1>1, <2>1, <2>2, StepOthers, Combine DEF Step
<1>6. CASE /\ disk' = [disk EXCEPT ![Head(todo[p])] =
                          IF Head(todo[p]) = "case" THEN made[p].case ELSE made[p].summary]
           /\ todo' = [todo EXCEPT ![p] = Tail(@)]
           /\ IF Len(todo[p]) = 1 THEN Exit(p, 0) ELSE Goto(p, "stage")
  <2>1. disk' \in Files
    <3>1. made[p].case \in CasesBuilt /\ made[p].summary \in SummariesBuilt
      BY <1>2, BuildTypes
    <3>2. Head(todo[p]) \in Names
      BY <1>3 DEF Names
    <3> DEFINE c == IF Head(todo[p]) = "case" THEN made[p].case ELSE made[p].summary
    <3>3. /\ c \in Contents
          /\ Head(todo[p]) = "case" => c \in CasesBuilt \cup {None}
          /\ Head(todo[p]) = "summary" => c \in SummariesBuilt \cup {None}
          /\ Head(todo[p]) # "report"
      BY <1>3, <3>1 DEF Contents
    <3>4. disk \in Files /\ disk' = [disk EXCEPT ![Head(todo[p])] = c]
      BY <1>1, <1>6 DEF Typed
    <3> HIDE DEF c
    <3> QED BY <3>2, <3>3, <3>4, FilesExcept
  <2>2. Tail(todo[p]) \in Seq(Names)
    BY <1>1, <1>2, TakeFile DEF Typed
  <2>3. Typed'
    BY <1>1, <1>4, <1>6, <2>1, <2>2 DEF Exit, Goto, Typed, Labels, Codes
  <2>4. Local(p)'
    <3>1. CASE Len(todo[p]) = 1
      BY <1>1, <1>2, <1>4, <1>6, <3>1 DEF Exit, Typed, Local
    <3>2. CASE Len(todo[p]) # 1
      <4>1. Len(Tail(todo[p])) # 0
        BY <1>3, <3>2
      <4>2. Tail(todo[p]) # <<>>
        <5>1. Len(<<>>) = 0
          OBVIOUS
        <5> QED BY <4>1, <5>1, Zenon
      <4>3. /\ pc'[p] = "stage" /\ exit' = exit /\ todo'[p] = Tail(todo[p])
        BY <1>1, <1>6, <3>2 DEF Goto, Typed
      <4> QED BY <1>1, <1>2, <1>3, <1>4, <4>2, <4>3 DEF Local
    <3> QED BY <3>1, <3>2
  <2> QED BY <1>1, <2>3, <2>4, StepOthers, Combine DEF Step
<1> QED BY <1>5, <1>6 DEF Replace

LEMMA ReadIInv ==
    ASSUME IInv, NEW p \in Procs, Read(p)
    PROVE  IInv'
<1>1. Typed /\ Local(p)
  BY DEF IInv
<1>2. /\ pc[p] = "read" /\ prog[p] \in Programs \ {"generate"}
      /\ todo[p] \in Seq(Names) /\ todo[p] # <<>>
  BY <1>1 DEF Read, Local, Typed
<1>3. /\ Head(todo[p]) \in Names /\ Tail(todo[p]) \in Seq(Names)
      /\ Len(Tail(todo[p])) = Len(todo[p]) - 1 /\ Len(todo[p]) \in Nat \ {0}
  BY <1>2, TakeFile
<1>4. UNCHANGED <<disk, prog, made>>
  BY DEF Read
<1>5. CASE Exit(p, 1) /\ UNCHANGED <<todo, got>>
  <2>1. Typed'
    BY <1>1, <1>4, <1>5 DEF Exit, Typed, Labels, Codes
  <2>2. Local(p)'
    BY <1>1, <1>2, <1>4, <1>5 DEF Exit, Typed, Local
  <2> QED BY <1>1, <2>1, <2>2, StepOthers, Combine DEF Step
<1>6. CASE /\ got' = [got EXCEPT ![p][Head(todo[p])] = disk[Head(todo[p])]]
           /\ todo' = [todo EXCEPT ![p] = Tail(@)]
           /\ Goto(p, IF Len(todo[p]) > 1 THEN "read"
                      ELSE IF prog[p] = "evalfence" THEN "open" ELSE "judge")
  <2> DEFINE n == Head(todo[p])
  <2>1. [got[p] EXCEPT ![n] = disk[n]] \in Files
    <3>1. got[p] \in Files /\ disk \in Files /\ n \in Names
      BY <1>1, <1>3 DEF Typed
    <3>2. /\ disk[n] \in Contents
          /\ n = "case" => disk[n] \in CasesBuilt \cup {None}
          /\ n = "summary" => disk[n] \in SummariesBuilt \cup {None}
          /\ n = "report" => disk[n] \in Reports \cup {Partial, None}
      BY <3>1 DEF Files
    <3> HIDE DEF n
    <3> QED BY <3>1, <3>2, FilesExcept
  <2>2. got' = [got EXCEPT ![p] = [got[p] EXCEPT ![n] = disk[n]]]
    BY <1>6
  <2>3. Typed'
    BY <1>1, <1>2, <1>3, <1>4, <1>6, <2>1, <2>2 DEF Goto, Typed, Labels
  <2>4. /\ pc'[p] = (IF Len(todo[p]) > 1 THEN "read"
                     ELSE IF prog[p] = "evalfence" THEN "open" ELSE "judge")
        /\ exit' = exit /\ todo'[p] = Tail(todo[p])
    BY <1>1, <1>6 DEF Goto, Typed
  <2>5. pc'[p] = "read" => todo'[p] # <<>>
    <3>1. Len(<<>>) = 0
      OBVIOUS
    <3>2. ASSUME pc'[p] = "read" PROVE Len(todo'[p]) # 0
      <4>1. Len(todo[p]) > 1
        BY <2>4, <3>2
      <4>2. Len(Tail(todo[p])) # 0
        <5> DEFINE k == Len(todo[p])
                   l == Len(Tail(todo[p]))
        <5>1. k \in Nat /\ l = k - 1 /\ k > 1
          BY <1>3, <4>1
        <5> HIDE DEF k, l
        <5>2. l # 0
          BY <5>1
        <5> QED BY <5>2 DEF l
      <4> QED BY <2>4, <4>2
    <3> QED BY <3>1, <3>2, Zenon
  <2>6. exit[p] = None /\ exit[p] # 0
    BY <1>1, <1>2, NoneAssumption DEF Local
  <2>7. prog[p] = "evalfence" => pc'[p] = "open" /\ got'[p]["case"] \in CasesBuilt
    <3> SUFFICES ASSUME prog[p] = "evalfence"
                 PROVE  pc'[p] = "open" /\ got'[p]["case"] \in CasesBuilt
      OBVIOUS
    <3>1. todo[p] = <<"case">>
      BY <1>1, <1>2 DEF Local
    <3>2. Len(todo[p]) = 1 /\ Head(todo[p]) = "case"
      BY <3>1
    <3>3. disk["case"] # None
      <4>1. ASSUME disk["case"] = None PROVE FALSE
        <5>1. Exit(p, 1)
          BY <3>2, <4>1 DEF Read
        <5>2. pc'[p] = "ended"
          BY <1>1, <5>1 DEF Exit, Typed
        <5> QED BY <2>4, <5>2
      <4> QED BY <4>1
    <3>4. disk["case"] \in CasesBuilt
      BY <1>1, <3>3 DEF Typed, Files
    <3>5. got[p] \in [Names -> Contents]
      BY <1>1 DEF Typed, Files
    <3>6. got'[p] = [got[p] EXCEPT !["case"] = disk["case"]]
      BY <1>1, <2>2, <3>2 DEF Typed
    <3>7. got'[p]["case"] \in CasesBuilt
      BY <3>4, <3>5, <3>6 DEF Names
    <3> QED BY <2>4, <3>2, <3>7
  <2>8. pc'[p] \in {"read", "open", "judge"}
    BY <2>4
  <2>9. Local(p)'
    <3>1. CASE pc'[p] = "read"
      BY <1>2, <1>4, <2>4, <2>5, <2>6, <2>7, <3>1 DEF Local, Programs
    <3>2. CASE pc'[p] = "open"
      BY <1>2, <1>4, <2>4, <2>6, <2>7, <3>2 DEF Local, Programs
    <3>3. CASE pc'[p] = "judge"
      BY <1>2, <1>4, <2>4, <2>6, <2>7, <3>3 DEF Local, Programs
    <3> QED BY <2>8, <3>1, <3>2, <3>3
  <2> QED BY <1>1, <2>3, <2>9, StepOthers, Combine DEF Step
<1> QED BY <1>5, <1>6 DEF Read

LEMMA JudgeIInv ==
    ASSUME IInv, NEW p \in Procs, Judge(p)
    PROVE  IInv'
<1>1. Typed /\ Local(p)
  BY DEF IInv
<1>2. pc[p] = "judge" /\ UNCHANGED <<disk, prog, made, todo, got>>
  BY DEF Judge
<1> DEFINE ok == IF prog[p] = "verify" THEN Verified(got[p]) ELSE Scanned(got[p])
           code == IF ok THEN 0 ELSE 1
<1>3. pc' = [pc EXCEPT ![p] = "ended"] /\ exit' = [exit EXCEPT ![p] = code]
  BY DEF Judge, Exit
<1>4. code \in {0, 1} /\ (prog[p] = "verify" /\ code = 0 => Verified(got[p]))
  OBVIOUS
<1> HIDE DEF code
<1>5. Typed'
  BY <1>1, <1>2, <1>3, <1>4 DEF Typed, Labels, Codes
<1>6. pc'[p] = "ended" /\ exit'[p] = code
  BY <1>1, <1>3 DEF Typed
<1>7. Verified(got[p])' <=> Verified(got[p])
  BY <1>2 DEF Verified
<1>8. Local(p)'
  BY <1>2, <1>4, <1>6, <1>7 DEF Local
<1> QED BY <1>1, <1>5, <1>8, StepOthers, Combine DEF Step

LEMMA OpenReportIInv ==
    ASSUME IInv, NEW p \in Procs, OpenReport(p)
    PROVE  IInv'
<1>1. Typed /\ Local(p)
  BY DEF IInv
<1>2. pc[p] = "open" /\ prog[p] = "evalfence" /\ UNCHANGED <<prog, made, todo, got>>
  BY <1>1 DEF OpenReport, Local
<1>3. [disk EXCEPT !["report"] = Partial] \in Files
  <2>1. disk \in Files /\ "report" \in Names /\ Partial \in Contents
    BY <1>1 DEF Typed, Names, Contents
  <2> QED BY <2>1, FilesExcept
<1>4. disk' \in Files
  BY <1>1, <1>3 DEF OpenReport, Typed
<1>5. CASE Goto(p, "write")
  <2>1. Typed'
    BY <1>1, <1>2, <1>4, <1>5 DEF Goto, Typed, Labels
  <2>2. pc'[p] = "write" /\ exit'[p] = exit[p]
    BY <1>1, <1>5 DEF Goto, Typed
  <2>3. Local(p)'
    BY <1>1, <1>2, <2>2 DEF Local
  <2> QED BY <1>1, <2>1, <2>3, StepOthers, Combine DEF Step
<1>6. CASE Exit(p, 1)
  <2>1. Typed'
    BY <1>1, <1>2, <1>4, <1>6 DEF Exit, Typed, Labels, Codes
  <2>2. pc'[p] = "ended" /\ exit'[p] = 1
    BY <1>1, <1>6 DEF Exit, Typed
  <2>3. Local(p)'
    BY <1>1, <1>2, <2>2 DEF Local
  <2> QED BY <1>1, <2>1, <2>3, StepOthers, Combine DEF Step
<1> QED BY <1>5, <1>6 DEF OpenReport

LEMMA WriteReportIInv ==
    ASSUME IInv, NEW p \in Procs, WriteReport(p)
    PROVE  IInv'
<1>1. Typed /\ Local(p)
  BY DEF IInv
<1>2. /\ pc[p] = "write" /\ got[p]["case"] \in CasesBuilt
      /\ prog[p] = "evalfence" /\ UNCHANGED <<prog, made, todo, got>>
  BY <1>1 DEF WriteReport, Local
<1> DEFINE r == ReportOf(got[p]["case"])
<1>3. r \in Reports
  BY <1>2 DEF Reports
<1> HIDE DEF r
<1>4. [disk EXCEPT !["report"] = r] \in Files
  <2>1. disk \in Files /\ "report" \in Names /\ r \in Contents
    BY <1>1, <1>3 DEF Typed, Names, Contents
  <2> QED BY <1>3, <2>1, FilesExcept
<1>5. PICK code \in {1, 2} : Exit(p, code) /\ disk' \in Files
  BY <1>1, <1>4 DEF WriteReport, Typed, r
<1>6. Typed'
  BY <1>1, <1>2, <1>5 DEF Exit, Typed, Labels, Codes
<1>7. pc'[p] = "ended" /\ exit'[p] = code
  BY <1>1, <1>5 DEF Exit, Typed
<1>8. Local(p)'
  BY <1>2, <1>5, <1>7 DEF Local
<1> QED BY <1>1, <1>6, <1>8, StepOthers, Combine DEF Step

LEMMA KillIInv ==
    ASSUME IInv, NEW p \in Procs, Kill(p)
    PROVE  IInv'
<1>1. Typed /\ Local(p)
  BY DEF IInv
<1>2. UNCHANGED <<disk, prog, made, todo, got>> /\ Exit(p, Killed)
  BY DEF Kill
<1>3. Typed'
  BY <1>1, <1>2 DEF Exit, Typed, Labels, Codes
<1>4. pc'[p] = "ended" /\ exit'[p] = Killed
  BY <1>1, <1>2 DEF Exit, Typed
<1>5. Local(p)'
  BY <1>2, <1>4 DEF Local, Killed
<1> QED BY <1>1, <1>3, <1>5, StepOthers, Combine

-----------------------------------------------------------------------------
LEMMA NextIInv == IInv /\ [Next]_vars => IInv'
<1> SUFFICES ASSUME IInv, [Next]_vars PROVE IInv'
  OBVIOUS
<1>1. CASE UNCHANGED vars
  BY <1>1 DEF vars, IInv, Typed, Local, Verified
<1>2. ASSUME NEW p \in Procs, Step(p) PROVE IInv'
  BY <1>2, BuildIInv, StageIInv, ReplaceIInv, ReadIInv, JudgeIInv, OpenReportIInv,
     WriteReportIInv DEF Step
<1>3. ASSUME NEW p \in Procs, Kill(p) PROVE IInv'
  BY <1>3, KillIInv
<1>4. ASSUME NEW p \in Procs, NEW g \in Programs, Start(p, g) PROVE IInv'
  BY <1>4, StartIInv
<1> QED BY <1>1, <1>2, <1>3, <1>4 DEF Next

LEMMA Inductive == Spec => []IInv
<1> QED BY InitIInv, NextIInv, PTL DEF Spec

(* Case and summary are never torn on disk: at any moment, however many    *)
(* programs run and are killed, each is absent or one that was built       *)
(* whole; the report alone may be cut off.                                 *)
THEOREM TypeCorrect == Spec => []TypeOK
<1>1. IInv => TypeOK
  BY DEF IInv, Typed, Files, TypeOK, Reports, Labels, Codes
<1> QED BY <1>1, Inductive, PTL

(* A verifier that passes has read the registered study, whatever ran      *)
(* beside it and whatever was killed between the files.                    *)
THEOREM OnlyRegisteredVerifies == Spec => []VerifiedIsRegistered
<1>1. IInv => VerifiedIsRegistered
  <2> SUFFICES ASSUME IInv, NEW p \in Procs, prog[p] = "verify", exit[p] = 0
               PROVE  /\ got[p]["case"] = Registered
                      /\ got[p]["summary"] = Expected
                      /\ got[p]["report"] = ReportOf(Registered)
    BY DEF VerifiedIsRegistered
  <2>1. got[p] \in Files /\ Verified(got[p])
    BY DEF IInv, Typed, Local
  <2> QED BY <2>1, VerifiedFiles
<1> QED BY <1>1, Inductive, PTL

-----------------------------------------------------------------------------
(* The job *)

Outcomes == {"success", "failure", "skipped"}

JobTyped ==
    /\ at \in 1 .. 6
    /\ running \in BOOLEAN
    /\ outcome \in Seq(Outcomes) /\ Len(outcome) = at - 1
    /\ ~running => pc[Job] = "ended"
    /\ running => at <= 4 /\ prog[Job] = Steps[at]

Left(s) == {s[i] : i \in 1 .. Len(s)}

Writing == pc[Job] \in {"build", "stage", "replace"}

(* The pair of case and summary while the generator makes it *)
Pair ==
    /\ at = 1 => disk["report"] = None
    /\ at = 1 /\ (Writing \/ ~running) => disk["summary"] = None
    /\ Writing => \/ todo[Job] = <<"case", "summary">>
                  \/ /\ todo[Job] = <<"summary">> /\ pc[Job] # "build"
                     /\ disk["case"] = made[Job].case
    /\ disk["summary"] # None => disk["summary"].digest = disk["case"]

(* The report, whole or cut off, is of the case on disk. *)
OneReport ==
    /\ disk["report"] \in {None, Partial, ReportOf(disk["case"])}
    /\ pc[Job] \in {"open", "write"} => got[Job]["case"] = disk["case"]

(* What verifier and gate have read is what is there. *)
Fresh ==
    prog[Job] \in {"verify", "gate"} =>
      /\ pc[Job] = "read" => \A n \in Names \ Left(todo[Job]) : got[Job][n] = disk[n]
      /\ pc[Job] = "judge" => \A n \in Names : got[Job][n] = disk[n]

Passed ==
    exit[Job] = 0 => /\ prog[Job] = "verify" => Verified(disk)
                     /\ prog[Job] = "gate" => Scanned(disk)

(* The verdicts of the steps that are over *)
Concluded ==
    /\ at >= 4 /\ outcome[3] = "success" => Verified(disk)
    /\ at >= 5 /\ outcome[4] = "success" => Scanned(disk)

Artifact ==
    /\ uploaded # None => at = 6 /\ uploaded = disk /\ outcome[4] = "success"
    /\ at = 6 /\ outcome[5] = "success" => uploaded = disk

Study == Pair /\ OneReport /\ Fresh /\ Passed
JInv == IInv /\ JobTyped /\ Study /\ Concluded /\ Artifact

-----------------------------------------------------------------------------
LEMMA StepNames == /\ Steps[1] = "generate" /\ Steps[2] = "evalfence"
                   /\ Steps[3] = "verify" /\ Steps[4] = "gate" /\ Steps[5] = "upload"
                   /\ Len(Steps) = 5
BY DEF Steps

(* The current program is one of the four, and tells the step. *)
LEMMA CurrentProgram ==
    ASSUME JobTyped, running
    PROVE  /\ prog[Job] \in Programs
           /\ prog[Job] = "generate" => at = 1
           /\ prog[Job] = "evalfence" => at = 2
           /\ prog[Job] = "verify" => at = 3
           /\ prog[Job] = "gate" => at = 4
<1>1. at = 1 \/ at = 2 \/ at = 3 \/ at = 4
  BY DEF JobTyped
<1>2. prog[Job] = Steps[at]
  BY DEF JobTyped
<1> QED BY <1>1, <1>2, StepNames DEF Programs

(* The files left to read, before and after one is taken *)
LEMMA LeftTail ==
    ASSUME NEW s \in Seq(Names), s # <<>>
    PROVE  Left(s) \subseteq {Head(s)} \cup Left(Tail(s))
<1>1. Len(Tail(s)) = Len(s) - 1 /\ Len(s) \in Nat /\ Head(s) = s[1]
  BY HeadTailProperties, LenProperties
<1>2. ASSUME NEW i \in 1 .. Len(s), i # 1
      PROVE  s[i] \in Left(Tail(s))
  <2>1. i - 1 \in 1 .. Len(Tail(s))
    BY <1>1, <1>2
  <2>2. Tail(s)[i - 1] = s[i]
    BY <2>1, HeadTailProperties
  <2> QED BY <2>1, <2>2 DEF Left
<1>3. ASSUME NEW x \in Left(s) PROVE x \in {Head(s)} \cup Left(Tail(s))
  <2>1. PICK i \in 1 .. Len(s) : x = s[i]
    BY <1>3 DEF Left
  <2>2. i = 1 => x = Head(s)
    BY <1>1, <2>1
  <2>3. i # 1 => x \in Left(Tail(s))
    BY <1>2, <2>1
  <2> QED BY <2>2, <2>3
<1> QED BY <1>3

LEMMA LeftOfThree ==
    ASSUME NEW a, NEW b, NEW c
    PROVE  Left(<<a, b, c>>) = {a, b, c}
<1> DEFINE s == <<a, b, c>>
<1>1. Len(s) = 3 /\ s[1] = a /\ s[2] = b /\ s[3] = c
  OBVIOUS
<1>2. 1 .. 3 = {1, 2, 3}
  OBVIOUS
<1> HIDE DEF s
<1>3. Left(s) = {s[i] : i \in {1, 2, 3}}
  BY <1>1, <1>2, Zenon DEF Left
<1>4. Left(s) = {a, b, c}
  BY <1>1, <1>3
<1> QED BY <1>4 DEF s

LEMMA LeftAll ==
    ASSUME NEW g \in {"verify", "gate"}
    PROVE  Left(FilesOf(g)) = Names
<1>1. CASE g = "verify"
  <2>1. FilesOf(g) = <<"summary", "case", "report">>
    BY <1>1 DEF FilesOf
  <2> QED BY <2>1, LeftOfThree DEF Names
<1>2. CASE g = "gate"
  <2>1. FilesOf(g) = <<"case", "summary", "report">>
    BY <1>2 DEF FilesOf
  <2> QED BY <2>1, LeftOfThree DEF Names
<1> QED BY <1>1, <1>2

-----------------------------------------------------------------------------
(* Every step of the job is one of the programs, or none of them moves. *)
LEMMA JobSteps ==
    ASSUME JInv, [JobNext]_allVars
    PROVE  [Next]_vars
<1> USE JobAssumption
<1>1. CASE UNCHANGED allVars
  BY <1>1 DEF allVars
<1>2. CASE Begin
  <2>1. at \in 1 .. 4
    BY <1>2 DEF Begin, JInv, JobTyped
  <2>2. at = 1 \/ at = 2 \/ at = 3 \/ at = 4
    BY <2>1
  <2>3. Steps[at] \in Programs
    BY <2>2, StepNames DEF Programs
  <2> QED BY <1>2, <2>3 DEF Begin, Next
<1>3. CASE Work \/ Crash \/ Cancel
  BY <1>3 DEF Work, Crash, Cancel, Next
<1>4. CASE Skip \/ Finish \/ Upload \/ LoseRunner
  BY <1>4 DEF Skip, Finish, Upload, LoseRunner
<1> QED BY <1>1, <1>2, <1>3, <1>4 DEF JobNext

LEMMA InitJInv == JobInit => JInv
<1> SUFFICES ASSUME JobInit PROVE JInv
  OBVIOUS
<1>1. IInv
  BY InitIInv DEF JobInit
<1>2. /\ disk = Nothing /\ prog[Job] = None /\ pc[Job] = "ended" /\ exit[Job] = None
      /\ at = 1 /\ running = FALSE /\ outcome = <<>> /\ uploaded = None
  BY JobAssumption DEF JobInit, Init
<1>3. disk["report"] = None /\ disk["summary"] = None
  BY <1>2 DEF Nothing, Names
<1>4. outcome \in Seq(Outcomes) /\ Len(outcome) = 0
  BY <1>2
<1>5. JobTyped
  <2>1. at \in 1 .. 6 /\ Len(outcome) = at - 1
    BY <1>2, <1>4
  <2>2. running \in BOOLEAN /\ ~running
    BY <1>2
  <2> QED BY <1>2, <1>4, <2>1, <2>2 DEF JobTyped
<1>6. Study
  BY <1>2, <1>3, NoneAssumption DEF Study, Pair, Writing, OneReport, Fresh, Passed, Programs
<1>7. Concluded /\ Artifact
  BY <1>2 DEF Concluded, Artifact
<1> QED BY <1>1, <1>5, <1>6, <1>7 DEF JInv

-----------------------------------------------------------------------------
(* The steps of the runner *)

LEMMA StudyUnchanged ==
    ASSUME Study, UNCHANGED vars, at' = at \/ at' > 1, running' = running \/ at' > 1
    PROVE  Study'
<1>1. /\ disk' = disk /\ prog' = prog /\ pc' = pc /\ made' = made /\ todo' = todo
      /\ got' = got /\ exit' = exit
  BY DEF vars
<1>2. Pair'
  BY <1>1 DEF Study, Pair, Writing
<1>3. OneReport'
  BY <1>1 DEF Study, OneReport
<1>4. Fresh'
  BY <1>1 DEF Study, Fresh, Left
<1>5. Passed'
  BY <1>1 DEF Study, Passed, Verified, Scanned
<1> QED BY <1>2, <1>3, <1>4, <1>5 DEF Study

(* A step of the runner that decides on the next program step, or is over  *)
LEMMA ConcludeJInv ==
    ASSUME JInv, NEW o \in Outcomes, Conclude(o), UNCHANGED vars,
           at <= 5, pc[Job] = "ended",
           at = 3 /\ o = "success" => Verified(disk),
           at = 4 /\ o = "success" => Scanned(disk),
           IF at = 5 /\ o = "success"
           THEN uploaded' = disk /\ outcome[4] = "success"
           ELSE uploaded' = uploaded
    PROVE  JInv'
<1>1. /\ JobTyped /\ Study /\ Concluded /\ Artifact
      /\ at' = at + 1 /\ outcome' = Append(outcome, o) /\ ~running'
  BY DEF JInv, Conclude
<1>2. at \in 1 .. 5 /\ at' \in 2 .. 6
  BY <1>1 DEF JobTyped
<1>3. /\ outcome' \in Seq(Outcomes) /\ Len(outcome') = at
      /\ \A i \in 1 .. at - 1 : outcome'[i] = outcome[i]
      /\ outcome'[at] = o
  BY <1>1, <1>2, AppendProperties DEF JobTyped
<1>4. /\ disk' = disk /\ pc' = pc
  BY DEF vars
<1>5. JobTyped'
  <2>1. running' \in BOOLEAN
    BY DEF Conclude
  <2> QED BY <1>1, <1>2, <1>3, <1>4, <2>1 DEF JobTyped
<1>6. Study'
  BY <1>1, <1>2, StudyUnchanged
<1>7. Concluded'
  <2>1. Verified(disk)' <=> Verified(disk)
    BY <1>4 DEF Verified
  <2>2. Scanned(disk)' <=> Scanned(disk)
    BY <1>4 DEF Scanned
  <2>3. at' >= 4 /\ outcome'[3] = "success" => Verified(disk)
    BY <1>1, <1>2, <1>3 DEF Concluded
  <2>4. at' >= 5 /\ outcome'[4] = "success" => Scanned(disk)
    BY <1>1, <1>2, <1>3 DEF Concluded
  <2> QED BY <2>1, <2>2, <2>3, <2>4 DEF Concluded
<1>8. Artifact'
  <2>1. uploaded = None
    BY <1>1, <1>2 DEF Artifact
  <2>2. at' = 6 <=> at = 5
    BY <1>1, <1>2
  <2>3. at = 5 => outcome'[5] = o /\ outcome'[4] = outcome[4]
    BY <1>3
  <2>4. uploaded' # None => at = 5 /\ o = "success" /\ uploaded' = disk /\ outcome[4] = "success"
    BY <2>1
  <2>5. at = 5 /\ o = "success" => uploaded' = disk
    OBVIOUS
  <2> QED BY <1>4, <2>2, <2>3, <2>4, <2>5 DEF Artifact
<1>9. IInv'
  BY NextIInv DEF JInv
<1> QED BY <1>5, <1>6, <1>7, <1>8, <1>9 DEF JInv

LEMMA SkipJInv == ASSUME JInv, Skip PROVE JInv'
<1>1. /\ JobTyped /\ ~running /\ at <= 5 /\ Conclude("skipped")
      /\ UNCHANGED <<vars, uploaded>>
  BY StepNames DEF JInv, Skip
<1>2. pc[Job] = "ended"
  BY <1>1 DEF JobTyped
<1> QED BY <1>1, <1>2, ConcludeJInv DEF Outcomes

LEMMA FinishJInv == ASSUME JInv, Finish PROVE JInv'
<1>1. /\ JobTyped /\ Passed /\ running /\ pc[Job] = "ended"
      /\ UNCHANGED <<vars, uploaded>>
  BY DEF JInv, Study, Finish
<1>2. at \in 1 .. 4 /\ prog[Job] = Steps[at]
  BY <1>1 DEF JobTyped
<1> DEFINE o == IF exit[Job] = Wanted(Steps[at]) THEN "success" ELSE "failure"
<1>3. Conclude(o) /\ o \in Outcomes
  BY DEF Finish, Outcomes
<1>4. at = 3 /\ o = "success" => Verified(disk)
  BY <1>1, <1>2, StepNames DEF Passed, Wanted
<1>5. at = 4 /\ o = "success" => Scanned(disk)
  BY <1>1, <1>2, StepNames DEF Passed, Wanted
<1> HIDE DEF o
<1>6. at # 5 /\ at <= 5
  BY <1>2
<1> QED BY <1>1, <1>3, <1>4, <1>5, <1>6, ConcludeJInv

LEMMA UploadJInv == ASSUME JInv, Upload PROVE JInv'
<1>1. at = 5 /\ JobTyped /\ outcome[4] = "success" /\ UNCHANGED vars
  BY DEF JInv, Upload, Condition
<1>2. pc[Job] = "ended"
  BY <1>1 DEF JobTyped
<1>3. CASE uploaded' = disk /\ Conclude("success")
  BY <1>1, <1>2, <1>3, ConcludeJInv DEF Outcomes
<1>4. CASE Conclude("failure") /\ UNCHANGED uploaded
  BY <1>1, <1>2, <1>4, ConcludeJInv DEF Outcomes
<1> QED BY <1>3, <1>4 DEF Upload

LEMMA StillJInv ==
    ASSUME JInv, UNCHANGED <<vars, at, running, outcome, uploaded>>
    PROVE  JInv'
<1>1. IInv'
  BY NextIInv DEF JInv
<1>2. Study'
  BY StudyUnchanged DEF JInv
<1>3. JobTyped'
  BY DEF JInv, JobTyped, vars
<1>4. Concluded' /\ Artifact'
  BY DEF JInv, Concluded, Artifact, Verified, Scanned, vars
<1> QED BY <1>1, <1>2, <1>3, <1>4 DEF JInv

-----------------------------------------------------------------------------
(* The steps of the programs *)

LEMMA GotoJob ==
    ASSUME Typed, NEW l, Goto(Job, l)
    PROVE  pc'[Job] = l /\ exit'[Job] = exit[Job]
BY JobAssumption DEF Typed, Goto

LEMMA ExitJob ==
    ASSUME Typed, NEW c, Exit(Job, c)
    PROVE  pc'[Job] = "ended" /\ exit'[Job] = c
BY JobAssumption DEF Typed, Exit

(* Only the first two steps write; what was concluded later stays true. *)
LEMMA RestJInv ==
    ASSUME JInv, UNCHANGED <<at, outcome, uploaded>>, disk' = disk \/ at <= 2
    PROVE  Concluded' /\ Artifact'
<1>1. at \in 1 .. 6 /\ Concluded /\ Artifact
  BY DEF JInv, JobTyped
<1>2. CASE disk' = disk
  BY <1>1, <1>2 DEF Concluded, Artifact, Verified, Scanned
<1>3. CASE at <= 2
  BY <1>1, <1>3 DEF Concluded, Artifact
<1> QED BY <1>2, <1>3

(* A program that ends without success leaves nothing to show. *)
LEMMA EndStudy ==
    ASSUME JInv, NEW c, c # 0, Exit(Job, c), running, running',
           UNCHANGED <<disk, prog, todo, got, at>>
    PROVE  Study'
<1>1. pc'[Job] = "ended" /\ exit'[Job] = c
  BY ExitJob DEF JInv, IInv
<1>2. Pair'
  BY <1>1 DEF JInv, Study, Pair, Writing
<1>3. OneReport' /\ Fresh' /\ Passed'
  BY <1>1 DEF JInv, Study, OneReport, Fresh, Passed
<1> QED BY <1>2, <1>3 DEF Study

LEMMA KillStudy ==
    ASSUME JInv, running, Kill(Job), UNCHANGED <<at, running>>
    PROVE  Study'
<1>1. Exit(Job, Killed) /\ UNCHANGED <<disk, prog, todo, got>>
  BY DEF Kill
<1> QED BY <1>1, EndStudy DEF Killed

LEMMA BuildStudy ==
    ASSUME JInv, running, Build(Job), UNCHANGED <<at, running>>
    PROVE  Study'
<1>1. /\ Typed /\ Local(Job) /\ Study /\ pc[Job] = "build"
      /\ UNCHANGED <<disk, prog, todo, got>>
  BY JobAssumption DEF JInv, IInv, Build
<1>2. CASE Exit(Job, 1)
  BY <1>1, <1>2, EndStudy
<1>3. CASE Goto(Job, "stage")
  <2>1. pc'[Job] = "stage" /\ exit'[Job] = exit[Job]
    BY <1>1, <1>3, GotoJob
  <2>2. todo'[Job] = <<"case", "summary">>
    BY <1>1 DEF Study, Pair, Writing
  <2>3. Pair'
    BY <1>1, <2>1, <2>2 DEF Study, Pair, Writing
  <2>4. OneReport' /\ Fresh' /\ Passed'
    BY <1>1, <2>1 DEF Study, OneReport, Fresh, Passed, Verified, Scanned
  <2> QED BY <2>3, <2>4 DEF Study
<1> QED BY <1>2, <1>3 DEF Build

LEMMA StageStudy ==
    ASSUME JInv, running, Stage(Job), UNCHANGED <<at, running>>
    PROVE  Study'
<1>1. /\ Typed /\ Study /\ pc[Job] = "stage"
      /\ UNCHANGED <<disk, prog, made, todo, got>>
  BY DEF JInv, IInv, Stage
<1>2. CASE Exit(Job, 1)
  BY <1>1, <1>2, EndStudy
<1>3. CASE Goto(Job, "replace")
  <2>1. pc'[Job] = "replace" /\ exit'[Job] = exit[Job]
    BY <1>1, <1>3, GotoJob
  <2>2. Pair'
    BY <1>1, <2>1 DEF Study, Pair, Writing
  <2>3. OneReport' /\ Fresh' /\ Passed'
    BY <1>1, <2>1 DEF Study, OneReport, Fresh, Passed, Verified, Scanned
  <2> QED BY <2>2, <2>3 DEF Study
<1> QED BY <1>2, <1>3 DEF Stage

LEMMA ReplaceStudy ==
    ASSUME JInv, running, Replace(Job), UNCHANGED <<at, running>>
    PROVE  Study' /\ at <= 2
<1>1. /\ Typed /\ Local(Job) /\ Study /\ pc[Job] = "replace" /\ prog[Job] = "generate"
      /\ made[Job] \in Builds /\ UNCHANGED <<prog, made, got>>
  BY JobAssumption DEF JInv, IInv, Local, Replace
<1>2. at = 1
  BY <1>1, CurrentProgram DEF JInv
<1>3. CASE Exit(Job, 1) /\ UNCHANGED <<disk, todo>>
  BY <1>1, <1>2, <1>3, EndStudy
<1>4. CASE /\ disk' = [disk EXCEPT ![Head(todo[Job])] =
                          IF Head(todo[Job]) = "case" THEN made[Job].case ELSE made[Job].summary]
           /\ todo' = [todo EXCEPT ![Job] = Tail(@)]
           /\ IF Len(todo[Job]) = 1 THEN Exit(Job, 0) ELSE Goto(Job, "stage")
  <2>1. /\ disk["summary"] = None /\ disk["report"] = None
        /\ \/ todo[Job] = <<"case", "summary">>
           \/ todo[Job] = <<"summary">> /\ disk["case"] = made[Job].case
    BY <1>1, <1>2 DEF Study, Pair, Writing
  <2>2. disk \in [Names -> Contents]
    BY <1>1 DEF Typed, Files
  <2>3. todo'[Job] = Tail(todo[Job])
    BY <1>1, <1>4, JobAssumption DEF Typed
  <2>4. Fresh'
    BY <1>1 DEF Fresh
  <2>5. exit'[Job] = 0 => prog'[Job] = "generate"
    BY <1>1
  <2>6. Passed'
    BY <2>5 DEF Passed
  <2>7. CASE todo[Job] = <<"case", "summary">>
    <3>1. Head(todo[Job]) = "case" /\ Len(todo[Job]) # 1
      BY <2>7
    <3>2. Tail(todo[Job]) = <<"summary">>
      BY <2>7
    <3>3. pc'[Job] = "stage"
      BY <1>1, <1>4, <3>1, GotoJob
    <3>4. /\ disk'["case"] = made[Job].case /\ disk'["summary"] = None
          /\ disk'["report"] = None
      BY <1>4, <2>1, <2>2, <3>1 DEF Names
    <3>5. Pair'
      BY <1>1, <2>3, <3>2, <3>3, <3>4 DEF Pair, Writing
    <3>6. OneReport'
      BY <3>3, <3>4 DEF OneReport
    <3> QED BY <1>2, <2>4, <2>6, <3>5, <3>6 DEF Study
  <2>8. CASE todo[Job] = <<"summary">> /\ disk["case"] = made[Job].case
    <3>1. Head(todo[Job]) = "summary" /\ Len(todo[Job]) = 1
      BY <2>8
    <3>2. pc'[Job] = "ended"
      BY <1>1, <1>4, <3>1, ExitJob
    <3>3. /\ disk'["case"] = made[Job].case /\ disk'["summary"] = made[Job].summary
          /\ disk'["report"] = None
      BY <1>4, <2>1, <2>2, <2>8, <3>1 DEF Names
    <3>4. made[Job].summary.digest = made[Job].case
      BY <1>1, BuildTypes
    <3>5. Pair'
      BY <3>2, <3>3, <3>4 DEF Pair, Writing
    <3>6. OneReport'
      BY <3>2, <3>3 DEF OneReport
    <3> QED BY <1>2, <2>4, <2>6, <3>5, <3>6 DEF Study
  <2> QED BY <2>1, <2>7, <2>8
<1> QED BY <1>3, <1>4 DEF Replace

LEMMA ReadStudy ==
    ASSUME JInv, running, Read(Job), UNCHANGED <<at, running>>
    PROVE  Study'
<1>1. /\ Typed /\ Local(Job) /\ Study /\ pc[Job] = "read"
      /\ UNCHANGED <<disk, prog, made>>
  BY JobAssumption DEF JInv, IInv, Read
<1>2. todo[Job] \in Seq(Names) /\ todo[Job] # <<>>
  BY <1>1, JobAssumption DEF Typed, Local
<1> DEFINE n == Head(todo[Job])
<1>3. CASE Exit(Job, 1) /\ UNCHANGED <<todo, got>>
  BY <1>1, <1>3, EndStudy
<1>4. CASE /\ got' = [got EXCEPT ![Job][n] = disk[n]]
           /\ todo' = [todo EXCEPT ![Job] = Tail(@)]
           /\ Goto(Job, IF Len(todo[Job]) > 1 THEN "read"
                        ELSE IF prog[Job] = "evalfence" THEN "open" ELSE "judge")
  <2>1. /\ exit'[Job] = exit[Job]
        /\ pc'[Job] = (IF Len(todo[Job]) > 1 THEN "read"
                       ELSE IF prog[Job] = "evalfence" THEN "open" ELSE "judge")
    BY <1>1, <1>4, GotoJob
  <2>2. todo'[Job] = Tail(todo[Job])
    BY <1>1, <1>4, JobAssumption DEF Typed
  <2>3. got[Job] \in [Names -> Contents]
    BY <1>1, JobAssumption DEF Typed, Files
  <2>4. got'[Job] = [got[Job] EXCEPT ![n] = disk[n]]
    BY <1>1, <1>4, JobAssumption DEF Typed
  <2>5. \A m \in Names : got'[Job][m] = IF m = n THEN disk[m] ELSE got[Job][m]
    BY <2>3, <2>4
  <2>6. Pair'
    BY <1>1, <2>1 DEF Study, Pair, Writing
  <2>7. OneReport'
    <3>1. ASSUME pc'[Job] \in {"open", "write"} PROVE got'[Job]["case"] = disk["case"]
      <4>1. prog[Job] = "evalfence"
        BY <2>1, <3>1
      <4>2. todo[Job] = <<"case">>
        BY <1>1, <4>1 DEF Local
      <4>3. n = "case"
        BY <4>2
      <4> QED BY <2>5, <4>3 DEF Names
    <3> QED BY <1>1, <3>1 DEF Study, OneReport
  <2>8. Fresh'
    <3> SUFFICES ASSUME prog[Job] \in {"verify", "gate"} PROVE Fresh'
      BY <1>1 DEF Fresh
    <3>1. \A m \in Names \ Left(todo[Job]) : got[Job][m] = disk[m]
      BY <1>1 DEF Study, Fresh
    <3>2. Left(todo[Job]) \subseteq {n} \cup Left(Tail(todo[Job]))
      BY <1>2, LeftTail
    <3>3. \A m \in Names \ Left(Tail(todo[Job])) : got'[Job][m] = disk[m]
      <4> HIDE DEF n
      <4> QED BY <2>5, <3>1, <3>2
    <3>4. CASE Len(todo[Job]) > 1
      BY <1>1, <2>1, <2>2, <3>3, <3>4 DEF Fresh
    <3>5. CASE ~(Len(todo[Job]) > 1)
      <4> DEFINE k == Len(todo[Job])
                 l == Len(Tail(todo[Job]))
      <4>1. k \in Nat \ {0} /\ l = k - 1
        BY <1>2, TakeFile
      <4> HIDE DEF k, l
      <4>2. ~(k > 1)
        BY <3>5 DEF k
      <4>3. l = 0
        BY <4>1, <4>2
      <4>4. 1 .. Len(Tail(todo[Job])) = {}
        <5>1. 1 .. l = {}
          BY <4>3
        <5> QED BY <5>1 DEF l
      <4>5. Left(Tail(todo[Job])) = {}
        BY <4>4 DEF Left
      <4> QED BY <1>1, <2>1, <3>3, <3>5, <4>5 DEF Fresh
    <3> QED BY <3>4, <3>5
  <2>9. Passed'
    BY <1>1, <2>1 DEF Study, Passed, Verified, Scanned
  <2> QED BY <2>6, <2>7, <2>8, <2>9 DEF Study
<1> QED BY <1>3, <1>4 DEF Read

(* What the program has judged is what is on disk. *)
LEMMA JudgeStudy ==
    ASSUME JInv, running, Judge(Job), UNCHANGED <<at, running>>
    PROVE  Study'
<1>1. /\ Typed /\ Local(Job) /\ Study /\ pc[Job] = "judge" /\ prog[Job] \in {"verify", "gate"}
      /\ UNCHANGED <<disk, prog, made, todo, got>>
  BY JobAssumption DEF JInv, IInv, Local, Judge
<1>2. \A n \in Names : got[Job][n] = disk[n]
  BY <1>1 DEF Study, Fresh
<1>3. Verified(got[Job]) <=> Verified(disk)
  BY <1>2 DEF Verified, Names
<1>4. Scanned(got[Job]) <=> Scanned(disk)
  BY <1>2 DEF Scanned
<1> DEFINE ok == IF prog[Job] = "verify" THEN Verified(got[Job]) ELSE Scanned(got[Job])
<1>5. Exit(Job, IF ok THEN 0 ELSE 1)
  BY DEF Judge
<1>6. pc'[Job] = "ended" /\ exit'[Job] = IF ok THEN 0 ELSE 1
  BY <1>1, <1>5, ExitJob
<1>7. exit'[Job] = 0 => ok
  BY <1>6
<1>8. exit'[Job] = 0 => /\ prog[Job] = "verify" => Verified(disk)
                        /\ prog[Job] = "gate" => Scanned(disk)
  BY <1>3, <1>4, <1>7
<1>9. Passed'
  BY <1>1, <1>8 DEF Passed, Verified, Scanned
<1>10. Pair'
  BY <1>1, <1>6 DEF Study, Pair, Writing
<1>11. OneReport' /\ Fresh'
  BY <1>1, <1>6 DEF Study, OneReport, Fresh
<1> QED BY <1>9, <1>10, <1>11 DEF Study

(* The report is of the case on disk, or cut off. *)
LEMMA ReportStudy ==
    ASSUME JInv, running, NEW r \in {Partial, ReportOf(got[Job]["case"])},
           pc[Job] \in {"open", "write"}, disk' = [disk EXCEPT !["report"] = r],
           UNCHANGED <<prog, made, todo, got, at, running>>,
           Goto(Job, "write") \/ \E c \in {1, 2} : Exit(Job, c)
    PROVE  Study' /\ at <= 2
<1>1. /\ Typed /\ Local(Job) /\ Study /\ prog[Job] = "evalfence"
      /\ got[Job]["case"] = disk["case"]
  BY JobAssumption DEF JInv, IInv, Local, Study, OneReport
<1>2. at = 2
  BY <1>1, CurrentProgram DEF JInv
<1>3. pc'[Job] \in {"write", "ended"}
  BY <1>1, GotoJob, ExitJob
<1>4. disk \in [Names -> Contents]
  BY <1>1 DEF Typed, Files
<1>5. disk'["report"] = r /\ disk'["case"] = disk["case"] /\ disk'["summary"] = disk["summary"]
  BY <1>4 DEF Names
<1>6. Pair'
  BY <1>1, <1>2, <1>3, <1>5 DEF Study, Pair, Writing
<1>7. OneReport'
  BY <1>1, <1>5 DEF OneReport
<1>8. Fresh' /\ Passed'
  BY <1>1 DEF Fresh, Passed
<1> QED BY <1>2, <1>6, <1>7, <1>8 DEF Study

LEMMA StepStudy ==
    ASSUME JInv, running, Step(Job), UNCHANGED <<at, running>>
    PROVE  Study' /\ (disk' = disk \/ at <= 2)
<1>1. CASE Build(Job)
  BY <1>1, BuildStudy DEF Build
<1>2. CASE Stage(Job)
  BY <1>2, StageStudy DEF Stage
<1>3. CASE Replace(Job)
  BY <1>3, ReplaceStudy
<1>4. CASE Read(Job)
  BY <1>4, ReadStudy DEF Read
<1>5. CASE Judge(Job)
  BY <1>5, JudgeStudy DEF Judge
<1>6. CASE OpenReport(Job)
  <2>1. CASE Exit(Job, 1) /\ UNCHANGED disk
    BY <1>6, <2>1, EndStudy DEF OpenReport
  <2>2. CASE disk' = [disk EXCEPT !["report"] = Partial] /\ Goto(Job, "write")
    BY <1>6, <2>2, ReportStudy DEF OpenReport
  <2> QED BY <1>6, <2>1, <2>2 DEF OpenReport
<1>7. CASE WriteReport(Job)
  <2>1. CASE Exit(Job, 1) /\ UNCHANGED disk
    BY <1>7, <2>1, EndStudy DEF WriteReport
  <2>2. CASE disk' = [disk EXCEPT !["report"] = ReportOf(got[Job]["case"])] /\ Exit(Job, 2)
    BY <1>7, <2>2, ReportStudy DEF WriteReport
  <2> QED BY <1>7, <2>1, <2>2 DEF WriteReport
<1> QED BY <1>1, <1>2, <1>3, <1>4, <1>5, <1>6, <1>7 DEF Step

LEMMA WorkJInv == ASSUME JInv, Work PROVE JInv'
<1>1. running /\ Step(Job) /\ UNCHANGED <<at, running, outcome, uploaded>>
  BY DEF Work, jobVars
<1>2. Study' /\ Concluded' /\ Artifact'
  BY <1>1, StepStudy, RestJInv
<1>3. prog' = prog
  BY <1>1 DEF Step, Build, Stage, Replace, Read, Judge, OpenReport, WriteReport
<1>4. JobTyped'
  BY <1>1, <1>3 DEF JInv, JobTyped
<1>5. IInv'
  BY JobSteps, NextIInv DEF JInv, JobNext
<1> QED BY <1>2, <1>4, <1>5 DEF JInv

LEMMA KilledJInv ==
    ASSUME JInv, running, Kill(Job), UNCHANGED <<at, running, outcome, uploaded>>
    PROVE  JInv'
<1>1. Study'
  BY KillStudy
<1>2. disk' = disk /\ prog' = prog
  BY DEF Kill
<1>3. Concluded' /\ Artifact' /\ JobTyped'
  BY <1>2, RestJInv DEF JInv, JobTyped
<1>4. IInv'
  BY KillIInv, JobAssumption DEF JInv
<1> QED BY <1>1, <1>3, <1>4 DEF JInv

LEMMA BeginJInv == ASSUME JInv, Begin PROVE JInv'
<1> DEFINE g == Steps[at]
<1>1. /\ Typed /\ JobTyped /\ Study /\ ~running /\ at <= 4 /\ Start(Job, g) /\ running'
      /\ UNCHANGED <<disk, at, outcome, uploaded>>
  BY DEF JInv, IInv, Begin, Start
<1>2. at = 1 \/ at = 2 \/ at = 3 \/ at = 4
  BY <1>1 DEF JobTyped
<1>3. g \in Programs
  BY <1>2, StepNames DEF Programs
<1> HIDE DEF g
<1>4. /\ prog'[Job] = g /\ pc'[Job] = (IF g = "generate" THEN "build" ELSE "read")
      /\ todo'[Job] = FilesOf(g) /\ exit'[Job] = None
  BY <1>1, JobAssumption DEF Start, Typed
<1>5. JobTyped'
  <2>1. running' \in BOOLEAN
    BY DEF Begin
  <2>2. prog'[Job] = Steps[at']
    BY <1>1, <1>4 DEF g
  <2> QED BY <1>1, <2>1, <2>2 DEF JobTyped
<1>6. Pair'
  <2>1. Writing' => todo'[Job] = <<"case", "summary">>
    BY <1>4 DEF Writing, FilesOf
  <2> QED BY <1>1, <2>1 DEF Study, Pair
<1>7. OneReport'
  BY <1>1, <1>4 DEF Study, OneReport
<1>8. Fresh'
  <2>1. g \in {"verify", "gate"} => Left(FilesOf(g)) = Names
    BY LeftAll
  <2> QED BY <1>4, <2>1 DEF Fresh
<1>9. Passed'
  BY <1>4, NoneAssumption DEF Passed
<1>10. Concluded' /\ Artifact'
  BY <1>1, RestJInv
<1>11. IInv'
  BY JobSteps, NextIInv DEF JInv, JobNext
<1> QED BY <1>5, <1>6, <1>7, <1>8, <1>9, <1>10, <1>11 DEF JInv, Study

LEMMA NextJInv == JInv /\ [JobNext]_allVars => JInv'
<1> SUFFICES ASSUME JInv, [JobNext]_allVars PROVE JInv'
  OBVIOUS
<1>1. CASE UNCHANGED allVars
  BY <1>1, StillJInv DEF allVars, jobVars
<1>2. CASE LoseRunner
  BY <1>2, StillJInv DEF LoseRunner
<1>3. CASE Crash
  BY <1>3, KilledJInv DEF Crash, jobVars
<1>4. CASE Cancel
  BY <1>4, KilledJInv, StillJInv DEF Cancel
<1> QED BY <1>1, <1>2, <1>3, <1>4, SkipJInv, BeginJInv, FinishJInv, UploadJInv, WorkJInv
        DEF JobNext

LEMMA JobInductive == JobSpec => []JInv
<1> QED BY InitJInv, NextJInv, PTL DEF JobSpec

-----------------------------------------------------------------------------
(* An artifact holds all three files, nothing private in them, and they    *)
(* belong together, whatever failed or was cancelled before.               *)
THEOREM ArtifactVetted == JobSpec => []UploadVetted
<1>1. JInv => UploadVetted
  <2> SUFFICES ASSUME JInv, uploaded # None
               PROVE  /\ \A n \in Names : uploaded[n] # None
                      /\ ~uploaded["case"].private
                      /\ uploaded["summary"].digest = uploaded["case"]
                      /\ uploaded["report"] \in {Partial, ReportOf(uploaded["case"])}
    BY DEF UploadVetted
  <2>1. uploaded = disk /\ Scanned(disk) /\ disk \in Files /\ Pair /\ OneReport
    BY DEF JInv, IInv, Typed, Study, Artifact, Concluded
  <2>2. \A n \in Names : disk[n] # None
    BY <2>1 DEF Scanned, ScanFile
  <2>3. ~disk["case"].private
    <3>1. disk["case"] \in CasesBuilt
      BY <2>1, <2>2 DEF Files, Names
    <3>2. disk["case"] \in Case
      BY <3>1, BuildTypes DEF CasesBuilt
    <3>3. disk["case"] \notin SummariesBuilt \cup {Partial}
      <4>1. disk["case"] # Partial
        BY <3>2, PartialAssumption
      <4>2. ASSUME NEW b \in Builds, disk["case"] = b.summary PROVE FALSE
        <5>1. PICK r : b.summary = SummaryOf(b.case, r)
          BY BuildsAssumption
        <5>2. DOMAIN disk["case"] = {"digest", "rest"}
          BY <4>2, <5>1 DEF SummaryOf
        <5>3. DOMAIN disk["case"] = {"shape", "payload", "private"}
          BY <3>2 DEF Case
        <5> QED BY <5>2, <5>3
      <4> QED BY <4>1, <4>2 DEF SummariesBuilt
    <3>4. ~Leaks(disk["case"])
      BY <2>1, <2>2 DEF Scanned, ScanFile, Names
    <3> QED BY <3>3, <3>4 DEF Leaks
  <2> QED BY <2>1, <2>2, <2>3 DEF Pair, OneReport, Names
<1> QED BY <1>1, JobInductive, PTL

(* A job that succeeds has uploaded the registered study. *)
THEOREM GreenUploadsRegistered == JobSpec => []GreenMeansRegistered
<1>1. JInv => GreenMeansRegistered
  <2> DEFINE study == [case |-> Registered, summary |-> Expected,
                       report |-> ReportOf(Registered)]
  <2> SUFFICES ASSUME JInv, Green PROVE uploaded = study
    BY DEF GreenMeansRegistered
  <2>1. at = 6 /\ Len(outcome) = 5 /\ outcome \in Seq(Outcomes)
    BY StepNames DEF JInv, JobTyped, Green
  <2>2. outcome[3] = "success" /\ outcome[5] = "success"
    BY <2>1 DEF Green
  <2>3. uploaded = disk /\ Verified(disk) /\ disk \in Files
    BY <2>1, <2>2 DEF JInv, IInv, Typed, Artifact, Concluded
  <2>4. /\ disk["case"] = Registered /\ disk["summary"] = Expected
        /\ disk["report"] = ReportOf(Registered)
    BY <2>3, VerifiedFiles
  <2>5. disk = [n \in Names |-> disk[n]]
    BY <2>3 DEF Files
  <2>6. disk = study
    BY <2>4, <2>5 DEF Names
  <2> QED BY <2>3, <2>6
<1> QED BY <1>1, JobInductive, PTL
=============================================================================
