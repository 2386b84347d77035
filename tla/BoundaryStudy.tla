--------------------------- MODULE BoundaryStudy ---------------------------
(***************************************************************************)
(* The programs of the STATE-Bench case study in one checkout: the         *)
(* generator src/scripts/statebench_boundary_audit.py, evalfence itself,   *)
(* verify_statebench_case_study.py and privacy_gate.py.  They share three  *)
(* files and no lock; any of them may be started, killed and started again *)
(* in any order, also while another is running.                            *)
(*                                                                         *)
(* A case is what the programs tell apart: whether its shape (counts,      *)
(* names, policy) is the registered one, which payloads its hashes are of, *)
(* and whether a text in it is private.  A summary carries the case it was *)
(* made with, as boundary_case_sha256, and the rest: "registered", or      *)
(* other "hashes", which verify_summary takes in any value, or other       *)
(* "counts", which stands for every field it compares one by one.          *)
(***************************************************************************)
EXTENDS Integers, Sequences

CONSTANTS
    Procs,
    Builds,         \* what the generator may build: [case, summary]
    Registered,     \* the case behind the committed summary
    Partial,        \* a file that is truncated
    None

Case == [shape : {"registered", "other"}, payload : Nat, private : BOOLEAN]
SummaryOf(c, rest) == [digest |-> c, rest |-> rest]
ReportOf(c) == [shape |-> c.shape, private |-> c.private]

ASSUME RegisteredAssumption ==
    Registered \in Case /\ Registered.shape = "registered" /\ ~Registered.private
ASSUME BuildsAssumption ==
    \A b \in Builds : \E r \in {"registered", "hashes", "counts"} :
       b.case \in Case /\ b.summary = SummaryOf(b.case, r)

Programs == {"generate", "evalfence", "verify", "gate"}
Names == {"case", "summary", "report"}

ASSUME NoneAssumption == None \notin Programs /\ None # 0
ASSUME PartialAssumption == Partial \notin Case

VARIABLES
    disk,           \* the three files
    prog, pc,       \* per process: the program and where it is
    made,           \* per process: [case, summary] as built by the generator
    todo,           \* per process: names of the files left to write or to read
    got,            \* per process: what it has read
    exit            \* per process: exit code, or None

vars == <<disk, prog, pc, made, todo, got, exit>>

Killed == -9

Expected == SummaryOf(Registered, "registered")
CasesBuilt == {b.case : b \in Builds}
SummariesBuilt == {b.summary : b \in Builds}
Nothing == [n \in Names |-> None]

TypeOK ==
    /\ disk["case"] \in CasesBuilt \cup {None}
    /\ disk["summary"] \in SummariesBuilt \cup {None}
    /\ disk["report"] \in {ReportOf(c) : c \in CasesBuilt} \cup {Partial, None}
    /\ prog \in [Procs -> Programs \cup {None}]
    /\ pc \in [Procs -> {"build", "stage", "replace", "read", "judge", "open", "write", "ended"}]
    /\ made \in [Procs -> Builds \cup {None}]
    /\ \A p \in Procs : exit[p] \in {None, 0, 1, 2, Killed}

Init ==
    /\ disk = Nothing
    /\ prog = [p \in Procs |-> None]
    /\ pc = [p \in Procs |-> "ended"]
    /\ made = [p \in Procs |-> None]
    /\ todo = [p \in Procs |-> <<>>]
    /\ got = [p \in Procs |-> Nothing]
    /\ exit = [p \in Procs |-> None]

-----------------------------------------------------------------------------
(* What the programs require of the files they read. *)

VerifyCase(c) == c.shape = "registered"

(* Mutant: the digest of the case is not compared. *)
VerifyCounts(s, c) == s.rest # "counts"
VerifySummary(s, c) == s.rest # "counts" /\ s.digest = c

(* Mutant: the comparison leaves out the digest of the case. *)
VerifyAllButDigest(s) == s.rest = "registered"
VerifyExactSummary(s) == s = Expected
VerifyReport(r) == r.shape = "registered"
PublicShape(x) == ~x.private

Verified(files) ==
    /\ \A n \in Names : files[n] \notin {None, Partial}
    /\ PublicShape(files["case"]) /\ PublicShape(files["report"])
    /\ VerifyCase(files["case"])
    /\ VerifySummary(files["summary"], files["case"])
    /\ VerifyExactSummary(files["summary"])
    /\ VerifyReport(files["report"])

(* What the patterns of privacy_gate.py find; a cut-off text is a text. *)
Leaks(content) ==
    IF content \in SummariesBuilt \cup {Partial} THEN FALSE ELSE content.private

(* Mutant: a file that is not there has nothing to hide. *)
ScanPresent(content) == IF content = None THEN TRUE ELSE ~Leaks(content)
ScanFile(content) == IF content = None THEN FALSE ELSE ~Leaks(content)

Scanned(files) == \A n \in Names : ScanFile(files[n])

-----------------------------------------------------------------------------
Goto(p, label) == pc' = [pc EXCEPT ![p] = label] /\ UNCHANGED exit
Exit(p, code) == pc' = [pc EXCEPT ![p] = "ended"] /\ exit' = [exit EXCEPT ![p] = code]

FilesOf(g) == CASE g = "generate" -> <<"case", "summary">>
                [] g = "evalfence" -> <<"case">>
                [] g = "verify" -> <<"summary", "case", "report">>
                [] g = "gate" -> <<"case", "summary", "report">>

Start(p, g) ==
    /\ pc[p] = "ended"
    /\ prog' = [prog EXCEPT ![p] = g]
    /\ pc' = [pc EXCEPT ![p] = IF g = "generate" THEN "build" ELSE "read"]
    /\ made' = [made EXCEPT ![p] = None]
    /\ todo' = [todo EXCEPT ![p] = FilesOf(g)]
    /\ got' = [got EXCEPT ![p] = Nothing]
    /\ exit' = [exit EXCEPT ![p] = None]
    /\ UNCHANGED disk

(* Source check, probe and control: a case and its summary, or an exit. *)
Build(p) ==
    /\ pc[p] = "build"
    /\ \/ /\ \E b \in Builds : made' = [made EXCEPT ![p] = b]
          /\ Goto(p, "stage")
       \/ Exit(p, 1) /\ UNCHANGED made
    /\ UNCHANGED <<disk, prog, todo, got>>

(* Mutant: write_canonical writes the target itself. *)
StageInPlace(p) ==
    /\ pc[p] = "stage"
    /\ disk' = [disk EXCEPT ![Head(todo[p])] = Partial]
    /\ Goto(p, "replace")
    /\ UNCHANGED <<prog, made, todo, got>>

(* write_canonical: the temporary file *)
Stage(p) ==
    /\ pc[p] = "stage"
    /\ Goto(p, "replace") \/ Exit(p, 1)
    /\ UNCHANGED <<disk, prog, made, todo, got>>

(* write_canonical: os.replace *)
Replace(p) ==
    /\ pc[p] = "replace"
    /\ \/ /\ disk' = [disk EXCEPT ![Head(todo[p])] =
                        IF Head(todo[p]) = "case" THEN made[p].case ELSE made[p].summary]
          /\ todo' = [todo EXCEPT ![p] = Tail(@)]
          /\ IF Len(todo[p]) = 1 THEN Exit(p, 0) ELSE Goto(p, "stage")
       \/ Exit(p, 1) /\ UNCHANGED <<disk, todo>>
    /\ UNCHANGED <<prog, made, got>>

(* The next file of a program that reads.  The gate goes on without it. *)
Read(p) ==
    /\ pc[p] = "read"
    /\ LET n == Head(todo[p]) IN
         IF disk[n] = None /\ prog[p] # "gate"
         THEN Exit(p, 1) /\ UNCHANGED <<todo, got>>
         ELSE /\ got' = [got EXCEPT ![p][n] = disk[n]]
              /\ todo' = [todo EXCEPT ![p] = Tail(@)]
              /\ Goto(p, IF Len(todo[p]) > 1 THEN "read"
                         ELSE IF prog[p] = "evalfence" THEN "open" ELSE "judge")
    /\ UNCHANGED <<disk, prog, made>>

Judge(p) ==
    /\ pc[p] = "judge"
    /\ LET ok == IF prog[p] = "verify" THEN Verified(got[p]) ELSE Scanned(got[p]) IN
         Exit(p, IF ok THEN 0 ELSE 1)
    /\ UNCHANGED <<disk, prog, made, todo, got>>

(* evalfence truncates its output and writes the report; every case of     *)
(* this study has findings.                                                *)
OpenReport(p) ==
    /\ pc[p] = "open"
    /\ \/ disk' = [disk EXCEPT !["report"] = Partial] /\ Goto(p, "write")
       \/ Exit(p, 1) /\ UNCHANGED disk
    /\ UNCHANGED <<prog, made, todo, got>>

WriteReport(p) ==
    /\ pc[p] = "write"
    /\ \/ disk' = [disk EXCEPT !["report"] = ReportOf(got[p]["case"])] /\ Exit(p, 2)
       \/ Exit(p, 1) /\ UNCHANGED disk
    /\ UNCHANGED <<prog, made, todo, got>>

Kill(p) == /\ pc[p] # "ended" /\ Exit(p, Killed)
           /\ UNCHANGED <<disk, prog, made, todo, got>>

Step(p) == \/ Build(p) \/ Stage(p) \/ Replace(p) \/ Read(p) \/ Judge(p)
           \/ OpenReport(p) \/ WriteReport(p)

Next == \E p \in Procs : Step(p) \/ Kill(p) \/ \E g \in Programs : Start(p, g)

Spec == Init /\ [][Next]_vars

-----------------------------------------------------------------------------
(* Properties *)

(* The verifier passes only the registered study: whatever was killed      *)
(* between the two files or ran beside it, the case it read is the one of  *)
(* the committed summary, payloads and all, and the report is of a case    *)
(* with the same findings.                                                 *)
VerifiedIsRegistered ==
    \A p \in Procs :
       prog[p] = "verify" /\ exit[p] = 0 =>
          /\ got[p]["case"] = Registered
          /\ got[p]["summary"] = Expected
          /\ got[p]["report"] = ReportOf(Registered)
=============================================================================
