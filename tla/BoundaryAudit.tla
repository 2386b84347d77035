--------------------------- MODULE BoundaryAudit ---------------------------
(***************************************************************************)
(* audit_agent_boundary of src/src/boundary_audit.rs: the loop over the    *)
(* declared agent inputs, the loop over the capability groups with its     *)
(* saturating counters, and the report.                                    *)
(*                                                                         *)
(* A name is a model value: BadNames are those valid_identifier refuses,   *)
(* and a message shows all of them as the same <invalid-name>.  A finding  *)
(* is <<code, what its message tells>>; the final dedup merges equal       *)
(* (code, message) pairs, so it is the set itself.                         *)
(***************************************************************************)
EXTENDS Integers, Sequences, FiniteSets, Functions

CONSTANTS Cases, BadNames, MaxU64, None

ASSUME MaxU64Assumption == MaxU64 \in Nat \ {0}

(* Inputs, groups and allowed names are vectors, and the counts of a       *)
(* capability group are unsigned.                                          *)
WellFormed(c) ==
    /\ c.inputs \in Seq(Range(c.inputs)) /\ c.allowed \in Seq(Range(c.allowed))
    /\ c.capabilities \in Seq(Range(c.capabilities))
    /\ \A cap \in Range(c.capabilities) : cap.callable \in Nat /\ cap.mediated \in Nat

ASSUME CasesAssumption == \A c \in Cases : WellFormed(c)

VARIABLES
    case,        \* the argument
    pc,          \* "policy", "inputs", "capabilities", "done"
    at,          \* the next input or capability group
    seen,        \* input_names, then capability_names
    findings,    \* violations
    counts,      \* present, oracle, unapproved and alias counts
    live,        \* live_write_callable_count
    unmediated,  \* unmediated_write_callable_count
    overflow,    \* capability_count_overflow
    report       \* the AgentBoundaryReport, None before it is returned

vars == <<case, pc, at, seen, findings, counts, live, unmediated, overflow, report>>
capabilityVars == <<live, unmediated, overflow>>

AuditInit ==
    /\ pc = "policy"
    /\ at = 1
    /\ seen = {}
    /\ findings = {}
    /\ counts = [c \in {"present", "oracle", "unapproved", "alias"} |-> 0]
    /\ live = 0 /\ unmediated = 0 /\ overflow = FALSE
    /\ report = None

Init == case \in Cases /\ AuditInit

-----------------------------------------------------------------------------
When(condition, finding) == IF condition THEN {finding} ELSE {}

ValidIdentifier(name) == name \notin BadNames
DisplayName(name) == IF ValidIdentifier(name) THEN name ELSE "<invalid-name>"

(* Mutant: duplicates in the allowlist are accepted. *)
AllowlistOfNames(c) == \A name \in Range(c.allowed) : ValidIdentifier(name)

(* validate_policy returns Some(allowed) *)
AllowlistValid(c) ==
    /\ Cardinality(Range(c.allowed)) = Len(c.allowed)
    /\ \A name \in Range(c.allowed) : ValidIdentifier(name)

CheckPolicy ==
    /\ pc = "policy"
    /\ findings' = When(~case.schemaOk, <<"EF000", 0>>)
                     \cup When(~case.caseIdOk, <<"EF003", 0>>)
                     \cup When(~AllowlistValid(case), <<"EF310", 0>>)
    /\ pc' = "inputs"
    /\ UNCHANGED <<case, at, seen, counts, capabilityVars, report>>

(* validate_name: what it returns, the finding it adds, the name it marks. *)
NameValid(name) == ValidIdentifier(name) /\ name \notin seen

NameFindings(kind, name) ==
    When(~ValidIdentifier(name), <<"EF311", kind>>)
      \cup When(ValidIdentifier(name) /\ name \in seen, <<"EF312", <<kind, name>>>>)

-----------------------------------------------------------------------------
(* The loop over the inputs. *)

Unapproved(in) ==
    /\ in.present /\ ~in.oracle
    /\ NameValid(in.name)
    /\ AllowlistValid(case) /\ in.name \notin Range(case.allowed)

(* Mutant: an oracle whose name was already refused is not looked at. *)
OracleExposedOnce(in) == in.present /\ in.oracle /\ case.forbidOracle /\ NameValid(in.name)
OracleExposed(in) == in.present /\ in.oracle /\ case.forbidOracle

Aliased(in) == in.present /\ in.alias

InputFindings(in) ==
    LET shown == DisplayName(in.name) IN
    NameFindings("agent input", in.name)
      \cup When(in.digest = "bad", <<"EF309", shown>>)
      \cup When(~in.present /\ in.alias, <<"EF317", shown>>)
      \cup When(OracleExposed(in), <<"EF301", shown>>)
      \cup When(Unapproved(in), <<"EF302", shown>>)
      \cup When(Aliased(in) /\ case.forbidAlias, <<"EF305", shown>>)

Inc(n, condition) == IF condition THEN n + 1 ELSE n

ReadInput ==
    /\ pc = "inputs" /\ at <= Len(case.inputs)
    /\ LET in == case.inputs[at] IN
         /\ findings' = findings \cup InputFindings(in)
         /\ counts' = [present    |-> Inc(counts.present, in.present),
                       oracle     |-> Inc(counts.oracle, in.present /\ in.oracle),
                       unapproved |-> Inc(counts.unapproved, Unapproved(in)),
                       alias      |-> Inc(counts.alias, Aliased(in))]
         /\ seen' = seen \cup When(ValidIdentifier(in.name), in.name)
    /\ at' = at + 1
    /\ UNCHANGED <<case, pc, capabilityVars, report>>

EndInputs ==
    /\ pc = "inputs" /\ at > Len(case.inputs)
    /\ pc' = "capabilities"
    /\ at' = 1 /\ seen' = {}
    /\ UNCHANGED <<case, findings, counts, capabilityVars, report>>

-----------------------------------------------------------------------------
(* The loop over the capability groups. *)

CountsValid(cap) == /\ cap.callable <= cap.total
                    /\ cap.mediated <= cap.callable
                    /\ cap.exposed \/ cap.callable = 0

(* A group that reaches the counters: the others are left by continue. *)
Counts(cap) == CountsValid(cap) /\ cap.write /\ cap.exposed

Unmediated(cap) == cap.callable - cap.mediated

(* Mutant: the sum wraps around. *)
WrappingAdd(x, y) == (x + y) % (MaxU64 + 1)

(* checked_add, with u64::MAX and the overflow flag when it fails *)
SaturatingAdd(x, y) == IF x + y > MaxU64 THEN MaxU64 ELSE x + y
Overflows(x, y) == x + y > MaxU64

ReadCapability ==
    /\ pc = "capabilities" /\ at <= Len(case.capabilities)
    /\ LET cap == case.capabilities[at]
           shown == DisplayName(cap.name)
       IN
         /\ findings' = findings
              \cup NameFindings("capability group", cap.name)
              \cup When(~CountsValid(cap), <<"EF313", shown>>)
              \cup When(Counts(cap) /\ case.requireMediation /\ Unmediated(cap) > 0,
                        <<"EF303", <<shown, Unmediated(cap)>>>>)
         /\ IF Counts(cap)
            THEN /\ live' = SaturatingAdd(live, cap.callable)
                 /\ unmediated' = SaturatingAdd(unmediated, Unmediated(cap))
                 /\ overflow' = (\/ overflow
                                 \/ Overflows(live, cap.callable)
                                 \/ Overflows(unmediated, Unmediated(cap)))
            ELSE UNCHANGED capabilityVars
         /\ seen' = seen \cup When(ValidIdentifier(cap.name), cap.name)
    /\ at' = at + 1
    /\ UNCHANGED <<case, pc, counts, report>>

-----------------------------------------------------------------------------
(* The construction order, check_reported and the report. *)

OrderFindings(c) ==
    When(c.requireBaseline /\ ~c.beforeConstructor, <<"EF304", 0>>)
      \cup When(c.beforeConstructor /\ ~c.beforeFirstTurn, <<"EF315", 0>>)

Mismatch(reported, calculated) == reported # None /\ reported # calculated

ReportedFindings(c) ==
    IF c.reported = None THEN {}
    ELSE When(Mismatch(c.reported.inputs, Len(c.inputs)), <<"EF306", 0>>)
         \cup When(Mismatch(c.reported.oracles, counts.oracle), <<"EF307", 0>>)
         \cup When(Mismatch(c.reported.groups, Len(c.capabilities)), <<"EF308", 0>>)
         \cup When(Mismatch(c.reported.unmediated, unmediated), <<"EF314", 0>>)

Finish ==
    /\ pc = "capabilities" /\ at > Len(case.capabilities)
    /\ findings' = findings \cup When(overflow, <<"EF316", 0>>)
                     \cup OrderFindings(case) \cup ReportedFindings(case)
    /\ report' = [passed |-> findings' = {}, present |-> counts.present,
                  oracle |-> counts.oracle, unapproved |-> counts.unapproved,
                  alias |-> counts.alias, live |-> live, unmediated |-> unmediated,
                  prebaseline |-> IF case.beforeConstructor THEN 0 ELSE 1]
    /\ pc' = "done"
    /\ UNCHANGED <<case, at, seen, counts, capabilityVars>>

Done == pc = "done" /\ UNCHANGED vars

Next == CheckPolicy \/ ReadInput \/ EndInputs \/ ReadCapability \/ Finish \/ Done

Spec == Init /\ [][Next]_vars /\ WF_vars(Next)

-----------------------------------------------------------------------------
(* Properties *)

(* The declared boundary holds, said without the loops. *)
Names(list) == [i \in DOMAIN list |-> list[i].name]

KeepsContract ==
    LET I == Range(case.inputs)
        C == Range(case.capabilities)
        Exact(n, m) == n \in {None, m}
        Write == {i \in DOMAIN case.capabilities :
                    case.capabilities[i].write /\ case.capabilities[i].exposed}
        Sum(f(_)) == SumFunctionOnSet([i \in Write |-> f(case.capabilities[i])], Write)
        Callable(c) == c.callable
    IN  /\ case.schemaOk /\ case.caseIdOk
        /\ \A list \in {case.allowed, Names(case.inputs), Names(case.capabilities)} :
             IsInjective(list) /\ Range(list) \cap BadNames = {}
        /\ \A in \in I : /\ in.digest # "bad"
                         /\ in.alias => in.present /\ ~case.forbidAlias
                         /\ in.present => IF in.oracle THEN ~case.forbidOracle
                                          ELSE in.name \in Range(case.allowed)
        /\ \A c \in C : /\ c.mediated <= c.callable /\ c.callable <= c.total
                        /\ ~c.exposed => c.callable = 0
                        /\ case.requireMediation /\ c.write => c.mediated = c.callable
        /\ Sum(Callable) <= MaxU64
        /\ case.requireBaseline => case.beforeConstructor
        /\ case.beforeConstructor => case.beforeFirstTurn
        /\ case.reported # None =>
             /\ Exact(case.reported.inputs, Len(case.inputs))
             /\ Exact(case.reported.groups, Len(case.capabilities))
             /\ Exact(case.reported.unmediated, Sum(Unmediated))
             /\ Exact(case.reported.oracles,
                      Cardinality({i \in DOMAIN case.inputs :
                                     case.inputs[i].present /\ case.inputs[i].oracle}))

(* Passing is equivalent to the contract: a check that one bad declaration *)
(* switches off (the allowlist lookup of a duplicate name, the counters of *)
(* an inconsistent group, the whole allowlist when it is invalid) never    *)
(* lets a case pass.                                                       *)
PassMeansBoundary == pc = "done" => (report.passed <=> KeepsContract)

(* After every group the counters are the true sums cut at u64::MAX, the   *)
(* flag is up exactly when a true sum is larger, and no more callables are *)
(* unmediated than live.  So a count of u64::MAX is told from an overflow. *)
SaturatingCounters ==
    LET Read == IF pc = "capabilities" THEN 1 .. at - 1
                ELSE IF pc = "done" THEN DOMAIN case.capabilities ELSE {}
        True(f(_)) == SumFunctionOnSet([i \in Read |-> f(case.capabilities[i])],
                                       {i \in Read : Counts(case.capabilities[i])})
        Callable(cap) == cap.callable
        Cut(n) == IF n > MaxU64 THEN MaxU64 ELSE n
    IN  /\ live = Cut(True(Callable))
        /\ unmediated = Cut(True(Unmediated))
        /\ overflow <=> True(Callable) > MaxU64
        /\ unmediated <= live

(* A non-zero count the policy forbids is never without its finding, even  *)
(* where findings about different bad names collapse into one.             *)
CountsHaveFindings ==
    pc = "done" =>
      LET Has(code) == \E v \in findings : v[1] = code
      IN  /\ Has("EF301") <=> case.forbidOracle /\ report.oracle > 0
          /\ Has("EF302") <=> report.unapproved > 0
          /\ Has("EF305") <=> case.forbidAlias /\ report.alias > 0
          /\ Has("EF303") <=> case.requireMediation /\ report.unmediated > 0
          /\ Has("EF304") <=> case.requireBaseline /\ report.prebaseline > 0

(* docs/AGENT_BOUNDARY_CONTRACT.md:115 says of EF302: "A present           *)
(* non-oracle input is not allowlisted."  Here: under a valid allowlist    *)
(* every such input that has a valid name is named by an EF302 finding.    *)
UnapprovedInputNamed ==
    pc = "done" /\ AllowlistValid(case) =>
      \A in \in Range(case.inputs) :
        in.present /\ ~in.oracle /\ ValidIdentifier(in.name)
          /\ in.name \notin Range(case.allowed) => <<"EF302", in.name>> \in findings
=============================================================================
