--------------------------- MODULE BoundaryProbe ---------------------------
(***************************************************************************)
(* src/scripts/statebench_boundary_audit.py up to the case it builds, and  *)
(* the audit of that case: the generator runs one task of every domain     *)
(* with an agent, an environment and clients of its own that record what   *)
(* upstream does with them, then the two arms of the causal control.       *)
(*                                                                         *)
(* Upstream's orchestrator is not in the repository.  It calls back in any *)
(* order and number, swallows the error of a client call or not, and may   *)
(* keep the requirement lists and change them; an honest one does what the *)
(* registered events say.  A behaviour may also start from a given case.   *)
(***************************************************************************)
EXTENDS BoundaryAudit

CONSTANTS
    Domains,            \* EXPECTED_DOMAINS, in order
    WriteCount,         \* EXPECTED_WRITE_COUNTS
    ItemCount,          \* EXPECTED_CONTEXT_COUNTS: a function of Lists per domain
    Environments,       \* what a domain may turn out to be: [writes, handlers, items]
    Needed,             \* the cart items of the registered task's state requirements
    MaxCalls, MaxTurns  \* bounds on the calls upstream makes in one run_task

ASSUME DomainsAssumption == Domains \in Seq(Range(Domains))

VARIABLES
    stage,      \* "given", or "probe", "control", "build", "audit", "refused"
    honest,     \* how upstream behaves
    env,        \* the environment of the running task, None between two
    events,     \* as recorded by agent and environment
    capture,    \* what the constructor of the agent was given last
    counters,   \* the calls of the client stub
    observed,   \* the observations of the finished domains
    payload,    \* per domain: TRUE while its requirement lists are the loaded ones
    arm,        \* the running arm of the control, with the result of the first
    summary,    \* what build_summary keeps of the rest
    log         \* per domain: every call upstream really made (read by properties only)

probeVars == <<stage, honest, env, events, capture, counters, observed, payload, arm, summary, log>>

ExpectedEvents == <<"agent_constructor", "baseline_snapshot", "first_agent_turn", "final_snapshot">>
Lanes == {"agent", "simulator", "judge"}
NoCalls == [agent |-> 0, simulator |-> 0]
NewArm(n, result) ==
    [number |-> n, first |-> result, turns |-> 0, seen |-> FALSE, calls |-> 0, errors |-> 0,
     cart |-> [i \in Needed |-> 0]]

D == Len(observed) + 1      \* the running domain

ProbeInit ==
    /\ \/ case \in Cases /\ stage = "given" /\ honest = TRUE
       \/ case = None /\ stage = "probe" /\ honest \in BOOLEAN
    /\ AuditInit
    /\ env = None /\ events = <<>> /\ capture = None
    /\ counters = NoCalls
    /\ observed = <<>>
    /\ payload = [d \in DOMAIN Domains |-> TRUE]
    /\ arm = NewArm(1, None)
    /\ summary = None
    /\ log = [d \in DOMAIN Domains |-> <<>>]

-----------------------------------------------------------------------------
(* One run_task of the probe. *)

Refuse == stage' = "refused"

LoadTask ==
    /\ stage = "probe" /\ env = None /\ D <= Len(Domains)
    /\ \E e \in Environments[Domains[D]] :
         /\ honest => Cardinality(e.writes) = WriteCount[Domains[D]]
                        /\ e.items = ItemCount[Domains[D]]
         /\ env' = e
    /\ events' = <<>> /\ capture' = None
    /\ UNCHANGED <<stage, honest, counters, observed, payload, arm, summary, log>>

HonestCalls == <<"construct", "snapshot", "turn", "snapshot">>

Calls(call) ==
    /\ stage = "probe" /\ env # None /\ Len(log[D]) < MaxCalls
    /\ honest => \E n \in DOMAIN HonestCalls : Append(log[D], call) = SubSeq(HonestCalls, 1, n)
    /\ log' = [log EXCEPT ![D] = Append(@, call)]
    /\ UNCHANGED <<stage, honest, env, observed, payload, arm, summary>>

Faithful == [summary |-> TRUE, state |-> "same", task |-> "same",
             handlers |-> env.handlers, callable |-> env.handlers]

Contexts ==
    {Faithful, [Faithful EXCEPT !.summary = FALSE], [Faithful EXCEPT !.state = "copy"],
     [Faithful EXCEPT !.task = "copy"]}
      \cup {[Faithful EXCEPT !.callable = @ \ {h}] : h \in env.handlers}
      \cup {[Faithful EXCEPT !.handlers = @ \ {h}, !.callable = @ \ {h}] : h \in env.handlers}

Record(event) == events' = Append(events, event)

(* ContextCaptureAgent.__init__ *)
Construct == /\ Calls("construct")
             /\ Record("agent_constructor")
             /\ \E c \in Contexts : (honest => c = Faithful) /\ capture' = c
             /\ UNCHANGED counters

(* SnapshotLoggingEnvironment.get_full_snapshot *)
Snapshot == /\ Calls("snapshot")
            /\ Record(IF "baseline_snapshot" \in Range(events)
                      THEN "final_snapshot" ELSE "baseline_snapshot")
            /\ UNCHANGED <<capture, counters>>

(* ContextCaptureAgent.generate_next_turn *)
Turn == /\ Calls("turn")
        /\ IF "first_agent_turn" \in Range(events) THEN UNCHANGED events
           ELSE Record("first_agent_turn")
        /\ UNCHANGED <<capture, counters>>

Key(lane) == IF lane = "simulator" THEN "simulator" ELSE "agent"

(* complete_chat or respond of the stub, its error swallowed by upstream;  *)
(* at most one call in a behaviour.                                        *)
ClientCall == /\ Calls("client") /\ counters = NoCalls
              /\ \E lane \in Lanes : counters' = [counters EXCEPT ![Key(lane)] = @ + 1]
              /\ UNCHANGED <<events, capture>>

(* An error out of upstream, the stub's or its own, ends the generator. *)
Raise == /\ stage \in {"probe", "control"} /\ ~honest
         /\ Refuse
         /\ UNCHANGED <<honest, env, events, capture, counters, observed, payload, arm, summary, log>>

(* Upstream changes the requirement lists of one task it has loaded. *)
Touch == /\ stage \in {"probe", "control", "build"} /\ ~honest
         /\ \E d \in DOMAIN Domains :
              /\ (\A e \in DOMAIN Domains : payload[e]) /\ (d < D \/ (d = D /\ env # None))
              /\ payload' = [payload EXCEPT ![d] = FALSE]
         /\ UNCHANGED <<stage, honest, env, events, capture, counters, observed, arm, summary, log>>

Alias(context) == context.state = "same" /\ context.task = "same"

(* Mutant: only the order after the first two events is compared. *)
RegisteredTurns == Len(events) = 4 /\ SubSeq(events, 3, 4) = SubSeq(ExpectedEvents, 3, 4)
RegisteredOrder == events = ExpectedEvents

(* conditions: the payloads are equal because they are the same objects *)
Conditions ==
    /\ capture # None
    /\ capture.summary /\ Alias(capture)
    /\ capture.handlers = env.handlers
    /\ env.writes \cap capture.callable = env.writes
    /\ RegisteredOrder

FinishTask ==
    /\ stage = "probe" /\ env # None
    /\ honest => log[D] = HonestCalls
    /\ IF /\ Conditions
          /\ env.items = ItemCount[Domains[D]]
          /\ Cardinality(env.writes) = WriteCount[Domains[D]]
       THEN /\ observed' = Append(observed,
                 [domain |-> Domains[D], items |-> env.items, payload |-> payload[D],
                  writes |-> Cardinality(env.writes),
                  callable |-> Cardinality(env.writes \cap capture.callable)])
            /\ UNCHANGED stage
       ELSE Refuse /\ UNCHANGED observed
    /\ env' = None
    /\ UNCHANGED <<honest, events, capture, counters, payload, arm, summary, log>>

(* Mutant: a swallowed call of the simulator is not asked about. *)
AgentLaneQuiet == counters.agent = 0
NoClientCalls == counters = NoCalls

EndProbe ==
    /\ stage = "probe" /\ env = None /\ D > Len(Domains)
    /\ stage' = IF NoClientCalls THEN "control" ELSE "refused"
    /\ UNCHANGED <<honest, env, events, capture, counters, observed, payload, arm, summary, log>>

-----------------------------------------------------------------------------
(* The causal control. *)

(* What ContextOnlyOracleAgent asks for before it has seen a tool round;   *)
(* StateRequirementsRemovedAgent has no requirements to read.              *)
Required(number) == IF number = 1 THEN Needed ELSE {}

(* Mutant: the agent asks again after a tool round. *)
RequestsAlways(a) == Required(a.number)
Requests(a) == IF a.seen THEN {} ELSE Required(a.number)

(* A turn of the arm and the tool round upstream makes of it. *)
ControlTurn ==
    /\ stage = "control" /\ arm.turns < MaxTurns
    /\ \E done \in SUBSET Requests(arm) : \E failed \in SUBSET (Requests(arm) \ done) :
         /\ honest => done = Requests(arm)
         /\ arm' = [arm EXCEPT !.turns = @ + 1,
                               !.seen = @ \/ (done \cup failed) # {},
                               !.calls = @ + Cardinality(done \cup failed),
                               !.errors = @ + Cardinality(failed),
                               !.cart = [i \in Needed |-> IF i \in done THEN @[i] + 1 ELSE @[i]]]
    /\ UNCHANGED <<stage, honest, env, events, capture, counters, observed, payload, summary, log>>

ControlClientCall ==
    /\ stage = "control" /\ ~honest /\ counters = NoCalls
    /\ \E lane \in Lanes : counters' = [counters EXCEPT ![Key(lane)] = @ + 1]
    /\ UNCHANGED <<stage, honest, env, events, capture, observed, payload, arm, summary, log>>

ArmResult == [score |-> IF \A i \in Needed : arm.cart[i] = 1 THEN 1 ELSE 0,
              calls |-> arm.calls, errors |-> arm.errors,
              empty |-> \A i \in Needed : arm.cart[i] = 0]

ExpectedResult(number) ==
    IF number = 1
    THEN [score |-> 1, calls |-> Cardinality(Needed), errors |-> 0, empty |-> FALSE]
    ELSE [score |-> 0, calls |-> 0, errors |-> 0, empty |-> TRUE]

Controlled == arm.first = ExpectedResult(1) /\ ArmResult = ExpectedResult(2)

(* run_arm returns; after the second both results are compared. *)
FinishArm ==
    /\ stage = "control"
    /\ honest => arm.turns > 0 /\ (Requests(arm) = {} \/ arm.turns = MaxTurns)
    /\ IF arm.number = 1 THEN arm' = NewArm(2, ArmResult) /\ UNCHANGED stage
       ELSE /\ stage' = IF Controlled /\ NoClientCalls THEN "build" ELSE "refused"
            /\ UNCHANGED arm
    /\ UNCHANGED <<honest, env, events, capture, counters, observed, payload, summary, log>>

-----------------------------------------------------------------------------
(* The case and its summary. *)

SumOf(list, f(_)) == SumFunction([i \in DOMAIN list |-> f(list[i])])

Metadata == <<"task_id", "user_id", "domain", "now">>
Oracles == <<"task_summary", "state_requirements", "task_requirements">>
Lists == {"state_requirements", "task_requirements"}

Input(name, oracle, alias, items) ==
    [name |-> name, oracle |-> oracle, present |-> TRUE, digest |-> "good", alias |-> alias,
     items |-> items]

(* Mutant: the lists are counted, not their items. *)
ListCount(obs, list) == Len(obs)
ItemSum(obs, list) == LET Items(o) == o.items[list] IN SumOf(obs, Items)

BuiltInputs(obs) ==
    [i \in 1 .. 4 |-> Input(Metadata[i], FALSE, FALSE, Len(obs))]
      \o <<Input(Oracles[1], TRUE, FALSE, Len(obs))>>
      \o [i \in 1 .. 2 |-> Input(Oracles[i + 1], TRUE, TRUE, ItemSum(obs, Oracles[i + 1]))]

BuiltCase(obs, payloads) ==
    LET Callable(o) == o.callable IN
    [schemaOk |-> TRUE, caseIdOk |-> TRUE, inputs |-> BuiltInputs(obs),
     capabilities |-> [i \in DOMAIN obs |->
        [name |-> obs[i].domain, write |-> TRUE, exposed |-> TRUE, total |-> obs[i].writes,
         callable |-> obs[i].callable, mediated |-> 0]],
     beforeConstructor |-> FALSE, beforeFirstTurn |-> TRUE,
     reported |-> [inputs |-> 7, oracles |-> 3, groups |-> Len(obs),
                   unmediated |-> SumOf(obs, Callable)],
     allowed |-> Metadata, forbidOracle |-> TRUE, forbidAlias |-> TRUE,
     requireMediation |-> TRUE, requireBaseline |-> TRUE,
     payloads |-> payloads]

BuildCase ==
    /\ stage = "build"
    /\ case' = BuiltCase(observed, payload)
    /\ summary' = [observed |-> observed, control |-> <<arm.first, ArmResult>>,
                   digest |-> case', calls |-> counters]
    /\ stage' = "audit"
    /\ UNCHANGED <<honest, env, events, capture, counters, observed, payload, arm, log>>
    /\ UNCHANGED <<pc, at, seen, findings, counts, capabilityVars, report>>

-----------------------------------------------------------------------------
ProbeStep == \/ LoadTask \/ Construct \/ Snapshot \/ Turn \/ ClientCall \/ Raise \/ Touch
             \/ FinishTask \/ EndProbe \/ ControlTurn \/ ControlClientCall \/ FinishArm

AuditStep == stage \in {"given", "audit"} /\ Next /\ UNCHANGED probeVars

Refused == stage = "refused" /\ UNCHANGED <<vars, probeVars>>

ProbeNext == \/ ProbeStep /\ UNCHANGED vars
             \/ BuildCase \/ AuditStep \/ Refused

(* An honest orchestrator returns; a generator does not wait for another.  *)
ProbeSpec == ProbeInit /\ [][ProbeNext]_<<vars, probeVars>> /\ WF_<<vars, probeVars>>(ProbeNext)

-----------------------------------------------------------------------------
(* verify_statebench_case_study.py, in full for the case and the report. *)

ItemsExpected(name) ==
    LET Items(d) == ItemCount[d][name] IN
    IF name \in Lists THEN SumOf(Domains, Items) ELSE Len(Domains)

TotalWrites == LET Writes(d) == WriteCount[d] IN SumOf(Domains, Writes)

VerifyCase(c) ==
    /\ Len(c.inputs) = 7
    /\ {in.name : in \in Range(c.inputs)} = Range(Metadata) \cup Range(Oracles)
    /\ \A in \in Range(c.inputs) :
         /\ in.present /\ in.items = ItemsExpected(in.name)
         /\ in.oracle <=> in.name \in Range(Oracles)
         /\ in.alias <=> in.name \in Lists
    /\ Len(c.capabilities) = Len(Domains)
    /\ \A d \in Range(Domains) : \E cap \in Range(c.capabilities) :
         cap = [name |-> d, write |-> TRUE, exposed |-> TRUE, total |-> WriteCount[d],
                callable |-> WriteCount[d], mediated |-> 0]
    /\ ~c.beforeConstructor /\ c.beforeFirstTurn
    /\ c.reported = [inputs |-> 7, oracles |-> 3, groups |-> Len(Domains),
                     unmediated |-> TotalWrites]
    /\ c.allowed = Metadata
    /\ c.forbidOracle /\ c.forbidAlias /\ c.requireMediation /\ c.requireBaseline

(* The registered study: named domains that differ, each with a write to   *)
(* count, and as many writes as a counter holds.                           *)
ASSUME StudyAssumption ==
    /\ Domains # <<>> /\ IsInjective(Domains)
    /\ (Range(Domains) \cup Range(Metadata) \cup Range(Oracles)) \cap BadNames = {}
    /\ \A d \in Range(Domains) : WriteCount[d] \in Nat \ {0}
    /\ TotalWrites <= MaxU64

ExpectedCodes == [EF301 |-> 3, EF303 |-> Len(Domains), EF304 |-> 1, EF305 |-> 2]

VerifyReport(r, violations) ==
    /\ r = [passed |-> FALSE, present |-> 7, oracle |-> 3, unapproved |-> 0, alias |-> 2,
            live |-> TotalWrites, unmediated |-> TotalWrites, prebaseline |-> 1]
    /\ {v[1] : v \in violations} = DOMAIN ExpectedCodes
    /\ \A code \in DOMAIN ExpectedCodes :
         Cardinality({v \in violations : v[1] = code}) = ExpectedCodes[code]

ExpectedObserved ==
    [i \in DOMAIN Domains |->
       [domain |-> Domains[i], items |-> ItemCount[Domains[i]], payload |-> TRUE,
        writes |-> WriteCount[Domains[i]], callable |-> WriteCount[Domains[i]]]]

ExpectedSummary ==
    [observed |-> ExpectedObserved, calls |-> NoCalls,
     control |-> <<ExpectedResult(1), ExpectedResult(2)>>,
     digest |-> BuiltCase(ExpectedObserved, [d \in DOMAIN Domains |-> TRUE])]

Verified == /\ VerifyCase(case) /\ VerifyReport(report, findings)
            /\ summary = ExpectedSummary /\ summary.digest = case

-----------------------------------------------------------------------------
(* Properties *)

Built == stage = "audit"

(* What the built case declares as literals is what upstream did, in every *)
(* domain: one agent, constructed before the environment was looked at;    *)
(* a baseline before every turn it took, and a snapshot after one.         *)
DeclaredIsObserved ==
    Built =>
      \A d \in DOMAIN Domains :
        LET l == log[d]
            Of(call) == {i \in DOMAIN l : l[i] = call}
        IN  /\ Cardinality(Of("construct")) = 1
            /\ ~case.beforeConstructor =>
                 \A i \in Of("construct"), j \in Of("snapshot") \cup Of("turn") : i < j
            /\ case.beforeFirstTurn =>
                 \A j \in Of("turn") : \E i \in Of("snapshot") : i < j
            /\ \E i, k \in Of("snapshot"), j \in Of("turn") : i < j /\ j < k

(* A case is built only if no client was called in any domain, in any lane *)
(* and in neither arm, also where upstream swallowed the error: what was   *)
(* published as zero calls is zero attempts.                               *)
NoUnseenCall ==
    Built => (/\ \A d \in DOMAIN Domains : "client" \notin Range(log[d])
             /\ counters = NoCalls /\ summary.calls = counters)

(* The three programs agree on every built case: evalfence reports of it   *)
(* exactly what the verifier has registered.  Only the payloads are still  *)
(* open: they are hashed after each task and again at the end, and the     *)
(* study verifies exactly when no list had changed by either time.         *)
StudyVerifies ==
    Built /\ pc = "done" =>
      /\ VerifyCase(case) /\ VerifyReport(report, findings)
      /\ Verified <=> (/\ \A d \in DOMAIN Domains : case.payloads[d]
                      /\ \A o \in Range(observed) : o.payload)

(* The registered upstream gets through: an orchestrator that keeps to the *)
(* registered events ends in a study that verifies.                        *)
HonestStudyVerifies == (stage = "probe" /\ honest) ~> (Built /\ pc = "done" /\ Verified)
=============================================================================
