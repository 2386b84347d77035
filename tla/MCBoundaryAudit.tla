-------------------------- MODULE MCBoundaryAudit --------------------------
(***************************************************************************)
(* Cases for TLC.  InputCases: up to two inputs over two good and two bad  *)
(* names.  CapabilityCases: up to three groups whose counts reach past     *)
(* MaxU64.  ReportCases: every construction order and every set of         *)
(* declared counts around one input and one group.                         *)
(***************************************************************************)
EXTENDS BoundaryAudit

ListsUpTo(n, S) == UNION {[1 .. k -> S] : k \in 0 .. n}

Case(inputs, caps, allowed, oracle, alias, mediation) ==
    [schemaOk |-> TRUE, caseIdOk |-> TRUE, inputs |-> inputs, capabilities |-> caps,
     allowed |-> allowed, forbidOracle |-> oracle, forbidAlias |-> alias,
     requireMediation |-> mediation, requireBaseline |-> TRUE,
     beforeConstructor |-> TRUE, beforeFirstTurn |-> TRUE, reported |-> None]

Inputs ==
    {in \in [name : {"task", "clock", "bad 1", "bad 2"}, oracle : BOOLEAN,
             present : BOOLEAN, digest : {"good", "bad"}, alias : BOOLEAN] :
       in.digest = "bad" => in.name = "bad 1"}

(* The list of allowed names may itself be bad, with everything forbidden. *)
Policies ==
    {[allowed |-> <<"task">>, oracle |-> o, alias |-> a] : o \in BOOLEAN, a \in BOOLEAN}
      \cup {[allowed |-> <<"task", "task">>, oracle |-> TRUE, alias |-> TRUE]}

InputCases ==
    {Case(in, <<>>, p.allowed, p.oracle, p.alias, TRUE) : in \in ListsUpTo(2, Inputs), p \in Policies}

Group(name, write, exposed, c, m) ==
    [name |-> name, write |-> write, exposed |-> exposed, total |-> MaxU64,
     callable |-> c, mediated |-> m]

Groups ==
    {Group("w1", TRUE, TRUE, c, m) : c \in 0 .. MaxU64 + 1, m \in 0 .. MaxU64}
    \cup {Group("w2", TRUE, TRUE, c, c % 2) : c \in 1 .. MaxU64}
    \cup {Group("r", FALSE, TRUE, MaxU64, 0), Group("hidden", TRUE, FALSE, 1, 0),
          Group("bad 1", TRUE, TRUE, 1, 1)}

(* Whether mediation is required does not change what is counted. *)
CapabilityCases ==
    {Case(<<>>, caps, <<>>, TRUE, TRUE, TRUE) : caps \in ListsUpTo(3, Groups)}
      \cup {Case(<<>>, caps, <<>>, TRUE, TRUE, FALSE) : caps \in ListsUpTo(2, Groups)}

Declarations ==
    {None} \cup [inputs : {None, 1}, oracles : {None, 0, 1}, groups : {None, 1},
                 unmediated : {None, 0, 1}]

ReportCases ==
    {[schemaOk |-> s, caseIdOk |-> s, inputs |-> in, capabilities |-> caps,
      allowed |-> <<"task">>, forbidOracle |-> FALSE, forbidAlias |-> TRUE,
      requireMediation |-> FALSE, requireBaseline |-> b,
      beforeConstructor |-> c, beforeFirstTurn |-> t, reported |-> d] :
       s \in BOOLEAN, b \in BOOLEAN, c \in BOOLEAN, t \in BOOLEAN, d \in Declarations,
       in \in {<<>>, <<[name |-> "task", oracle |-> TRUE, present |-> TRUE,
                        digest |-> "good", alias |-> FALSE]>>},
       caps \in {<<>>, <<Group("w1", TRUE, TRUE, 1, 0)>>}}

AllCases == InputCases \cup CapabilityCases \cup ReportCases
=============================================================================
