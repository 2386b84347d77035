------------------------ MODULE BoundaryProbeProofs ------------------------
(***************************************************************************)
(* BoundaryAudit and BoundaryProbe for any cases, domains, environments    *)
(* and bounds.                                                             *)
(*                                                                         *)
(* The counters of the audit and its findings agree.  CountsInv says it at *)
(* every moment of both loops: a counter is past zero exactly when the     *)
(* finding that belongs to it is there.  A finding is never taken back and *)
(* a counter, saturating or not, never falls to zero again; the checks at  *)
(* the end add findings of other codes only.                               *)
(*                                                                         *)
(* What both loops have found is a function of the case and of how far     *)
(* they are: AuditInv writes findings, counts, sums and flag out in closed *)
(* form.  That the sums are the true ones needs an induction, made here    *)
(* over the subsets of a finite set: a sum of natural numbers is the       *)
(* number of its units.  From AuditInv the report of any case is known     *)
(* outright, and so is the one of the case the generator builds.           *)
(*                                                                         *)
(* In the probe an attempt to call a client is never forgotten on the way  *)
(* to the case, and the order the case declares is the one upstream called *)
(* back in.  The counters of the stub only grow, so counters at zero say   *)
(* that no call was ever made; the last look at them is when the second    *)
(* arm ends, and from then on upstream calls no client any more.           *)
(***************************************************************************)
EXTENDS BoundaryProbe, Folds, SequenceTheorems, FiniteSetTheorems, WellFoundedInduction, TLAPS

-----------------------------------------------------------------------------
(* The counters of the audit *)

Has(code, set) == \E v \in set : v[1] = code

Counters == {"present", "oracle", "unapproved", "alias"}

Typed ==
    /\ case \in Cases
    /\ pc \in {"policy", "inputs", "capabilities", "done"}
    /\ at \in Nat \ {0}
    /\ counts \in [Counters -> Nat]
    /\ live \in Nat /\ unmediated \in Nat
    /\ pc = "policy" => findings = {}

InStep ==
    /\ Has("EF301", findings) <=> case.forbidOracle /\ counts.oracle > 0
    /\ Has("EF302", findings) <=> counts.unapproved > 0
    /\ Has("EF305", findings) <=> case.forbidAlias /\ counts.alias > 0
    /\ Has("EF303", findings) <=> case.requireMediation /\ unmediated > 0

Final ==
    IF pc = "done"
    THEN /\ Has("EF304", findings) <=> case.requireBaseline /\ report.prebaseline > 0
         /\ report.oracle = counts.oracle /\ report.unapproved = counts.unapproved
         /\ report.alias = counts.alias /\ report.unmediated = unmediated
    ELSE ~Has("EF304", findings)

CountsInv == Typed /\ InStep /\ Final

-----------------------------------------------------------------------------
(* Which codes a set of findings has *)

LEMMA HasUnion ==
    ASSUME NEW code, NEW A, NEW B
    PROVE  Has(code, A \cup B) <=> Has(code, A) \/ Has(code, B)
BY DEF Has

LEMMA HasWhen ==
    ASSUME NEW code, NEW condition, NEW k, NEW x
    PROVE  Has(code, When(condition, <<k, x>>)) <=> condition /\ k = code
<1>1. <<k, x>>[1] = k
  OBVIOUS
<1> QED BY <1>1 DEF Has, When

Watched == {"EF301", "EF302", "EF303", "EF304", "EF305"}

LEMMA NameHas ==
    ASSUME NEW kind, NEW name, NEW code \in Watched
    PROVE  ~Has(code, NameFindings(kind, name))
<1>1. code # "EF311" /\ code # "EF312"
  BY DEF Watched
<1> QED BY <1>1 DEF Has, When, NameFindings

LEMMA InputHas ==
    ASSUME NEW in, NEW code \in Watched
    PROVE  Has(code, InputFindings(in)) <=>
             \/ code = "EF301" /\ OracleExposed(in)
             \/ code = "EF302" /\ Unapproved(in)
             \/ code = "EF305" /\ Aliased(in) /\ case.forbidAlias
<1> DEFINE shown == DisplayName(in.name)
           names == NameFindings("agent input", in.name)
           digest == When(in.digest = "bad", <<"EF309", shown>>)
           absent == When(~in.present /\ in.alias, <<"EF317", shown>>)
           oracle == When(OracleExposed(in), <<"EF301", shown>>)
           outside == When(Unapproved(in), <<"EF302", shown>>)
           alias == When(Aliased(in) /\ case.forbidAlias, <<"EF305", shown>>)
<1>1. code # "EF309" /\ code # "EF317"
  BY DEF Watched
<1>2. ~Has(code, names)
  BY NameHas
<1>3. ~Has(code, digest) /\ ~Has(code, absent)
  BY <1>1 DEF Has, When
<1>4. Has(code, oracle) <=> code = "EF301" /\ OracleExposed(in)
  BY HasWhen, Zenon
<1>5. Has(code, outside) <=> code = "EF302" /\ Unapproved(in)
  BY HasWhen, Zenon
<1>6. Has(code, alias) <=> code = "EF305" /\ Aliased(in) /\ case.forbidAlias
  BY HasWhen, Zenon
<1>7. InputFindings(in) = names \cup digest \cup absent \cup oracle \cup outside \cup alias
  BY DEF InputFindings
<1> HIDE DEF shown, names, digest, absent, oracle, outside, alias
<1>8. Has(code, InputFindings(in)) <=> \/ Has(code, names) \/ Has(code, digest)
                                       \/ Has(code, absent) \/ Has(code, oracle)
                                       \/ Has(code, outside) \/ Has(code, alias)
  BY <1>7 DEF Has
<1> QED BY <1>2, <1>3, <1>4, <1>5, <1>6, <1>8

-----------------------------------------------------------------------------
LEMMA InitCountsInv == Init => CountsInv
<1> SUFFICES ASSUME Init PROVE CountsInv
  OBVIOUS
<1>1. \A code : ~Has(code, findings)
  BY DEF Init, AuditInit, Has
<1>2. Typed
  BY DEF Init, AuditInit, Typed, Counters
<1>3. counts.oracle = 0 /\ counts.unapproved = 0 /\ counts.alias = 0 /\ unmediated = 0
  BY DEF Init, AuditInit
<1>4. InStep
  BY <1>1, <1>3 DEF InStep
<1>5. Final
  BY <1>1 DEF Final, Init, AuditInit
<1> QED BY <1>2, <1>4, <1>5 DEF CountsInv

LEMMA PolicyCountsInv == ASSUME CountsInv, CheckPolicy PROVE CountsInv'
<1>1. Typed'
  BY DEF CountsInv, Typed, CheckPolicy, capabilityVars
<1>2. findings = {} /\ pc = "policy" /\ pc' = "inputs"
  BY DEF CountsInv, Typed, CheckPolicy
<1>3. ASSUME NEW code \in Watched PROVE ~Has(code, findings) /\ ~Has(code, findings')
  <2>1. code # "EF000" /\ code # "EF003" /\ code # "EF310"
    BY DEF Watched
  <2> QED BY <1>2, <2>1 DEF Has, When, CheckPolicy
<1>4. UNCHANGED <<case, counts, unmediated>>
  BY DEF CheckPolicy, capabilityVars
<1>5. InStep'
  BY <1>3, <1>4 DEF CountsInv, InStep, Watched
<1>6. Final'
  BY <1>2, <1>3 DEF Final, Watched
<1> QED BY <1>1, <1>5, <1>6 DEF CountsInv

LEMMA InputCountsInv == ASSUME CountsInv, ReadInput PROVE CountsInv'
<1> DEFINE in == case.inputs[at]
<1>1. /\ Typed /\ InStep /\ Final /\ pc = "inputs" /\ pc' = pc
      /\ case' = case /\ unmediated' = unmediated /\ live' = live /\ at' = at + 1
      /\ findings' = findings \cup InputFindings(in)
      /\ counts' = [present    |-> Inc(counts.present, in.present),
                    oracle     |-> Inc(counts.oracle, in.present /\ in.oracle),
                    unapproved |-> Inc(counts.unapproved, Unapproved(in)),
                    alias      |-> Inc(counts.alias, Aliased(in))]
  BY DEF CountsInv, ReadInput, capabilityVars
<1> HIDE DEF in
<1>2. /\ counts.present \in Nat /\ counts.oracle \in Nat
      /\ counts.unapproved \in Nat /\ counts.alias \in Nat
  BY <1>1 DEF Typed, Counters
<1>3. /\ counts'.oracle = Inc(counts.oracle, in.present /\ in.oracle)
      /\ counts'.unapproved = Inc(counts.unapproved, Unapproved(in))
      /\ counts'.alias = Inc(counts.alias, Aliased(in))
  BY <1>1
<1>4. counts' \in [Counters -> Nat]
  BY <1>1, <1>2 DEF Inc, Counters
<1>5. Typed'
  BY <1>1, <1>4 DEF Typed
<1>6. ASSUME NEW code \in Watched
      PROVE  Has(code, findings') <=>
               \/ Has(code, findings)
               \/ code = "EF301" /\ OracleExposed(in)
               \/ code = "EF302" /\ Unapproved(in)
               \/ code = "EF305" /\ Aliased(in) /\ case.forbidAlias
  BY <1>1, HasUnion, InputHas
<1>7. counts'.oracle > 0 <=> counts.oracle > 0 \/ (in.present /\ in.oracle)
  BY <1>2, <1>3 DEF Inc
<1>8. counts'.unapproved > 0 <=> counts.unapproved > 0 \/ Unapproved(in)
  BY <1>2, <1>3 DEF Inc
<1>9. counts'.alias > 0 <=> counts.alias > 0 \/ Aliased(in)
  BY <1>2, <1>3 DEF Inc
<1>10. InStep'
  <2>1. Has("EF301", findings') <=> case.forbidOracle /\ counts'.oracle > 0
    BY <1>1, <1>6, <1>7 DEF InStep, OracleExposed, Watched
  <2>2. Has("EF302", findings') <=> counts'.unapproved > 0
    BY <1>1, <1>6, <1>8 DEF InStep, Watched
  <2>3. Has("EF305", findings') <=> case.forbidAlias /\ counts'.alias > 0
    BY <1>1, <1>6, <1>9 DEF InStep, Watched
  <2>4. Has("EF303", findings') <=> Has("EF303", findings)
    BY <1>6 DEF Watched
  <2> QED BY <1>1, <2>1, <2>2, <2>3, <2>4 DEF InStep
<1>11. Final'
  BY <1>1, <1>6 DEF Final, Watched
<1> QED BY <1>5, <1>10, <1>11 DEF CountsInv

LEMMA CapabilityCountsInv == ASSUME CountsInv, ReadCapability PROVE CountsInv'
<1> DEFINE cap == case.capabilities[at]
           found == NameFindings("capability group", cap.name)
                      \cup When(~CountsValid(cap), <<"EF313", DisplayName(cap.name)>>)
                      \cup When(Counts(cap) /\ case.requireMediation /\ Unmediated(cap) > 0,
                                <<"EF303", <<DisplayName(cap.name), Unmediated(cap)>>>>)
<1>1. /\ Typed /\ InStep /\ Final /\ pc = "capabilities" /\ pc' = pc
      /\ case' = case /\ counts' = counts /\ at' = at + 1 /\ at <= Len(case.capabilities)
      /\ findings' = findings \cup found
  BY DEF CountsInv, ReadCapability
<1>2. cap.callable \in Nat /\ cap.mediated \in Nat
  <2>1. case.capabilities \in Seq(Range(case.capabilities))
    BY <1>1, CasesAssumption DEF Typed, WellFormed
  <2>2. at \in DOMAIN case.capabilities
    <3> DEFINE n == Len(case.capabilities)
    <3>1. DOMAIN case.capabilities = 1 .. n /\ n \in Nat
      BY <2>1, LenProperties
    <3>2. at \in Nat \ {0} /\ at <= n
      BY <1>1 DEF Typed
    <3> HIDE DEF n
    <3>3. at \in 1 .. n
      BY <3>1, <3>2
    <3> QED BY <3>1, <3>3
  <2>3. cap \in Range(case.capabilities)
    BY <2>2 DEF Range
  <2> QED BY <1>1, <2>3, CasesAssumption DEF Typed, WellFormed
<1>3. ASSUME NEW code \in Watched
      PROVE  Has(code, found) <=>
               code = "EF303" /\ Counts(cap) /\ case.requireMediation /\ Unmediated(cap) > 0
  <2> DEFINE names == NameFindings("capability group", cap.name)
             shape == When(~CountsValid(cap), <<"EF313", DisplayName(cap.name)>>)
             open == When(Counts(cap) /\ case.requireMediation /\ Unmediated(cap) > 0,
                          <<"EF303", <<DisplayName(cap.name), Unmediated(cap)>>>>)
  <2>1. ~Has(code, names)
    BY NameHas
  <2>2. ~Has(code, shape)
    BY DEF Has, When, Watched
  <2>3. Has(code, open) <=>
          code = "EF303" /\ Counts(cap) /\ case.requireMediation /\ Unmediated(cap) > 0
    <3> DEFINE forbidden == Counts(cap) /\ case.requireMediation /\ Unmediated(cap) > 0
               shown == <<DisplayName(cap.name), Unmediated(cap)>>
    <3> HIDE DEF forbidden, shown
    <3>1. Has(code, When(forbidden, <<"EF303", shown>>)) <=> forbidden /\ "EF303" = code
      BY HasWhen, Zenon
    <3> QED BY <3>1, Zenon DEF forbidden, shown
  <2>4. found = names \cup shape \cup open
    OBVIOUS
  <2> HIDE DEF names, shape, open, found, cap
  <2>5. Has(code, found) <=> Has(code, names) \/ Has(code, shape) \/ Has(code, open)
    BY <2>4 DEF Has
  <2> QED BY <2>1, <2>2, <2>3, <2>5
<1>4. CASE Counts(cap)
  <2>1. /\ live' = SaturatingAdd(live, cap.callable)
        /\ unmediated' = SaturatingAdd(unmediated, Unmediated(cap))
    BY <1>4 DEF ReadCapability
  <2>2. Unmediated(cap) \in Nat
    BY <1>2, <1>4 DEF Counts, CountsValid, Unmediated
  <2>3. /\ live' \in Nat /\ unmediated' \in Nat
        /\ unmediated' > 0 <=> unmediated > 0 \/ Unmediated(cap) > 0
    <3> DEFINE u == Unmediated(cap)
               c == cap.callable
    <3>1. live \in Nat /\ unmediated \in Nat /\ u \in Nat /\ c \in Nat
      BY <1>1, <1>2, <2>2 DEF Typed
    <3>2. live' = SaturatingAdd(live, c) /\ unmediated' = SaturatingAdd(unmediated, u)
      BY <2>1
    <3> HIDE DEF u, c
    <3>3. /\ live' \in Nat /\ unmediated' \in Nat
          /\ unmediated' > 0 <=> unmediated > 0 \/ u > 0
      BY <3>1, <3>2, MaxU64Assumption DEF SaturatingAdd
    <3> QED BY <3>3 DEF u
  <2> HIDE DEF cap, found
  <2>4. Typed'
    BY <1>1, <2>3 DEF Typed
  <2>5. InStep'
    BY <1>1, <1>3, <1>4, <2>3, HasUnion DEF InStep, Watched
  <2>6. Final'
    BY <1>1, <1>3, HasUnion DEF Final, Watched
  <2> QED BY <2>4, <2>5, <2>6 DEF CountsInv
<1>5. CASE ~Counts(cap)
  <2>1. live' = live /\ unmediated' = unmediated
    BY <1>5 DEF ReadCapability, capabilityVars
  <2> HIDE DEF cap, found
  <2>2. Typed'
    BY <1>1, <2>1 DEF Typed
  <2>3. InStep' /\ Final'
    BY <1>1, <1>3, <1>5, <2>1, HasUnion DEF InStep, Final, Watched
  <2> QED BY <2>2, <2>3 DEF CountsInv
<1> QED BY <1>4, <1>5

LEMMA FinishCountsInv == ASSUME CountsInv, Finish PROVE CountsInv'
<1> DEFINE order == OrderFindings(case)
           rest == When(overflow, <<"EF316", 0>>) \cup ReportedFindings(case)
<1>1. /\ Typed /\ InStep /\ ~Has("EF304", findings) /\ pc' = "done"
      /\ UNCHANGED <<case, at, counts, live, unmediated>>
      /\ findings' = findings \cup order \cup rest
      /\ report'.oracle = counts.oracle /\ report'.unapproved = counts.unapproved
      /\ report'.alias = counts.alias /\ report'.unmediated = unmediated
      /\ report'.prebaseline = IF case.beforeConstructor THEN 0 ELSE 1
  BY DEF CountsInv, Final, Finish, capabilityVars
<1>2. ASSUME NEW code \in Watched PROVE ~Has(code, rest)
  BY DEF Has, When, ReportedFindings, Watched
<1>3. ASSUME NEW code \in Watched
      PROVE  Has(code, order) <=> code = "EF304" /\ case.requireBaseline /\ ~case.beforeConstructor
  <2> DEFINE late == When(case.requireBaseline /\ ~case.beforeConstructor, <<"EF304", 0>>)
             odd == When(case.beforeConstructor /\ ~case.beforeFirstTurn, <<"EF315", 0>>)
  <2>1. Has(code, late) <=> case.requireBaseline /\ ~case.beforeConstructor /\ "EF304" = code
    BY HasWhen, Zenon
  <2>2. ~Has(code, odd)
    BY DEF Has, When, Watched
  <2>3. order = late \cup odd
    BY DEF OrderFindings
  <2> HIDE DEF late, odd, order
  <2> QED BY <2>1, <2>2, <2>3 DEF Has
<1> HIDE DEF order, rest
<1>4. ASSUME NEW code \in Watched
      PROVE  Has(code, findings') <=>
               \/ Has(code, findings)
               \/ code = "EF304" /\ case.requireBaseline /\ ~case.beforeConstructor
  BY <1>1, <1>2, <1>3, HasUnion
<1>5. Typed'
  BY <1>1 DEF Typed
<1>6. InStep'
  BY <1>1, <1>4 DEF InStep, Watched
<1>7. Final'
  BY <1>1, <1>4 DEF Final, Watched
<1> QED BY <1>5, <1>6, <1>7 DEF CountsInv

LEMMA NextCountsInv == CountsInv /\ [Next]_vars => CountsInv'
<1> SUFFICES ASSUME CountsInv, [Next]_vars PROVE CountsInv'
  OBVIOUS
<1>1. CASE UNCHANGED vars \/ Done
  BY <1>1 DEF Done, vars, CountsInv, Typed, InStep, Final, Has
<1>2. CASE EndInputs
  BY <1>2 DEF EndInputs, capabilityVars, CountsInv, Typed, InStep, Final, Has
<1> QED BY <1>1, <1>2, PolicyCountsInv, InputCountsInv, CapabilityCountsInv, FinishCountsInv DEF Next

(* No counter a report states is without its finding and no such finding   *)
(* without its count, for every case and every width of the counters.      *)
THEOREM CountsAreFindings == Spec => []CountsHaveFindings
<1>1. CountsInv => CountsHaveFindings
  BY DEF CountsInv, InStep, Final, CountsHaveFindings, Has
<1> QED BY <1>1, InitCountsInv, NextCountsInv, PTL DEF Spec

-----------------------------------------------------------------------------
(* Sums of natural numbers *)

(* One element per unit: the sum of f over S is how many there are. *)
Units(f, S) == UNION {{i} \X (1 .. f[i]) : i \in S}

LEMMA UnitsOfNone == ASSUME NEW f PROVE Units(f, {}) = {}
BY DEF Units

LEMMA UnitsAdd ==
    ASSUME NEW f, NEW S, NEW x, x \notin S, f[x] \in Nat,
           IsFiniteSet(Units(f, S))
    PROVE  /\ IsFiniteSet(Units(f, S \cup {x}))
           /\ Cardinality(Units(f, S \cup {x})) = Cardinality(Units(f, S)) + f[x]
<1> DEFINE U == Units(f, S)
           V == {x} \X (1 .. f[x])
<1>1. Units(f, S \cup {x}) = U \cup V
  BY DEF Units
<1>2. U \cap V = {}
  BY DEF Units
<1>3. IsFiniteSet({x}) /\ Cardinality({x}) = 1
  BY FS_Singleton
<1>4. IsFiniteSet(1 .. f[x]) /\ Cardinality(1 .. f[x]) = f[x]
  <2>1. IsFiniteSet(1 .. f[x]) /\ Cardinality(1 .. f[x]) = IF 1 > f[x] THEN 0 ELSE f[x] - 1 + 1
    BY FS_Interval
  <2> QED BY <2>1
<1>5. IsFiniteSet(V) /\ Cardinality(V) = Cardinality({x}) * Cardinality(1 .. f[x])
  BY <1>3, <1>4, FS_Product
<1>6. Cardinality(V) = f[x]
  BY <1>3, <1>4, <1>5
<1> HIDE DEF U, V
<1>7. /\ IsFiniteSet(U \cup V)
      /\ Cardinality(U \cup V) = Cardinality(U) + Cardinality(V) - Cardinality(U \cap V)
  BY <1>5, FS_Union DEF U
<1>8. Cardinality(U \cap V) = 0
  BY <1>2, FS_EmptySet
<1>9. Cardinality(U) \in Nat /\ Cardinality(V) \in Nat
  BY <1>5, FS_CardinalityType DEF U
<1>10. Cardinality(U \cup V) = Cardinality(U) + f[x]
  BY <1>6, <1>7, <1>8, <1>9
<1> QED BY <1>1, <1>7, <1>10 DEF U

(* A set of subsets of a finite S that has the empty set and, with T, every *)
(* T that is one element larger, has all of them.                           *)
LEMMA SubsetsReached ==
    ASSUME NEW S, IsFiniteSet(S), NEW P, {} \in P,
           \A T \in SUBSET S : T # {} => \E x \in T : T \ {x} \in P => T \in P
    PROVE  SUBSET S \subseteq P
<1> SUFFICES ASSUME (SUBSET S) \ P # {} PROVE FALSE
  OBVIOUS
<1>1. IsWellFoundedOn(StrictSubsetOrdering(S), SUBSET S)
  <2>1. IsWellFoundedOn(StrictSubsetOrdering(S), FiniteSubsetsOf(S))
    BY FS_StrictSubsetOrderingWellFounded, Zenon
  <2>2. FiniteSubsetsOf(S) = SUBSET S
    BY FS_FiniteSubsetsOfFinite
  <2> QED BY <2>1, <2>2
<1>2. PICK T \in (SUBSET S) \ P : \A U \in (SUBSET S) \ P : ~(<<U, T>> \in StrictSubsetOrdering(S))
  BY <1>1, WFMin
<1>3. PICK x \in T : T \ {x} \in P => T \in P
  BY <1>2
<1>4. <<T \ {x}, T>> \in StrictSubsetOrdering(S)
  BY <1>2, <1>3 DEF StrictSubsetOrdering
<1>5. T \ {x} \in P
  BY <1>2, <1>3, <1>4
<1> QED BY <1>2, <1>3, <1>5

LEMMA UnitsFinite ==
    ASSUME NEW f, NEW S, IsFiniteSet(S), \A i \in S : f[i] \in Nat
    PROVE  IsFiniteSet(Units(f, S))
<1> DEFINE P == {T \in SUBSET S : IsFiniteSet(Units(f, T))}
<1>1. {} \in P
  BY UnitsOfNone, FS_EmptySet
<1>2. ASSUME NEW T \in SUBSET S, NEW x \in T, T \ {x} \in P PROVE T \in P
  <2>1. IsFiniteSet(Units(f, T \ {x})) /\ x \notin T \ {x} /\ f[x] \in Nat
    BY <1>2
  <2>2. IsFiniteSet(Units(f, (T \ {x}) \cup {x}))
    BY <2>1, UnitsAdd
  <2>3. (T \ {x}) \cup {x} = T
    OBVIOUS
  <2> QED BY <2>2, <2>3
<1>3. SUBSET S \subseteq P
  <2> HIDE DEF P
  <2>1. \A T \in SUBSET S : T # {} => \E x \in T : T \ {x} \in P => T \in P
    BY <1>2
  <2> QED BY <1>1, <2>1, SubsetsReached
<1> QED BY <1>3

LEMMA SumCounts ==
    ASSUME NEW f, NEW S, IsFiniteSet(S), \A i \in S : f[i] \in Nat
    PROVE  SumFunctionOnSet(f, S) = Cardinality(Units(f, S))
<1> DEFINE body(g, s) == IF s = {} THEN 0
                         ELSE f[CHOOSE x \in s : TRUE] + g[s \ {CHOOSE x \in s : TRUE}]
           iter == CHOOSE g : g = [s \in SUBSET S |-> body(g, s)]
           count == [s \in SUBSET S |-> Cardinality(Units(f, s))]
<1>1. SumFunctionOnSet(f, S) = iter[S]
  BY DEF SumFunctionOnSet, FoldFunctionOnSet, MapThenFoldSet
<1>2. ASSUME NEW s \in SUBSET S, s # {}
      PROVE  LET x == CHOOSE x \in s : TRUE
             IN  /\ x \in s
                 /\ Cardinality(Units(f, s)) = f[x] + Cardinality(Units(f, s \ {x}))
  <2> DEFINE x == CHOOSE y \in s : TRUE
             t == s \ {x}
  <2>1. x \in s
    BY <1>2
  <2>2. x \notin t /\ f[x] \in Nat /\ s = t \cup {x} /\ t \in SUBSET S /\ IsFiniteSet(t)
    BY <2>1, FS_Subset
  <2> HIDE DEF x, t
  <2>3. IsFiniteSet(Units(f, t))
    BY <2>2, UnitsFinite
  <2>4. Cardinality(Units(f, t \cup {x})) = Cardinality(Units(f, t)) + f[x]
    BY <2>2, <2>3, UnitsAdd
  <2>5. Cardinality(Units(f, t)) \in Nat
    BY <2>3, FS_CardinalityType
  <2>6. Cardinality(Units(f, s)) = f[x] + Cardinality(Units(f, t))
    BY <2>2, <2>4, <2>5
  <2> QED BY <2>1, <2>6 DEF x, t
<1>3. count = [s \in SUBSET S |-> body(count, s)]
  <2>1. ASSUME NEW s \in SUBSET S PROVE Cardinality(Units(f, s)) = body(count, s)
    <3>1. CASE s = {}
      BY <3>1, UnitsOfNone, FS_EmptySet
    <3>2. CASE s # {}
      <4> DEFINE x == CHOOSE y \in s : TRUE
      <4>1. /\ x \in s
            /\ Cardinality(Units(f, s)) = f[x] + Cardinality(Units(f, s \ {x}))
        BY <1>2, <3>2
      <4>2. count[s \ {x}] = Cardinality(Units(f, s \ {x}))
        OBVIOUS
      <4> QED BY <3>2, <4>1, <4>2
    <3> QED BY <3>1, <3>2
  <2> QED BY <2>1
<1>4. iter = [s \in SUBSET S |-> body(iter, s)]
  <2> HIDE DEF count
  <2>1. \E g : g = [s \in SUBSET S |-> body(g, s)]
    BY <1>3
  <2> QED BY <2>1
<1> HIDE DEF iter
<1>5. \A s \in SUBSET S : iter[s] = body(iter, s)
  BY <1>4
<1> DEFINE P == {s \in SUBSET S : iter[s] = Cardinality(Units(f, s))}
<1>6. {} \in P
  BY <1>5, UnitsOfNone, FS_EmptySet
<1>7. IsFiniteSet(S)
  OBVIOUS
<1>8. ASSUME NEW s \in SUBSET S, s # {}
      PROVE  \E x \in s : s \ {x} \in P => s \in P
  <2> DEFINE x == CHOOSE y \in s : TRUE
  <2>1. /\ x \in s
        /\ Cardinality(Units(f, s)) = f[x] + Cardinality(Units(f, s \ {x}))
    BY <1>2, <1>8
  <2>2. iter[s] = f[x] + iter[s \ {x}]
    BY <1>5, <1>8
  <2> HIDE DEF x
  <2> QED BY <2>1, <2>2
<1>9. SUBSET S \subseteq P
  <2> HIDE DEF P
  <2> QED BY <1>6, <1>8, SubsetsReached
<1> QED BY <1>1, <1>9

-----------------------------------------------------------------------------
LEMMA SumOfNone == ASSUME NEW f PROVE SumFunctionOnSet(f, {}) = 0
<1>1. SumFunctionOnSet(f, {}) = Cardinality(Units(f, {}))
  BY SumCounts, FS_EmptySet
<1> QED BY <1>1, UnitsOfNone, FS_EmptySet

LEMMA SumIsNatural ==
    ASSUME NEW f, NEW S, IsFiniteSet(S), \A i \in S : f[i] \in Nat
    PROVE  SumFunctionOnSet(f, S) \in Nat
<1>1. IsFiniteSet(Units(f, S))
  BY UnitsFinite
<1> QED BY <1>1, SumCounts, FS_CardinalityType

LEMMA SumAdds ==
    ASSUME NEW f, NEW S, IsFiniteSet(S), NEW x, x \notin S,
           \A i \in S \cup {x} : f[i] \in Nat
    PROVE  SumFunctionOnSet(f, S \cup {x}) = SumFunctionOnSet(f, S) + f[x]
<1>1. IsFiniteSet(Units(f, S)) /\ IsFiniteSet(S \cup {x})
  BY UnitsFinite, FS_AddElement
<1>2. SumFunctionOnSet(f, S) = Cardinality(Units(f, S))
  BY SumCounts
<1>3. SumFunctionOnSet(f, S \cup {x}) = Cardinality(Units(f, S \cup {x}))
  BY <1>1, SumCounts
<1>4. f[x] \in Nat
  OBVIOUS
<1>5. Cardinality(Units(f, S \cup {x})) = Cardinality(Units(f, S)) + f[x]
  BY <1>1, <1>4, UnitsAdd, Zenon
<1> QED BY <1>2, <1>3, <1>5

(* A sum depends on the terms it has and on no others. *)
LEMMA SumAgrees ==
    ASSUME NEW f, NEW g, NEW S, IsFiniteSet(S), \A i \in S : f[i] \in Nat /\ g[i] = f[i]
    PROVE  SumFunctionOnSet(g, S) = SumFunctionOnSet(f, S)
<1>1. Units(f, S) = Units(g, S)
  BY DEF Units
<1>2. SumFunctionOnSet(f, S) = Cardinality(Units(f, S))
  BY SumCounts
<1>3. SumFunctionOnSet(g, S) = Cardinality(Units(g, S))
  BY SumCounts
<1> QED BY <1>1, <1>2, <1>3

LEMMA SumOrdered ==
    ASSUME NEW f, NEW g, NEW S, IsFiniteSet(S),
           \A i \in S : f[i] \in Nat /\ g[i] \in Nat /\ f[i] <= g[i]
    PROVE  SumFunctionOnSet(f, S) <= SumFunctionOnSet(g, S)
<1>1. Units(f, S) \in SUBSET Units(g, S)
  <2> SUFFICES ASSUME NEW i \in S PROVE {i} \X (1 .. f[i]) \subseteq {i} \X (1 .. g[i])
    BY DEF Units
  <2> DEFINE m == f[i]
             n == g[i]
  <2>1. m \in Nat /\ n \in Nat /\ m <= n
    OBVIOUS
  <2> HIDE DEF m, n
  <2>2. 1 .. m \subseteq 1 .. n
    BY <2>1
  <2> QED BY <2>2 DEF m, n
<1>2. IsFiniteSet(Units(g, S))
  BY UnitsFinite
<1>3. Cardinality(Units(f, S)) <= Cardinality(Units(g, S))
  BY <1>1, <1>2, FS_Subset
<1> QED BY <1>3, SumCounts

-----------------------------------------------------------------------------
CallableOf(n) == [i \in 1 .. n |-> case.capabilities[i].callable]
UnmediatedOf(n) == [i \in 1 .. n |-> Unmediated(case.capabilities[i])]
CountedTo(n) == {i \in 1 .. n : Counts(case.capabilities[i])}
TrueLive(n) == SumFunctionOnSet(CallableOf(n), CountedTo(n))
TrueUnmediated(n) == SumFunctionOnSet(UnmediatedOf(n), CountedTo(n))
Cut(n) == IF n > MaxU64 THEN MaxU64 ELSE n

LEMMA GroupIsTyped ==
    ASSUME WellFormed(case), NEW i \in 1 .. Len(case.capabilities)
    PROVE  /\ case.capabilities[i].callable \in Nat
           /\ case.capabilities[i].mediated \in Nat
           /\ Counts(case.capabilities[i]) =>
                Unmediated(case.capabilities[i]) \in Nat
                  /\ Unmediated(case.capabilities[i]) <= case.capabilities[i].callable
<1> DEFINE cap == case.capabilities[i]
<1>1. case.capabilities \in Seq(Range(case.capabilities))
  BY DEF WellFormed
<1>2. i \in DOMAIN case.capabilities
  BY <1>1, LenProperties
<1>3. cap \in Range(case.capabilities)
  BY <1>2 DEF Range
<1>4. cap.callable \in Nat /\ cap.mediated \in Nat
  BY <1>3 DEF WellFormed
<1>5. Counts(cap) => cap.mediated <= cap.callable
  BY DEF Counts, CountsValid
<1> HIDE DEF cap
<1>6. Counts(cap) => Unmediated(cap) \in Nat /\ Unmediated(cap) <= cap.callable
  <2> DEFINE m == cap.mediated
             c == cap.callable
  <2>1. Unmediated(cap) = c - m
    BY DEF Unmediated
  <2>2. m \in Nat /\ c \in Nat /\ (Counts(cap) => m <= c)
    BY <1>4, <1>5
  <2> HIDE DEF m, c
  <2>3. Counts(cap) => c - m \in Nat /\ c - m <= c
    BY <2>2
  <2> QED BY <2>1, <2>3 DEF c
<1> QED BY <1>4, <1>6 DEF cap

LEMMA SumsTyped ==
    ASSUME WellFormed(case), NEW n \in Nat, n <= Len(case.capabilities)
    PROVE  /\ IsFiniteSet(CountedTo(n))
           /\ \A i \in CountedTo(n) : /\ CallableOf(n)[i] \in Nat /\ UnmediatedOf(n)[i] \in Nat
                                      /\ UnmediatedOf(n)[i] <= CallableOf(n)[i]
           /\ TrueLive(n) \in Nat /\ TrueUnmediated(n) \in Nat
           /\ TrueUnmediated(n) <= TrueLive(n)
<1>1. Len(case.capabilities) \in Nat
  BY LenProperties DEF WellFormed
<1>2. IsFiniteSet(1 .. n) /\ CountedTo(n) \in SUBSET (1 .. n)
  BY FS_Interval DEF CountedTo
<1>3. IsFiniteSet(CountedTo(n))
  BY <1>2, FS_Subset
<1>4. ASSUME NEW i \in CountedTo(n)
      PROVE  /\ CallableOf(n)[i] \in Nat /\ UnmediatedOf(n)[i] \in Nat
             /\ UnmediatedOf(n)[i] <= CallableOf(n)[i]
  <2>1. i \in 1 .. n /\ i \in 1 .. Len(case.capabilities) /\ Counts(case.capabilities[i])
    BY <1>1, <1>2 DEF CountedTo
  <2>2. /\ CallableOf(n)[i] = case.capabilities[i].callable
        /\ UnmediatedOf(n)[i] = Unmediated(case.capabilities[i])
    BY <2>1 DEF CallableOf, UnmediatedOf
  <2> QED BY <2>1, <2>2, GroupIsTyped
<1>5. TrueLive(n) \in Nat /\ TrueUnmediated(n) \in Nat
  BY <1>3, <1>4, SumIsNatural DEF TrueLive, TrueUnmediated
<1>6. TrueUnmediated(n) <= TrueLive(n)
  BY <1>3, <1>4, SumOrdered DEF TrueLive, TrueUnmediated
<1> QED BY <1>3, <1>4, <1>5, <1>6

LEMMA SumsStep ==
    ASSUME WellFormed(case), NEW n \in Nat, n + 1 <= Len(case.capabilities)
    PROVE  LET cap == case.capabilities[n + 1]
           IN  /\ TrueLive(n + 1) = IF Counts(cap) THEN TrueLive(n) + cap.callable
                                    ELSE TrueLive(n)
               /\ TrueUnmediated(n + 1) = IF Counts(cap) THEN TrueUnmediated(n) + Unmediated(cap)
                                          ELSE TrueUnmediated(n)
<1> DEFINE cap == case.capabilities[n + 1]
           S == CountedTo(n)
           T == CountedTo(n + 1)
           f == CallableOf(n + 1)
           g == UnmediatedOf(n + 1)
<1>0. Len(case.capabilities) \in Nat
  BY LenProperties DEF WellFormed
<1>1. /\ IsFiniteSet(S) /\ IsFiniteSet(T)
      /\ \A i \in S : CallableOf(n)[i] \in Nat /\ UnmediatedOf(n)[i] \in Nat
      /\ \A i \in T : f[i] \in Nat /\ g[i] \in Nat
  BY <1>0, SumsTyped
<1>2. n + 1 \notin S /\ S \subseteq 1 .. n /\ n + 1 \in 1 .. n + 1 /\ 1 .. n \subseteq 1 .. n + 1
  BY DEF CountedTo
<1>3. \A i \in S : f[i] = CallableOf(n)[i] /\ g[i] = UnmediatedOf(n)[i]
  BY <1>2 DEF CallableOf, UnmediatedOf
<1>4. f[n + 1] = cap.callable /\ g[n + 1] = Unmediated(cap)
  BY <1>2 DEF CallableOf, UnmediatedOf
<1>5. T = IF Counts(cap) THEN S \cup {n + 1} ELSE S
  <2>1. \A i \in 1 .. n + 1 : i = n + 1 \/ i \in 1 .. n
    OBVIOUS
  <2> QED BY <1>2, <2>1 DEF CountedTo
<1> HIDE DEF f, g, S, T
<1>6. SumFunctionOnSet(f, S) = TrueLive(n) /\ SumFunctionOnSet(g, S) = TrueUnmediated(n)
  BY <1>1, <1>3, SumAgrees DEF TrueLive, TrueUnmediated, S
<1>7. TrueLive(n + 1) = SumFunctionOnSet(f, T) /\ TrueUnmediated(n + 1) = SumFunctionOnSet(g, T)
  BY DEF TrueLive, TrueUnmediated, f, g, T
<1>8. CASE Counts(cap)
  <2>1. T = S \cup {n + 1}
    BY <1>5, <1>8
  <2>2. /\ IsFiniteSet(S) /\ n + 1 \notin S
        /\ \A i \in S \cup {n + 1} : f[i] \in Nat
        /\ \A i \in S \cup {n + 1} : g[i] \in Nat
    <3>1. \A i \in T : f[i] \in Nat /\ g[i] \in Nat
      BY <1>1
    <3> QED BY <1>1, <1>2, <2>1, <3>1, Zenon
  <2>3. SumFunctionOnSet(f, S \cup {n + 1}) = SumFunctionOnSet(f, S) + f[n + 1]
    BY ONLY <2>2, SumAdds
  <2>4. SumFunctionOnSet(g, S \cup {n + 1}) = SumFunctionOnSet(g, S) + g[n + 1]
    BY ONLY <2>2, SumAdds
  <2> QED BY <1>4, <1>6, <1>7, <1>8, <2>1, <2>3, <2>4
<1>9. CASE ~Counts(cap)
  BY <1>5, <1>6, <1>7, <1>9
<1> QED BY <1>8, <1>9

-----------------------------------------------------------------------------
(* What the two loops have found after so many turns *)

SeenBefore(list, i) == {list[k].name : k \in {j \in 1 .. i - 1 : ValidIdentifier(list[j].name)}}

NameFoundAt(kind, list, i) ==
    LET name == list[i].name
    IN  When(~ValidIdentifier(name), <<"EF311", kind>>)
          \cup When(ValidIdentifier(name) /\ name \in SeenBefore(list, i), <<"EF312", <<kind, name>>>>)

UnapprovedAt(i) ==
    LET in == case.inputs[i]
    IN  /\ in.present /\ ~in.oracle
        /\ ValidIdentifier(in.name) /\ in.name \notin SeenBefore(case.inputs, i)
        /\ AllowlistValid(case) /\ in.name \notin Range(case.allowed)

InputFound(i) ==
    LET in    == case.inputs[i]
        shown == DisplayName(in.name)
    IN  NameFoundAt("agent input", case.inputs, i)
          \cup When(in.digest = "bad", <<"EF309", shown>>)
          \cup When(~in.present /\ in.alias, <<"EF317", shown>>)
          \cup When(OracleExposed(in), <<"EF301", shown>>)
          \cup When(UnapprovedAt(i), <<"EF302", shown>>)
          \cup When(Aliased(in) /\ case.forbidAlias, <<"EF305", shown>>)

GroupFound(i) ==
    LET cap   == case.capabilities[i]
        shown == DisplayName(cap.name)
    IN  NameFoundAt("capability group", case.capabilities, i)
          \cup When(~CountsValid(cap), <<"EF313", shown>>)
          \cup When(Counts(cap) /\ case.requireMediation /\ Unmediated(cap) > 0,
                    <<"EF303", <<shown, Unmediated(cap)>>>>)

PolicyFound ==
    When(~case.schemaOk, <<"EF000", 0>>) \cup When(~case.caseIdOk, <<"EF003", 0>>)
      \cup When(~AllowlistValid(case), <<"EF310", 0>>)

LateFound == When(overflow, <<"EF316", 0>>) \cup OrderFindings(case) \cup ReportedFindings(case)

InputsFound(n) == UNION {InputFound(i) : i \in 1 .. n}
GroupsFound(n) == UNION {GroupFound(i) : i \in 1 .. n}

PresentTo(n) == {i \in 1 .. n : case.inputs[i].present}
OraclesTo(n) == {i \in 1 .. n : case.inputs[i].present /\ case.inputs[i].oracle}
UnapprovedTo(n) == {i \in 1 .. n : UnapprovedAt(i)}
AliasedTo(n) == {i \in 1 .. n : Aliased(case.inputs[i])}

Tally(n) == [present    |-> Cardinality(PresentTo(n)), oracle |-> Cardinality(OraclesTo(n)),
             unapproved |-> Cardinality(UnapprovedTo(n)), alias |-> Cardinality(AliasedTo(n))]

InputsRead == IF pc = "policy" THEN 0 ELSE IF pc = "inputs" THEN at - 1 ELSE Len(case.inputs)
GroupsRead == IF pc = "capabilities" THEN at - 1
              ELSE IF pc = "done" THEN Len(case.capabilities) ELSE 0

Positioned ==
    /\ WellFormed(case)
    /\ pc \in {"policy", "inputs", "capabilities", "done"}
    /\ at \in Nat \ {0}
    /\ pc = "policy" => at = 1
    /\ pc = "inputs" => at <= Len(case.inputs) + 1
    /\ pc = "capabilities" => at <= Len(case.capabilities) + 1
    /\ pc \in {"policy", "inputs"} => seen = SeenBefore(case.inputs, at)
    /\ pc = "capabilities" => seen = SeenBefore(case.capabilities, at)

Found ==
    findings = (IF pc = "policy" THEN {} ELSE PolicyFound)
                 \cup InputsFound(InputsRead) \cup GroupsFound(GroupsRead)
                 \cup (IF pc = "done" THEN LateFound ELSE {})

Summed ==
    LET n == GroupsRead
    IN  /\ live = Cut(TrueLive(n)) /\ unmediated = Cut(TrueUnmediated(n))
        /\ overflow \in BOOLEAN /\ (overflow <=> TrueLive(n) > MaxU64)

Reported ==
    pc = "done" =>
      report = [passed |-> findings = {}, present |-> counts.present,
                oracle |-> counts.oracle, unapproved |-> counts.unapproved,
                alias |-> counts.alias, live |-> live, unmediated |-> unmediated,
                prebaseline |-> IF case.beforeConstructor THEN 0 ELSE 1]

AuditInv == Positioned /\ Found /\ counts = Tally(InputsRead) /\ Summed /\ Reported

-----------------------------------------------------------------------------
LEMMA NothingRead ==
    /\ \A list : SeenBefore(list, 1) = {}
    /\ InputsFound(0) = {} /\ GroupsFound(0) = {}
    /\ Tally(0) = [c \in {"present", "oracle", "unapproved", "alias"} |-> 0]
    /\ TrueLive(0) = 0 /\ TrueUnmediated(0) = 0
<1>1. 1 .. 0 = {} /\ 1 .. (1 - 1) = {}
  OBVIOUS
<1>2. \A list : SeenBefore(list, 1) = {}
  BY <1>1 DEF SeenBefore
<1>3. InputsFound(0) = {} /\ GroupsFound(0) = {}
  BY <1>1 DEF InputsFound, GroupsFound
<1>4. /\ Cardinality(PresentTo(0)) = 0 /\ Cardinality(OraclesTo(0)) = 0
      /\ Cardinality(UnapprovedTo(0)) = 0 /\ Cardinality(AliasedTo(0)) = 0
  <2>1. PresentTo(0) = {} /\ OraclesTo(0) = {} /\ UnapprovedTo(0) = {} /\ AliasedTo(0) = {}
    BY <1>1 DEF PresentTo, OraclesTo, UnapprovedTo, AliasedTo
  <2> QED BY <2>1, FS_EmptySet
<1>5. CountedTo(0) = {}
  BY <1>1 DEF CountedTo
<1>6. TrueLive(0) = 0 /\ TrueUnmediated(0) = 0
  BY <1>5, SumOfNone DEF TrueLive, TrueUnmediated
<1> QED BY <1>2, <1>3, <1>4, <1>6 DEF Tally

LEMMA InitAuditInv == ASSUME WellFormed(case), AuditInit PROVE AuditInv
<1>1. Positioned
  BY NothingRead DEF AuditInit, Positioned
<1>2. InputsRead = 0 /\ GroupsRead = 0 /\ pc = "policy"
  BY DEF InputsRead, GroupsRead, AuditInit
<1>3. Found
  BY <1>2, NothingRead DEF Found, AuditInit
<1>4. counts = Tally(InputsRead)
  BY <1>2, NothingRead DEF AuditInit
<1>5. Summed
  <2>1. TrueLive(GroupsRead) = 0 /\ TrueUnmediated(GroupsRead) = 0
    BY <1>2, NothingRead
  <2>2. live = 0 /\ unmediated = 0 /\ overflow = FALSE
    BY DEF AuditInit
  <2>3. Cut(0) = 0 /\ ~(0 > MaxU64)
    BY MaxU64Assumption DEF Cut
  <2> QED BY <2>1, <2>2, <2>3 DEF Summed
<1> QED BY <1>1, <1>2, <1>3, <1>4, <1>5 DEF AuditInv, Reported

LEMMA SeenStep ==
    ASSUME NEW list, NEW i \in Nat \ {0}
    PROVE  SeenBefore(list, i + 1) = SeenBefore(list, i)
             \cup When(ValidIdentifier(list[i].name), list[i].name)
<1>1. 1 .. (i + 1) - 1 = (1 .. i - 1) \cup {i}
  OBVIOUS
<1> QED BY <1>1 DEF SeenBefore, When

LEMMA FoundStep ==
    ASSUME NEW n \in Nat
    PROVE  /\ InputsFound(n + 1) = InputsFound(n) \cup InputFound(n + 1)
           /\ GroupsFound(n + 1) = GroupsFound(n) \cup GroupFound(n + 1)
<1>1. 1 .. n + 1 = (1 .. n) \cup {n + 1}
  OBVIOUS
<1> QED BY <1>1 DEF InputsFound, GroupsFound

(* One more position, counted or not *)
LEMMA TallyOne ==
    ASSUME NEW n \in Nat, NEW A \in SUBSET (1 .. n), NEW B,
           NEW condition, B = IF condition THEN A \cup {n + 1} ELSE A
    PROVE  Cardinality(B) = Inc(Cardinality(A), condition)
<1>1. IsFiniteSet(A) /\ n + 1 \notin A
  <2>1. IsFiniteSet(1 .. n) /\ n + 1 \notin 1 .. n
    BY FS_Interval
  <2> QED BY <2>1, FS_Subset
<1>2. Cardinality(A \cup {n + 1}) = Cardinality(A) + 1
  BY <1>1, FS_AddElement
<1> QED BY <1>2 DEF Inc

LEMMA TallyStep ==
    ASSUME NEW n \in Nat
    PROVE  LET in == case.inputs[n + 1]
               c  == Tally(n)
           IN  Tally(n + 1) = [present    |-> Inc(c.present, in.present),
                               oracle     |-> Inc(c.oracle, in.present /\ in.oracle),
                               unapproved |-> Inc(c.unapproved, UnapprovedAt(n + 1)),
                               alias      |-> Inc(c.alias, Aliased(in))]
<1> DEFINE in == case.inputs[n + 1]
<1>1. /\ \A i \in 1 .. n + 1 : i = n + 1 \/ i \in 1 .. n
      /\ 1 .. n \subseteq 1 .. n + 1 /\ n + 1 \in 1 .. n + 1
  OBVIOUS
<1>2. Cardinality(PresentTo(n + 1)) = Inc(Cardinality(PresentTo(n)), in.present)
  <2>1. PresentTo(n + 1) = IF in.present THEN PresentTo(n) \cup {n + 1} ELSE PresentTo(n)
    BY <1>1 DEF PresentTo
  <2>2. PresentTo(n) \in SUBSET (1 .. n)
    BY DEF PresentTo
  <2> HIDE DEF in
  <2> QED BY <2>1, <2>2, TallyOne
<1>3. Cardinality(OraclesTo(n + 1)) = Inc(Cardinality(OraclesTo(n)), in.present /\ in.oracle)
  <2>1. OraclesTo(n + 1) = IF in.present /\ in.oracle THEN OraclesTo(n) \cup {n + 1} ELSE OraclesTo(n)
    BY <1>1 DEF OraclesTo
  <2>2. OraclesTo(n) \in SUBSET (1 .. n)
    BY DEF OraclesTo
  <2> DEFINE exposed == in.present /\ in.oracle
  <2>3. OraclesTo(n + 1) = IF exposed THEN OraclesTo(n) \cup {n + 1} ELSE OraclesTo(n)
    BY <2>1
  <2> HIDE DEF in, exposed
  <2>4. Cardinality(OraclesTo(n + 1)) = Inc(Cardinality(OraclesTo(n)), exposed)
    BY <2>2, <2>3, TallyOne
  <2> QED BY <2>4, Zenon DEF exposed
<1>4. Cardinality(UnapprovedTo(n + 1)) = Inc(Cardinality(UnapprovedTo(n)), UnapprovedAt(n + 1))
  <2>1. UnapprovedTo(n + 1) = IF UnapprovedAt(n + 1) THEN UnapprovedTo(n) \cup {n + 1} ELSE UnapprovedTo(n)
    BY <1>1 DEF UnapprovedTo
  <2>2. UnapprovedTo(n) \in SUBSET (1 .. n)
    BY DEF UnapprovedTo
  <2> QED BY <2>1, <2>2, TallyOne
<1>5. Cardinality(AliasedTo(n + 1)) = Inc(Cardinality(AliasedTo(n)), Aliased(in))
  <2>1. AliasedTo(n + 1) = IF Aliased(in) THEN AliasedTo(n) \cup {n + 1} ELSE AliasedTo(n)
    BY <1>1 DEF AliasedTo
  <2>2. AliasedTo(n) \in SUBSET (1 .. n)
    BY DEF AliasedTo
  <2> HIDE DEF in
  <2> QED BY <2>1, <2>2, TallyOne
<1> HIDE DEF in
<1>6. /\ Tally(n).present = Cardinality(PresentTo(n)) /\ Tally(n).oracle = Cardinality(OraclesTo(n))
      /\ Tally(n).unapproved = Cardinality(UnapprovedTo(n)) /\ Tally(n).alias = Cardinality(AliasedTo(n))
  BY DEF Tally
<1>7. Tally(n + 1) = [present    |-> Inc(Tally(n).present, in.present),
                      oracle     |-> Inc(Tally(n).oracle, in.present /\ in.oracle),
                      unapproved |-> Inc(Tally(n).unapproved, UnapprovedAt(n + 1)),
                      alias      |-> Inc(Tally(n).alias, Aliased(in))]
  BY <1>2, <1>3, <1>4, <1>5, <1>6 DEF Tally
<1> QED BY <1>7 DEF in

LEMMA PolicyAuditInv == ASSUME AuditInv, CheckPolicy PROVE AuditInv'
<1>1. /\ Positioned /\ Found /\ counts = Tally(InputsRead) /\ Summed
      /\ pc = "policy" /\ pc' = "inputs"
      /\ case' = case /\ at' = at /\ seen' = seen /\ counts' = counts
      /\ live' = live /\ unmediated' = unmediated /\ overflow' = overflow
      /\ findings' = PolicyFound
  BY DEF AuditInv, CheckPolicy, PolicyFound, capabilityVars
<1>2. at = 1 /\ InputsRead = 0 /\ InputsRead' = 0 /\ GroupsRead = 0 /\ GroupsRead' = 0
  BY <1>1 DEF Positioned, InputsRead, GroupsRead
<1>3. Positioned'
  BY <1>1, <1>2, LenProperties DEF Positioned, SeenBefore, WellFormed
<1>4. Found'
  <2>1. PolicyFound' = PolicyFound /\ (InputsFound(0))' = {} /\ (GroupsFound(0))' = {}
    BY <1>1 DEF PolicyFound, AllowlistValid, InputsFound, GroupsFound
  <2>2. InputsFound(InputsRead)' = {} /\ GroupsFound(GroupsRead)' = {}
    BY <1>2, <2>1
  <2> QED BY <1>1, <2>1, <2>2 DEF Found
<1>5. (counts = Tally(InputsRead))'
  BY <1>1, <1>2 DEF Tally, PresentTo, OraclesTo, UnapprovedTo, AliasedTo, UnapprovedAt, AllowlistValid
<1>6. Summed'
  BY <1>1, <1>2 DEF Summed, TrueLive, TrueUnmediated, CallableOf, UnmediatedOf, CountedTo
<1> QED BY <1>1, <1>3, <1>4, <1>5, <1>6 DEF AuditInv, Reported

(* What has been found of the case does not change while it stays the same. *)
LEMMA SameCase ==
    ASSUME UNCHANGED case
    PROVE  /\ PolicyFound' = PolicyFound
           /\ \A n \in Nat : /\ InputsFound(n)' = InputsFound(n) /\ GroupsFound(n)' = GroupsFound(n)
                    /\ Tally(n)' = Tally(n)
                    /\ TrueLive(n)' = TrueLive(n) /\ TrueUnmediated(n)' = TrueUnmediated(n)
<1>1. PolicyFound' = PolicyFound
  BY DEF PolicyFound, AllowlistValid
<1> SUFFICES ASSUME NEW n \in Nat
             PROVE  /\ InputsFound(n)' = InputsFound(n) /\ GroupsFound(n)' = GroupsFound(n)
                    /\ Tally(n)' = Tally(n)
                    /\ TrueLive(n)' = TrueLive(n) /\ TrueUnmediated(n)' = TrueUnmediated(n)
  BY <1>1
<1>2. InputsFound(n)' = InputsFound(n)
  BY DEF InputsFound, InputFound, NameFoundAt, UnapprovedAt, AllowlistValid, OracleExposed
<1>3. GroupsFound(n)' = GroupsFound(n)
  BY DEF GroupsFound, GroupFound, NameFoundAt
<1>4. Tally(n)' = Tally(n)
  BY DEF Tally, PresentTo, OraclesTo, UnapprovedTo, AliasedTo, UnapprovedAt, AllowlistValid
<1>5. TrueLive(n)' = TrueLive(n) /\ TrueUnmediated(n)' = TrueUnmediated(n)
  BY DEF TrueLive, TrueUnmediated, CallableOf, UnmediatedOf, CountedTo
<1> QED BY <1>2, <1>3, <1>4, <1>5

LEMMA InputAuditInv == ASSUME AuditInv, ReadInput PROVE AuditInv'
<1> DEFINE n == at - 1
           in == case.inputs[at]
<1>1. /\ Positioned /\ Found /\ counts = Tally(InputsRead) /\ Summed
      /\ pc = "inputs" /\ pc' = "inputs" /\ at <= Len(case.inputs)
      /\ case' = case /\ at' = at + 1
      /\ live' = live /\ unmediated' = unmediated /\ overflow' = overflow
      /\ findings' = findings \cup InputFindings(in)
      /\ seen' = seen \cup When(ValidIdentifier(in.name), in.name)
      /\ counts' = [present    |-> Inc(counts.present, in.present),
                    oracle     |-> Inc(counts.oracle, in.present /\ in.oracle),
                    unapproved |-> Inc(counts.unapproved, Unapproved(in)),
                    alias      |-> Inc(counts.alias, Aliased(in))]
  BY DEF AuditInv, ReadInput, capabilityVars
<1>2. /\ at \in Nat \ {0} /\ seen = SeenBefore(case.inputs, at)
      /\ Len(case.inputs) \in Nat
  BY <1>1, LenProperties DEF Positioned, WellFormed
<1>3. n \in Nat /\ n + 1 = at /\ InputsRead = n /\ GroupsRead = 0
      /\ InputsRead' = n + 1 /\ GroupsRead' = 0
  BY <1>1, <1>2 DEF InputsRead, GroupsRead
<1>4. Positioned'
  <2>1. seen' = SeenBefore(case.inputs, at + 1)
    BY <1>1, <1>2, SeenStep
  <2>2. at' \in Nat \ {0} /\ at' <= Len(case.inputs) + 1
    BY <1>1, <1>2
  <2>3. WellFormed(case)'
    BY <1>1 DEF Positioned, WellFormed
  <2>4. (SeenBefore(case.inputs, at))' = SeenBefore(case.inputs, at + 1)
    BY <1>1 DEF SeenBefore
  <2> QED BY <1>1, <2>1, <2>2, <2>3, <2>4 DEF Positioned
<1>5. Unapproved(in) <=> UnapprovedAt(at)
  BY <1>2 DEF Unapproved, UnapprovedAt, NameValid
<1>6. InputFindings(in) = InputFound(at)
  <2>1. NameFindings("agent input", in.name) = NameFoundAt("agent input", case.inputs, at)
    BY <1>2 DEF NameFindings, NameFoundAt
  <2>2. When(Unapproved(in), <<"EF302", DisplayName(in.name)>>)
          = When(UnapprovedAt(at), <<"EF302", DisplayName(in.name)>>)
    BY <1>5 DEF When
  <2> QED BY <2>1, <2>2 DEF InputFindings, InputFound
<1> HIDE DEF n, in
<1>7. Found'
  <2>1. findings = PolicyFound \cup InputsFound(n) \cup GroupsFound(0)
    BY <1>1, <1>3 DEF Found
  <2>2. InputsFound(n + 1) = InputsFound(n) \cup InputFound(at)
    BY <1>3, FoundStep
  <2>3. findings' = PolicyFound \cup InputsFound(n + 1) \cup GroupsFound(0)
    BY <1>1, <1>6, <2>1, <2>2
  <2>4. /\ PolicyFound' = PolicyFound /\ InputsFound(InputsRead)' = InputsFound(n + 1)
        /\ GroupsFound(GroupsRead)' = GroupsFound(0)
    BY <1>1, <1>3, SameCase
  <2> QED BY <1>1, <2>3, <2>4 DEF Found
<1>8. (counts = Tally(InputsRead))'
  <2>1. Tally(n + 1) = [present    |-> Inc(counts.present, in.present),
                        oracle     |-> Inc(counts.oracle, in.present /\ in.oracle),
                        unapproved |-> Inc(counts.unapproved, UnapprovedAt(at)),
                        alias      |-> Inc(counts.alias, Aliased(in))]
    BY <1>1, <1>3, TallyStep DEF in
  <2>2. Inc(counts.unapproved, Unapproved(in)) = Inc(counts.unapproved, UnapprovedAt(at))
    BY <1>5 DEF Inc
  <2>3. counts' = Tally(n + 1)
    BY <1>1, <2>1, <2>2
  <2>4. Tally(InputsRead)' = Tally(n + 1)
    BY <1>1, <1>3, SameCase
  <2> QED BY <2>3, <2>4
<1>9. Summed'
  <2>1. TrueLive(GroupsRead)' = TrueLive(0) /\ TrueUnmediated(GroupsRead)' = TrueUnmediated(0)
    BY <1>1, <1>3, SameCase
  <2> QED BY <1>1, <1>3, <2>1 DEF Summed
<1> QED BY <1>1, <1>4, <1>7, <1>8, <1>9 DEF AuditInv, Reported

LEMMA EndInputsAuditInv == ASSUME AuditInv, EndInputs PROVE AuditInv'
<1>1. /\ Positioned /\ Found /\ counts = Tally(InputsRead) /\ Summed
      /\ pc = "inputs" /\ pc' = "capabilities" /\ at > Len(case.inputs)
      /\ case' = case /\ at' = 1 /\ seen' = {} /\ counts' = counts /\ findings' = findings
      /\ live' = live /\ unmediated' = unmediated /\ overflow' = overflow
  BY DEF AuditInv, EndInputs, capabilityVars
<1> DEFINE n == Len(case.inputs)
<1>2. /\ at \in Nat \ {0} /\ at <= n + 1 /\ n \in Nat /\ Len(case.capabilities) \in Nat
  BY <1>1, LenProperties DEF Positioned, WellFormed
<1>3. /\ InputsRead = n /\ GroupsRead = 0 /\ InputsRead' = n /\ GroupsRead' = 0
  BY <1>1, <1>2 DEF InputsRead, GroupsRead
<1> HIDE DEF n
<1>4. Positioned'
  <2>1. WellFormed(case)'
    BY <1>1 DEF Positioned, WellFormed
  <2>2. (SeenBefore(case.capabilities, at))' = {}
    BY <1>1, NothingRead DEF SeenBefore
  <2> QED BY <1>1, <1>2, <2>1, <2>2 DEF Positioned
<1>5. /\ PolicyFound' = PolicyFound /\ InputsFound(InputsRead)' = InputsFound(n)
      /\ GroupsFound(GroupsRead)' = GroupsFound(0) /\ Tally(InputsRead)' = Tally(n)
      /\ TrueLive(GroupsRead)' = TrueLive(0) /\ TrueUnmediated(GroupsRead)' = TrueUnmediated(0)
  BY <1>1, <1>2, <1>3, SameCase
<1>6. Found'
  BY <1>1, <1>3, <1>5 DEF Found
<1>7. (counts = Tally(InputsRead))'
  BY <1>1, <1>3, <1>5
<1>8. Summed'
  BY <1>1, <1>3, <1>5 DEF Summed
<1> QED BY <1>1, <1>4, <1>6, <1>7, <1>8 DEF AuditInv, Reported

(* One turn of the group loop on the counters: TL and TU are the true sums *)
(* before it, c and u what the group adds.                                 *)
LEMMA SaturatingStep ==
    ASSUME NEW TL \in Nat, NEW TU \in Nat, TU <= TL, NEW c \in Nat, NEW u \in Nat, u <= c
    PROVE  /\ SaturatingAdd(Cut(TL), c) = Cut(TL + c)
           /\ SaturatingAdd(Cut(TU), u) = Cut(TU + u)
           /\ (TL > MaxU64 \/ Overflows(Cut(TL), c) \/ Overflows(Cut(TU), u)) <=> TL + c > MaxU64
BY MaxU64Assumption DEF SaturatingAdd, Cut, Overflows

LEMMA GroupAuditInv == ASSUME AuditInv, ReadCapability PROVE AuditInv'
<1> DEFINE n == at - 1
           cap == case.capabilities[at]
           found == NameFindings("capability group", cap.name)
                      \cup When(~CountsValid(cap), <<"EF313", DisplayName(cap.name)>>)
                      \cup When(Counts(cap) /\ case.requireMediation /\ Unmediated(cap) > 0,
                                <<"EF303", <<DisplayName(cap.name), Unmediated(cap)>>>>)
<1>1. /\ Positioned /\ Found /\ counts = Tally(InputsRead) /\ Summed
      /\ pc = "capabilities" /\ pc' = "capabilities" /\ at <= Len(case.capabilities)
      /\ case' = case /\ at' = at + 1 /\ counts' = counts
      /\ findings' = findings \cup found
      /\ seen' = seen \cup When(ValidIdentifier(cap.name), cap.name)
  BY DEF AuditInv, ReadCapability
<1>2. /\ at \in Nat \ {0} /\ seen = SeenBefore(case.capabilities, at) /\ WellFormed(case)
      /\ Len(case.capabilities) \in Nat /\ Len(case.inputs) \in Nat
  BY <1>1, LenProperties DEF Positioned, WellFormed
<1> DEFINE m == Len(case.capabilities)
<1>15. m \in Nat /\ at \in Nat \ {0} /\ at <= m /\ at' = at + 1
  BY <1>1, <1>2
<1>3. n \in Nat /\ n + 1 = at /\ n + 1 <= Len(case.capabilities) /\ at \in 1 .. m
      /\ GroupsRead = n /\ InputsRead = Len(case.inputs)
      /\ GroupsRead' = n + 1 /\ InputsRead' = Len(case.inputs)
  <2> HIDE DEF m
  <2>1. n \in Nat /\ n + 1 = at /\ n + 1 <= m /\ at \in 1 .. m /\ at' - 1 = n + 1
    BY <1>15
  <2>2. GroupsRead = n /\ GroupsRead' = n + 1
    BY <1>1, <2>1 DEF GroupsRead
  <2>3. InputsRead = Len(case.inputs) /\ InputsRead' = Len(case.inputs)
    BY <1>1 DEF InputsRead
  <2> QED BY <2>1, <2>2, <2>3 DEF m
<1>4. Positioned'
  <2>1. seen' = SeenBefore(case.capabilities, at + 1)
    BY <1>1, <1>2, SeenStep
  <2>2. at' \in Nat \ {0} /\ at' <= Len(case.capabilities) + 1
    <3> HIDE DEF m
    <3>1. at' \in Nat \ {0} /\ at' <= m + 1
      BY <1>15
    <3> QED BY <3>1 DEF m
  <2>3. WellFormed(case)'
    BY <1>1, <1>2 DEF WellFormed
  <2>4. (SeenBefore(case.capabilities, at))' = SeenBefore(case.capabilities, at + 1)
    BY <1>1 DEF SeenBefore
  <2> QED BY <1>1, <2>1, <2>2, <2>3, <2>4 DEF Positioned
<1>5. found = GroupFound(at)
  <2>1. NameFindings("capability group", cap.name)
          = NameFoundAt("capability group", case.capabilities, at)
    BY <1>2 DEF NameFindings, NameFoundAt
  <2> QED BY <2>1 DEF GroupFound
<1>6. cap.callable \in Nat /\ (Counts(cap) => Unmediated(cap) \in Nat /\ Unmediated(cap) <= cap.callable)
  BY <1>2, <1>3, GroupIsTyped
<1>7. /\ TrueLive(n + 1) = IF Counts(cap) THEN TrueLive(n) + cap.callable ELSE TrueLive(n)
      /\ TrueUnmediated(n + 1) = IF Counts(cap) THEN TrueUnmediated(n) + Unmediated(cap)
                                 ELSE TrueUnmediated(n)
  BY <1>2, <1>3, SumsStep
<1>8. /\ TrueLive(n) \in Nat /\ TrueUnmediated(n) \in Nat /\ TrueUnmediated(n) <= TrueLive(n)
  BY <1>2, <1>3, SumsTyped
<1>9. /\ PolicyFound' = PolicyFound /\ InputsFound(InputsRead)' = InputsFound(InputsRead)
      /\ GroupsFound(GroupsRead)' = GroupsFound(n + 1) /\ Tally(InputsRead)' = Tally(InputsRead)
      /\ TrueLive(GroupsRead)' = TrueLive(n + 1) /\ TrueUnmediated(GroupsRead)' = TrueUnmediated(n + 1)
  BY <1>1, <1>2, <1>3, SameCase
<1>10. /\ live = Cut(TrueLive(n)) /\ unmediated = Cut(TrueUnmediated(n))
       /\ overflow \in BOOLEAN /\ (overflow <=> TrueLive(n) > MaxU64)
  BY <1>1, <1>3 DEF Summed
<1>11. IF Counts(cap)
       THEN /\ live' = SaturatingAdd(live, cap.callable)
            /\ unmediated' = SaturatingAdd(unmediated, Unmediated(cap))
            /\ overflow' = (overflow \/ Overflows(live, cap.callable)
                                     \/ Overflows(unmediated, Unmediated(cap)))
       ELSE live' = live /\ unmediated' = unmediated /\ overflow' = overflow
  BY DEF ReadCapability, capabilityVars
<1> HIDE DEF n, cap, found
<1>12. Found'
  <2>1. findings = PolicyFound \cup InputsFound(InputsRead) \cup GroupsFound(n)
    BY <1>1, <1>3 DEF Found
  <2>2. GroupsFound(n + 1) = GroupsFound(n) \cup GroupFound(at)
    BY <1>3, FoundStep
  <2>3. findings' = PolicyFound \cup InputsFound(InputsRead) \cup GroupsFound(n + 1)
    BY <1>1, <1>5, <2>1, <2>2
  <2> QED BY <1>1, <1>9, <2>3 DEF Found
<1>13. (counts = Tally(InputsRead))'
  BY <1>1, <1>9
<1>14. Summed'
  <2>1. CASE Counts(cap)
    <3> DEFINE u == Unmediated(cap)
               c == cap.callable
               TL == TrueLive(n)
               TU == TrueUnmediated(n)
    <3>1. TL \in Nat /\ TU \in Nat /\ TU <= TL /\ c \in Nat /\ u \in Nat /\ u <= c
      BY <1>6, <1>8, <2>1
    <3>2. /\ live' = SaturatingAdd(Cut(TL), c) /\ unmediated' = SaturatingAdd(Cut(TU), u)
          /\ overflow' = (overflow \/ Overflows(Cut(TL), c) \/ Overflows(Cut(TU), u))
      BY <1>10, <1>11, <2>1
    <3>3. TrueLive(n + 1) = TL + c /\ TrueUnmediated(n + 1) = TU + u
      BY <1>7, <2>1
    <3>4. overflow <=> TL > MaxU64
      BY <1>10
    <3> HIDE DEF u, c, TL, TU
    <3>5. /\ SaturatingAdd(Cut(TL), c) = Cut(TL + c)
          /\ SaturatingAdd(Cut(TU), u) = Cut(TU + u)
          /\ (TL > MaxU64 \/ Overflows(Cut(TL), c) \/ Overflows(Cut(TU), u)) <=> TL + c > MaxU64
      BY <3>1, SaturatingStep
    <3>6. /\ live' = Cut(TrueLive(n + 1)) /\ unmediated' = Cut(TrueUnmediated(n + 1))
          /\ overflow' \in BOOLEAN /\ (overflow' <=> TrueLive(n + 1) > MaxU64)
      BY <3>2, <3>3, <3>4, <3>5
    <3> QED BY <1>9, <3>6 DEF Summed, Cut
  <2>2. CASE ~Counts(cap)
    BY <1>7, <1>9, <1>10, <1>11, <2>2 DEF Summed, Cut
  <2> QED BY <2>1, <2>2
<1> QED BY <1>1, <1>4, <1>12, <1>13, <1>14 DEF AuditInv, Reported

LEMMA FinishAuditInv == ASSUME AuditInv, Finish PROVE AuditInv'
<1>1. /\ Positioned /\ Found /\ counts = Tally(InputsRead) /\ Summed
      /\ pc = "capabilities" /\ pc' = "done" /\ at > Len(case.capabilities)
      /\ case' = case /\ at' = at /\ seen' = seen /\ counts' = counts
      /\ live' = live /\ unmediated' = unmediated /\ overflow' = overflow
      /\ findings' = findings \cup LateFound
  BY DEF AuditInv, Finish, LateFound, capabilityVars
<1> DEFINE n == Len(case.capabilities)
<1>2. /\ at \in Nat \ {0} /\ at <= n + 1 /\ n \in Nat /\ Len(case.inputs) \in Nat
  BY <1>1, LenProperties DEF Positioned, WellFormed
<1>3. /\ InputsRead = Len(case.inputs) /\ GroupsRead = n
      /\ InputsRead' = Len(case.inputs) /\ GroupsRead' = n
  BY <1>1, <1>2 DEF InputsRead, GroupsRead
<1> HIDE DEF n
<1>4. Positioned'
  <2>1. WellFormed(case)'
    BY <1>1 DEF Positioned, WellFormed
  <2> QED BY <1>1, <1>2, <2>1 DEF Positioned
<1>5. /\ PolicyFound' = PolicyFound /\ InputsFound(InputsRead)' = InputsFound(InputsRead)
      /\ GroupsFound(GroupsRead)' = GroupsFound(n) /\ Tally(InputsRead)' = Tally(InputsRead)
      /\ TrueLive(GroupsRead)' = TrueLive(n) /\ TrueUnmediated(GroupsRead)' = TrueUnmediated(n)
  BY <1>1, <1>2, <1>3, SameCase
<1>6. LateFound' = LateFound
  BY <1>1 DEF LateFound, ReportedFindings
<1>7. Found'
  BY <1>1, <1>3, <1>5, <1>6 DEF Found
<1>8. (counts = Tally(InputsRead))'
  BY <1>1, <1>5
<1>9. Summed'
  BY <1>1, <1>3, <1>5 DEF Summed
<1>10. Reported'
  BY <1>1 DEF Finish, Reported, capabilityVars
<1> QED BY <1>4, <1>7, <1>8, <1>9, <1>10 DEF AuditInv

LEMMA NextAuditInv == AuditInv /\ [Next]_vars => AuditInv'
<1> SUFFICES ASSUME AuditInv, [Next]_vars PROVE AuditInv'
  OBVIOUS
<1>1. CASE UNCHANGED vars \/ Done
  <2>1. /\ case' = case /\ pc' = pc /\ at' = at /\ seen' = seen /\ counts' = counts
        /\ live' = live /\ unmediated' = unmediated /\ overflow' = overflow
        /\ findings' = findings /\ report' = report
    BY <1>1 DEF Done, vars
  <2>2. InputsRead' = InputsRead /\ GroupsRead' = GroupsRead
    BY <2>1 DEF InputsRead, GroupsRead
  <2>3. Positioned'
    BY <2>1 DEF AuditInv, Positioned, WellFormed, SeenBefore
  <2>4. InputsRead \in Nat /\ GroupsRead \in Nat
    BY LenProperties DEF AuditInv, Positioned, InputsRead, GroupsRead, WellFormed
  <2>5. /\ PolicyFound' = PolicyFound /\ InputsFound(InputsRead)' = InputsFound(InputsRead)
        /\ GroupsFound(GroupsRead)' = GroupsFound(GroupsRead)
        /\ Tally(InputsRead)' = Tally(InputsRead)
        /\ TrueLive(GroupsRead)' = TrueLive(GroupsRead)
        /\ TrueUnmediated(GroupsRead)' = TrueUnmediated(GroupsRead)
    BY <2>1, <2>2, <2>4, SameCase
  <2>6. LateFound' = LateFound
    BY <2>1 DEF LateFound, ReportedFindings
  <2>7. Found'
    BY <2>1, <2>5, <2>6 DEF AuditInv, Found
  <2>8. Summed'
    BY <2>1, <2>5 DEF AuditInv, Summed
  <2> QED BY <2>1, <2>3, <2>5, <2>7, <2>8 DEF AuditInv, Reported
<1> QED BY <1>1, PolicyAuditInv, InputAuditInv, EndInputsAuditInv, GroupAuditInv, FinishAuditInv DEF Next

-----------------------------------------------------------------------------
LEMMA GroupsReadBound ==
    ASSUME Positioned PROVE GroupsRead \in Nat /\ GroupsRead <= Len(case.capabilities)
<1> DEFINE m == Len(case.capabilities)
<1>1. m \in Nat
  BY LenProperties DEF Positioned, WellFormed
<1>2. at \in Nat \ {0} /\ (pc = "capabilities" => at <= m + 1)
  BY DEF Positioned
<1> HIDE DEF m
<1>3. GroupsRead = (IF pc = "capabilities" THEN at - 1 ELSE IF pc = "done" THEN m ELSE 0)
  BY DEF GroupsRead, m
<1>4. GroupsRead \in Nat /\ GroupsRead <= m
  BY <1>1, <1>2, <1>3
<1> QED BY <1>4 DEF m

LEMMA Saturated == ASSUME AuditInv PROVE SaturatingCounters
<1> DEFINE Read == IF pc = "capabilities" THEN 1 .. at - 1
                   ELSE IF pc = "done" THEN DOMAIN case.capabilities ELSE {}
           n == GroupsRead
<1>1. n \in Nat /\ n <= Len(case.capabilities)
  BY GroupsReadBound DEF AuditInv
<1>2. Read = 1 .. n
  <2>1. DOMAIN case.capabilities = 1 .. Len(case.capabilities) /\ 1 .. 0 = {}
    BY LenProperties DEF AuditInv, Positioned, WellFormed
  <2> QED BY <2>1 DEF GroupsRead
<1>3. /\ SumFunctionOnSet([i \in Read |-> case.capabilities[i].callable],
                          {i \in Read : Counts(case.capabilities[i])}) = TrueLive(n)
      /\ SumFunctionOnSet([i \in Read |-> Unmediated(case.capabilities[i])],
                          {i \in Read : Counts(case.capabilities[i])}) = TrueUnmediated(n)
  BY <1>2 DEF TrueLive, TrueUnmediated, CallableOf, UnmediatedOf, CountedTo
<1>4. /\ live = Cut(TrueLive(n)) /\ unmediated = Cut(TrueUnmediated(n))
      /\ overflow <=> TrueLive(n) > MaxU64
  BY DEF AuditInv, Summed
<1>5. /\ TrueLive(n) \in Nat /\ TrueUnmediated(n) \in Nat /\ TrueUnmediated(n) <= TrueLive(n)
  BY <1>1, SumsTyped DEF AuditInv, Positioned
<1> HIDE DEF n
<1>6. unmediated <= live
  BY <1>4, <1>5, MaxU64Assumption DEF Cut
<1> QED BY <1>3, <1>4, <1>6 DEF SaturatingCounters, Cut

-----------------------------------------------------------------------------
LEMMA ListPositions ==
    ASSUME WellFormed(case), NEW list \in {case.inputs, case.capabilities, case.allowed}
    PROVE  Len(list) \in Nat /\ DOMAIN list = 1 .. Len(list)
BY LenProperties DEF WellFormed

(* The list of names is good exactly when no element adds a finding.       *)
LEMMA NamesGood ==
    ASSUME NEW kind, NEW list, NEW n \in Nat, DOMAIN list = 1 .. n
    PROVE  (\A i \in 1 .. n : NameFoundAt(kind, list, i) = {})
             <=> IsInjective(Names(list)) /\ Range(Names(list)) \cap BadNames = {}
<1>1. \A i \in 1 .. n : NameFoundAt(kind, list, i) = {} <=>
        ValidIdentifier(list[i].name) /\ list[i].name \notin SeenBefore(list, i)
  BY DEF NameFoundAt, When
<1>2. DOMAIN Names(list) = 1 .. n /\ \A i \in 1 .. n : Names(list)[i] = list[i].name
  BY DEF Names
<1>3. Range(Names(list)) \cap BadNames = {} <=> \A i \in 1 .. n : ValidIdentifier(list[i].name)
  BY <1>2 DEF Range, ValidIdentifier
<1>4. ASSUME \A i \in 1 .. n : ValidIdentifier(list[i].name)
      PROVE  (\A i \in 1 .. n : list[i].name \notin SeenBefore(list, i)) <=> IsInjective(Names(list))
  <2>1. \A i \in 1 .. n : list[i].name \in SeenBefore(list, i)
                            <=> \E j \in 1 .. i - 1 : list[j].name = list[i].name
    BY <1>4 DEF SeenBefore
  <2>2. IsInjective(Names(list)) <=> \A i, j \in 1 .. n : list[i].name = list[j].name => i = j
    BY <1>2 DEF IsInjective
  <2>3. \A i \in 1 .. n : \A j \in 1 .. i - 1 : j \in 1 .. n /\ j # i
    OBVIOUS
  <2>4. \A i, j \in 1 .. n : i = j \/ j \in 1 .. i - 1 \/ i \in 1 .. j - 1
    OBVIOUS
  <2> QED BY <2>1, <2>2, <2>3, <2>4
<1> QED BY <1>1, <1>3, <1>4

LEMMA LengthIsDistinct ==
    ASSUME NEW list, list \in Seq(Range(list))
    PROVE  Cardinality(Range(list)) = Len(list) <=> IsInjective(list)
<1> DEFINE n == Len(list)
           S == Range(list)
<1>1. n \in Nat /\ DOMAIN list = 1 .. n /\ list \in [1 .. n -> S]
  BY LenProperties
<1>2. list \in Surjection(1 .. n, S)
  BY <1>1 DEF Surjection, Range
<1>3. IsFiniteSet(1 .. n) /\ Cardinality(1 .. n) = n
  <2> HIDE DEF n
  <2>1. Cardinality(1 .. n) = IF 1 > n THEN 0 ELSE n - 1 + 1
    BY <1>1, FS_Interval
  <2> QED BY <1>1, <2>1, FS_Interval
<1> HIDE DEF n, S
<1>4. Cardinality(S) = n <=> list \in Injection(1 .. n, S)
  BY <1>2, <1>3, FS_Surjection
<1>5. list \in Injection(1 .. n, S) <=> IsInjective(list)
  BY <1>1 DEF Injection, IsInjective
<1> QED BY <1>4, <1>5 DEF n, S

-----------------------------------------------------------------------------
InputGood(in) ==
    /\ in.digest # "bad"
    /\ in.alias => in.present /\ ~case.forbidAlias
    /\ in.present => IF in.oracle THEN ~case.forbidOracle ELSE in.name \in Range(case.allowed)

GroupGood(c) ==
    /\ c.mediated <= c.callable /\ c.callable <= c.total
    /\ ~c.exposed => c.callable = 0
    /\ case.requireMediation /\ c.write => c.mediated = c.callable

NamesAreGood(list) == IsInjective(Names(list)) /\ Range(Names(list)) \cap BadNames = {}

LEMMA AllowlistGood ==
    ASSUME WellFormed(case)
    PROVE  AllowlistValid(case) <=> IsInjective(case.allowed) /\ Range(case.allowed) \cap BadNames = {}
<1>1. Cardinality(Range(case.allowed)) = Len(case.allowed) <=> IsInjective(case.allowed)
  BY LengthIsDistinct DEF WellFormed
<1>2. (\A name \in Range(case.allowed) : ValidIdentifier(name)) <=> Range(case.allowed) \cap BadNames = {}
  BY DEF ValidIdentifier
<1> QED BY <1>1, <1>2 DEF AllowlistValid

(* With a valid allowlist and good names, an input without a finding is    *)
(* one that keeps the contract.                                            *)
LEMMA InputsGood ==
    ASSUME WellFormed(case), AllowlistValid(case)
    PROVE  InputsFound(Len(case.inputs)) = {} <=>
             NamesAreGood(case.inputs) /\ \A in \in Range(case.inputs) : InputGood(in)
<1> DEFINE n == Len(case.inputs)
<1>1. n \in Nat /\ DOMAIN case.inputs = 1 .. n
  BY ListPositions
<1> HIDE DEF n
<1>2. InputsFound(n) = {} <=> \A i \in 1 .. n : InputFound(i) = {}
  BY DEF InputsFound
<1>3. (\A i \in 1 .. n : NameFoundAt("agent input", case.inputs, i) = {}) <=> NamesAreGood(case.inputs)
  BY <1>1, NamesGood DEF NamesAreGood
<1>4. ASSUME NEW i \in 1 .. n, NameFoundAt("agent input", case.inputs, i) = {}
      PROVE  InputFound(i) = {} <=> InputGood(case.inputs[i])
  <2> DEFINE in == case.inputs[i]
             shown == DisplayName(in.name)
  <2>1. InputFound(i) = {} <=>
          /\ When(in.digest = "bad", <<"EF309", shown>>) = {}
          /\ When(~in.present /\ in.alias, <<"EF317", shown>>) = {}
          /\ When(OracleExposed(in), <<"EF301", shown>>) = {}
          /\ When(UnapprovedAt(i), <<"EF302", shown>>) = {}
          /\ When(Aliased(in) /\ case.forbidAlias, <<"EF305", shown>>) = {}
    BY <1>4 DEF InputFound
  <2>2. InputFound(i) = {} <=>
          /\ in.digest # "bad" /\ ~(~in.present /\ in.alias) /\ ~OracleExposed(in)
          /\ ~UnapprovedAt(i) /\ ~(Aliased(in) /\ case.forbidAlias)
    BY <2>1 DEF When
  <2>3. ValidIdentifier(in.name) /\ in.name \notin SeenBefore(case.inputs, i)
    BY <1>4 DEF NameFoundAt, When
  <2>4. UnapprovedAt(i) <=> in.present /\ ~in.oracle /\ in.name \notin Range(case.allowed)
    BY <2>3 DEF UnapprovedAt
  <2>5. OracleExposed(in) <=> in.present /\ in.oracle /\ case.forbidOracle
    BY DEF OracleExposed
  <2>6. Aliased(in) <=> in.present /\ in.alias
    BY DEF Aliased
  <2> QED BY <2>2, <2>4, <2>5, <2>6 DEF InputGood
<1>5. \A i \in 1 .. n : InputFound(i) = {} => NameFoundAt("agent input", case.inputs, i) = {}
  BY DEF InputFound
<1>6. (\A in \in Range(case.inputs) : InputGood(in)) <=> \A i \in 1 .. n : InputGood(case.inputs[i])
  BY <1>1 DEF Range
<1>7. InputsFound(n) = {} <=>
        NamesAreGood(case.inputs) /\ \A in \in Range(case.inputs) : InputGood(in)
  BY <1>2, <1>3, <1>4, <1>5, <1>6
<1> QED BY <1>7 DEF n

LEMMA GroupsGood ==
    ASSUME WellFormed(case)
    PROVE  GroupsFound(Len(case.capabilities)) = {} <=>
             NamesAreGood(case.capabilities) /\ \A c \in Range(case.capabilities) : GroupGood(c)
<1> DEFINE n == Len(case.capabilities)
<1>1. n \in Nat /\ DOMAIN case.capabilities = 1 .. n
  BY ListPositions
<1>8. \A i \in 1 .. n : /\ case.capabilities[i].callable \in Nat
                        /\ case.capabilities[i].mediated \in Nat
  BY GroupIsTyped
<1> HIDE DEF n
<1>2. GroupsFound(n) = {} <=> \A i \in 1 .. n : GroupFound(i) = {}
  BY DEF GroupsFound
<1>3. (\A i \in 1 .. n : NameFoundAt("capability group", case.capabilities, i) = {})
        <=> NamesAreGood(case.capabilities)
  BY <1>1, NamesGood DEF NamesAreGood
<1>4. ASSUME NEW i \in 1 .. n, NameFoundAt("capability group", case.capabilities, i) = {}
      PROVE  GroupFound(i) = {} <=> GroupGood(case.capabilities[i])
  <2> DEFINE cap == case.capabilities[i]
             shown == DisplayName(cap.name)
             open == Counts(cap) /\ case.requireMediation /\ Unmediated(cap) > 0
  <2>1. GroupFound(i) = {} <=>
          /\ When(~CountsValid(cap), <<"EF313", shown>>) = {}
          /\ When(open, <<"EF303", <<shown, Unmediated(cap)>>>>) = {}
    BY <1>4 DEF GroupFound
  <2>2. GroupFound(i) = {} <=> CountsValid(cap) /\ ~open
    <3> HIDE DEF open, cap, shown
    <3> QED BY <2>1 DEF When
  <2>3. CountsValid(cap) <=> /\ cap.callable <= cap.total /\ cap.mediated <= cap.callable
                             /\ (~cap.exposed => cap.callable = 0)
    BY DEF CountsValid
  <2>4. ASSUME CountsValid(cap)
        PROVE  open <=> case.requireMediation /\ cap.write /\ cap.mediated # cap.callable
    <3> DEFINE m == cap.mediated
               c == cap.callable
    <3>1. m \in Nat /\ c \in Nat /\ m <= c /\ (~cap.exposed => c = 0) /\ Unmediated(cap) = c - m
      BY <1>8, <2>3, <2>4 DEF Unmediated
    <3> HIDE DEF m, c
    <3>2. (Unmediated(cap) > 0 <=> m # c) /\ (~cap.exposed => m = c)
      BY <3>1
    <3>3. Counts(cap) <=> cap.write /\ cap.exposed
      BY <2>4 DEF Counts
    <3> HIDE DEF cap
    <3> QED BY <3>2, <3>3 DEF m, c
  <2> HIDE DEF open, cap
  <2>5. GroupFound(i) = {} <=> GroupGood(cap)
    BY <2>2, <2>3, <2>4 DEF GroupGood
  <2> QED BY <2>5 DEF cap
<1>5. \A i \in 1 .. n : GroupFound(i) = {} => NameFoundAt("capability group", case.capabilities, i) = {}
  BY DEF GroupFound
<1>6. (\A c \in Range(case.capabilities) : GroupGood(c)) <=> \A i \in 1 .. n : GroupGood(case.capabilities[i])
  BY <1>1 DEF Range
<1>7. GroupsFound(n) = {} <=>
        NamesAreGood(case.capabilities) /\ \A c \in Range(case.capabilities) : GroupGood(c)
  BY <1>2, <1>3, <1>4, <1>5, <1>6
<1> QED BY <1>7 DEF n

(* Of consistent groups the write groups are the ones that are counted.    *)
LEMMA WriteSums ==
    ASSUME WellFormed(case), \A c \in Range(case.capabilities) : GroupGood(c)
    PROVE  LET Write == {i \in DOMAIN case.capabilities :
                           case.capabilities[i].write /\ case.capabilities[i].exposed}
           IN  /\ SumFunctionOnSet([i \in Write |-> case.capabilities[i].callable], Write)
                    = TrueLive(Len(case.capabilities))
               /\ SumFunctionOnSet([i \in Write |-> Unmediated(case.capabilities[i])], Write)
                    = TrueUnmediated(Len(case.capabilities))
<1> DEFINE n == Len(case.capabilities)
           Write == {i \in DOMAIN case.capabilities :
                       case.capabilities[i].write /\ case.capabilities[i].exposed}
           f == [i \in Write |-> case.capabilities[i].callable]
           g == [i \in Write |-> Unmediated(case.capabilities[i])]
<1>1. n \in Nat /\ DOMAIN case.capabilities = 1 .. n
  BY ListPositions
<1>2. \A i \in 1 .. n : CountsValid(case.capabilities[i])
  BY <1>1 DEF Range, GroupGood, CountsValid
<1>3. Write = CountedTo(n)
  BY <1>1, <1>2 DEF CountedTo, Counts
<1>4. /\ IsFiniteSet(CountedTo(n))
      /\ \A i \in CountedTo(n) : CallableOf(n)[i] \in Nat /\ UnmediatedOf(n)[i] \in Nat
  BY <1>1, SumsTyped
<1>5. \A i \in CountedTo(n) : i \in 1 .. n
  BY DEF CountedTo
<1>6. \A i \in CountedTo(n) : f[i] = CallableOf(n)[i] /\ g[i] = UnmediatedOf(n)[i]
  BY <1>3, <1>5 DEF CallableOf, UnmediatedOf
<1> HIDE DEF f, g, Write, n
<1>7. /\ SumFunctionOnSet(f, CountedTo(n)) = TrueLive(n)
      /\ SumFunctionOnSet(g, CountedTo(n)) = TrueUnmediated(n)
  BY <1>4, <1>6, SumAgrees DEF TrueLive, TrueUnmediated
<1> QED BY <1>3, <1>7 DEF f, g, Write, n

ReportedGood(c, oracles, open) ==
    c.reported # None =>
      /\ c.reported.inputs \in {None, Len(c.inputs)}
      /\ c.reported.groups \in {None, Len(c.capabilities)}
      /\ c.reported.unmediated \in {None, open}
      /\ c.reported.oracles \in {None, oracles}

OrderGood(c) == /\ c.requireBaseline => c.beforeConstructor
                /\ c.beforeConstructor => c.beforeFirstTurn

LEMMA LateGood ==
    ASSUME AuditInv, pc = "done"
    PROVE  LateFound = {} <=>
             /\ TrueLive(Len(case.capabilities)) <= MaxU64
             /\ OrderGood(case)
             /\ ReportedGood(case, Cardinality(OraclesTo(Len(case.inputs))),
                             TrueUnmediated(Len(case.capabilities)))
<1> DEFINE TL == TrueLive(Len(case.capabilities))
           TU == TrueUnmediated(Len(case.capabilities))
           oracles == Cardinality(OraclesTo(Len(case.inputs)))
<1>1. WellFormed(case) /\ GroupsRead = Len(case.capabilities) /\ InputsRead = Len(case.inputs)
  BY DEF AuditInv, Positioned, GroupsRead, InputsRead
<1>2. /\ unmediated = Cut(TU)
      /\ overflow <=> TL > MaxU64
  BY <1>1 DEF AuditInv, Summed
<1>3. counts.oracle = oracles
  BY <1>1 DEF AuditInv, Tally
<1>4. TL \in Nat /\ TU \in Nat /\ TU <= TL
  <2>1. Len(case.capabilities) \in Nat
    BY <1>1, ListPositions
  <2> QED BY <1>1, <2>1, SumsTyped
<1> HIDE DEF TL, TU, oracles
<1>5. LateFound = {} <=> ~overflow /\ OrderFindings(case) = {} /\ ReportedFindings(case) = {}
  BY DEF LateFound, When
<1>6. OrderFindings(case) = {} <=> OrderGood(case)
  <2>1. OrderFindings(case) = {} <=> /\ ~(case.requireBaseline /\ ~case.beforeConstructor)
                                     /\ ~(case.beforeConstructor /\ ~case.beforeFirstTurn)
    BY DEF OrderFindings, When
  <2> QED BY <2>1 DEF OrderGood
<1>7. ReportedFindings(case) = {} <=> ReportedGood(case, oracles, unmediated)
  BY <1>3 DEF ReportedFindings, ReportedGood, Mismatch, When
<1>9. ~overflow <=> TL <= MaxU64
  <2>1. overflow <=> TL > MaxU64
    BY <1>2
  <2>2. ~(TL > MaxU64) <=> TL <= MaxU64
    BY <1>4, MaxU64Assumption
  <2> QED BY <2>1, <2>2
<1>8. ~overflow => unmediated = TU
  <2>1. TL <= MaxU64 => Cut(TU) = TU
    BY <1>4, MaxU64Assumption DEF Cut
  <2> QED BY <1>2, <1>9, <2>1
<1> QED BY <1>5, <1>6, <1>7, <1>8, <1>9 DEF TL, TU, oracles

LEMMA PassIsContract == ASSUME AuditInv, pc = "done" PROVE report.passed <=> KeepsContract
<1> DEFINE NI == Len(case.inputs)
           NG == Len(case.capabilities)
           Write == {i \in DOMAIN case.capabilities :
                       case.capabilities[i].write /\ case.capabilities[i].exposed}
           L == SumFunctionOnSet([i \in Write |-> case.capabilities[i].callable], Write)
           U == SumFunctionOnSet([i \in Write |-> Unmediated(case.capabilities[i])], Write)
           O == Cardinality({i \in DOMAIN case.inputs :
                               case.inputs[i].present /\ case.inputs[i].oracle})
           allowed == IsInjective(case.allowed) /\ Range(case.allowed) \cap BadNames = {}
           inputs == NamesAreGood(case.inputs) /\ \A in \in Range(case.inputs) : InputGood(in)
           groups == \A c \in Range(case.capabilities) : GroupGood(c)
<1>1. WellFormed(case) /\ InputsRead = NI /\ GroupsRead = NG
  BY DEF AuditInv, Positioned, InputsRead, GroupsRead
<1>2. findings = PolicyFound \cup InputsFound(NI) \cup GroupsFound(NG) \cup LateFound
  BY <1>1 DEF AuditInv, Found
<1>3. report.passed <=> findings = {}
  <2>1. report.passed = (findings = {})
    BY DEF AuditInv, Reported
  <2> QED BY <2>1, Zenon
<1>4. PolicyFound = {} <=> case.schemaOk /\ case.caseIdOk /\ AllowlistValid(case)
  BY DEF PolicyFound, When
<1>5. AllowlistValid(case) <=> allowed
  BY <1>1, AllowlistGood
<1>6. AllowlistValid(case) => (InputsFound(NI) = {} <=> inputs)
  BY <1>1, InputsGood
<1>7. GroupsFound(NG) = {} <=> NamesAreGood(case.capabilities) /\ groups
  BY <1>1, GroupsGood
<1>8. groups => L = TrueLive(NG) /\ U = TrueUnmediated(NG)
  BY <1>1, WriteSums
<1>9. O = Cardinality(OraclesTo(NI))
  <2>1. DOMAIN case.inputs = 1 .. NI
    BY <1>1, ListPositions
  <2> QED BY <2>1 DEF OraclesTo
<1>10. LateFound = {} <=> /\ TrueLive(NG) <= MaxU64 /\ OrderGood(case)
                          /\ ReportedGood(case, Cardinality(OraclesTo(NI)), TrueUnmediated(NG))
  BY LateGood
<1>11. KeepsContract <=> /\ case.schemaOk /\ case.caseIdOk
                         /\ allowed /\ inputs
                         /\ NamesAreGood(case.capabilities) /\ groups
                         /\ L <= MaxU64 /\ OrderGood(case) /\ ReportedGood(case, O, U)
  BY DEF KeepsContract, NamesAreGood, InputGood, GroupGood, OrderGood, ReportedGood
<1> HIDE DEF NI, NG, Write, L, U, O, allowed, inputs, groups
<1> QED BY <1>2, <1>3, <1>4, <1>5, <1>6, <1>7, <1>8, <1>9, <1>10, <1>11

(* audit_agent_boundary, the capability loop: the counters are the true    *)
(* sums cut at u64::MAX and an overflow is never mistaken for a count.     *)
THEOREM CountersSaturate == Spec => []SaturatingCounters
<1>1. Init => AuditInv
  BY InitAuditInv, CasesAssumption DEF Init
<1>2. AuditInv => SaturatingCounters
  BY Saturated
<1> QED BY <1>1, <1>2, NextAuditInv, PTL DEF Spec

(* audit_agent_boundary: a case passes exactly when the declared boundary  *)
(* holds, whatever checks other findings have switched off.                *)
THEOREM PassingIsBounded == Spec => []PassMeansBoundary
<1>1. Init => AuditInv
  BY InitAuditInv, CasesAssumption DEF Init
<1>2. AuditInv => PassMeansBoundary
  BY PassIsContract DEF PassMeansBoundary
<1> QED BY <1>1, <1>2, NextAuditInv, PTL DEF Spec

-----------------------------------------------------------------------------
(* No call of a client goes unseen. *)

CallNames == {"construct", "snapshot", "turn", "client"}

Quiet(calls) == "client" \notin Range(calls)

IInv ==
    /\ log \in [DOMAIN Domains -> Seq(CallNames)]
    /\ counters \in [{"agent", "simulator"} -> Nat]
    /\ counters = NoCalls => \A d \in DOMAIN Domains : Quiet(log[d])
    /\ stage \in {"build", "audit"} => counters = NoCalls /\ Controlled
    /\ stage = "audit" =>
         summary.calls = counters /\ summary.control = <<ExpectedResult(1), ExpectedResult(2)>>
    /\ "number" \in DOMAIN arm /\ arm.number \in {1, 2}

LEMMA OneMoreCall ==
    ASSUME NEW s \in Seq(CallNames), NEW call \in CallNames
    PROVE  Append(s, call) \in Seq(CallNames)
BY AppendProperties

LEMMA QuietAppend ==
    ASSUME NEW s \in Seq(CallNames), NEW call \in CallNames, call # "client", Quiet(s)
    PROVE  Quiet(Append(s, call))
<1> SUFFICES ASSUME NEW i \in DOMAIN Append(s, call), Append(s, call)[i] = "client"
             PROVE  FALSE
  BY DEF Quiet, Range
<1>1. Len(s) \in Nat /\ DOMAIN s = 1 .. Len(s) /\ DOMAIN Append(s, call) = 1 .. Len(s) + 1
  BY AppendProperties, LenProperties
<1>2. CASE i = Len(s) + 1
  BY <1>2, AppendProperties
<1>3. CASE i \in 1 .. Len(s)
  <2>1. Append(s, call)[i] = s[i]
    BY <1>3, AppendProperties
  <2>2. s[i] \in Range(s)
    BY <1>1, <1>3 DEF Range
  <2> QED BY <2>1, <2>2 DEF Quiet
<1> QED BY <1>1, <1>2, <1>3

LEMMA InitIInv == ProbeInit => IInv
<1> SUFFICES ASSUME ProbeInit PROVE IInv
  OBVIOUS
<1>1. /\ log = [d \in DOMAIN Domains |-> <<>>] /\ counters = NoCalls
      /\ stage \in {"given", "probe"} /\ arm = NewArm(1, None)
  BY DEF ProbeInit
<1>3. "number" \in DOMAIN arm /\ arm.number = 1
  BY <1>1 DEF NewArm
<1>2. Quiet(<<>>)
  BY DEF Quiet, Range
<1> QED BY <1>1, <1>2, <1>3 DEF IInv, NoCalls

(* A call that is not to a client, logged in whatever domain *)
LEMMA CallIInv ==
    ASSUME IInv, NEW call \in {"construct", "snapshot", "turn"}, Calls(call), UNCHANGED counters
    PROVE  IInv'
<1>1. stage = "probe" /\ stage' = stage /\ arm' = arm
  BY DEF Calls
<1>2. log' = [log EXCEPT ![D] = Append(log[D], call)] /\ log \in [DOMAIN Domains -> Seq(CallNames)]
  BY DEF Calls, IInv
<1>3. \A d \in DOMAIN Domains : log'[d] = IF d = D THEN Append(log[d], call) ELSE log[d]
  BY <1>2
<1> call \in CallNames /\ call # "client"
  BY DEF CallNames
<1>4. \A d \in DOMAIN Domains : Append(log[d], call) \in Seq(CallNames)
  BY <1>2, OneMoreCall
<1>5. log' \in [DOMAIN Domains -> Seq(CallNames)]
  BY <1>2, <1>3, <1>4
<1>6. ASSUME counters = NoCalls, NEW d \in DOMAIN Domains PROVE Quiet(log'[d])
  <2>1. log[d] \in Seq(CallNames) /\ Quiet(log[d])
    BY <1>2, <1>6 DEF IInv
  <2>2. Quiet(Append(log[d], call))
    BY <2>1, QuietAppend
  <2> QED BY <1>3, <2>1, <2>2
<1> QED BY <1>1, <1>5, <1>6 DEF IInv

(* One more call of a lane leaves the counters different from none. *)
LEMMA OneMore ==
    ASSUME counters \in [{"agent", "simulator"} -> Nat], NEW lane \in Lanes,
           counters' = [counters EXCEPT ![Key(lane)] = @ + 1]
    PROVE  counters' \in [{"agent", "simulator"} -> Nat] /\ counters' # NoCalls
<1>1. Key(lane) \in {"agent", "simulator"}
  BY DEF Key
<1>2. counters'[Key(lane)] = counters[Key(lane)] + 1 /\ counters[Key(lane)] \in Nat
  BY <1>1
<1>3. counters'[Key(lane)] # 0
  BY <1>2
<1>4. NoCalls[Key(lane)] = 0
  BY <1>1 DEF NoCalls
<1> QED BY <1>1, <1>3, <1>4

LEMMA ClientIInv == ASSUME IInv, ClientCall PROVE IInv'
<1>1. PICK lane \in Lanes : counters' = [counters EXCEPT ![Key(lane)] = @ + 1]
  BY DEF ClientCall
<1>2. counters' \in [{"agent", "simulator"} -> Nat] /\ counters' # NoCalls
  BY <1>1, OneMore DEF IInv
<1>3. stage = "probe" /\ stage' = stage
  BY DEF ClientCall, Calls
<1>4. log' = [log EXCEPT ![D] = Append(log[D], "client")] /\ log \in [DOMAIN Domains -> Seq(CallNames)]
  BY DEF ClientCall, Calls, IInv
<1>5. log' \in [DOMAIN Domains -> Seq(CallNames)]
  <2>1. \A d \in DOMAIN Domains : Append(log[d], "client") \in Seq(CallNames)
    <3>1. "client" \in CallNames
      BY DEF CallNames
    <3> QED BY <1>4, <3>1, OneMoreCall
  <2>2. \A d \in DOMAIN Domains :
          log'[d] = IF d = D THEN Append(log[d], "client") ELSE log[d]
    BY <1>4
  <2> QED BY <1>4, <2>1, <2>2
<1>6. arm' = arm
  BY DEF ClientCall, Calls
<1> QED BY <1>2, <1>3, <1>5, <1>6 DEF IInv

LEMMA ControlIInv == ASSUME IInv, ControlClientCall PROVE IInv'
<1>1. PICK lane \in Lanes : counters' = [counters EXCEPT ![Key(lane)] = @ + 1]
  BY DEF ControlClientCall
<1>2. counters' \in [{"agent", "simulator"} -> Nat] /\ counters' # NoCalls
  BY <1>1, OneMore DEF IInv
<1>3. stage = "control" /\ stage' = stage /\ log' = log /\ arm' = arm
  BY DEF ControlClientCall
<1> QED BY <1>2, <1>3 DEF IInv

LEMMA StillIInv ==
    ASSUME IInv, UNCHANGED <<log, counters, summary>>,
           \/ arm' = arm
           \/ "number" \in DOMAIN arm' /\ arm'.number \in {1, 2} /\ stage' \notin {"build", "audit"},
           stage' = stage \/ stage' \notin {"build", "audit"}
    PROVE  IInv'
BY DEF IInv, Controlled, ArmResult

LEMMA NextIInv == IInv /\ [ProbeNext]_<<vars, probeVars>> => IInv'
<1> SUFFICES ASSUME IInv, [ProbeNext]_<<vars, probeVars>> PROVE IInv'
  OBVIOUS
<1>1. CASE UNCHANGED <<vars, probeVars>> \/ AuditStep \/ Refused
  BY <1>1, StillIInv DEF probeVars, AuditStep, Refused
<1>2. CASE Construct \/ Snapshot \/ Turn
  BY <1>2, CallIInv DEF Construct, Snapshot, Turn
<1>3. CASE LoadTask \/ Raise \/ Touch \/ FinishTask
  BY <1>3, StillIInv DEF LoadTask, Raise, Touch, FinishTask, Refuse
<1>4. CASE EndProbe
  BY <1>4, StillIInv DEF EndProbe
<1>7. CASE ControlTurn
  <2>1. UNCHANGED <<stage, log, counters, summary>> /\ stage = "control"
    BY <1>7 DEF ControlTurn
  <2>2. DOMAIN arm' = DOMAIN arm /\ arm'.number = arm.number
    BY <1>7 DEF ControlTurn, IInv
  <2> QED BY <2>1, <2>2, StillIInv DEF IInv
<1>5. CASE FinishArm
  <2>1. UNCHANGED <<log, counters, summary>>
    BY <1>5 DEF FinishArm
  <2>2. CASE stage' = "build"
    <3>1. counters = NoCalls /\ Controlled /\ arm' = arm
      BY <1>5, <2>2 DEF FinishArm, NoClientCalls, IInv
    <3> QED BY <2>1, <2>2, <3>1 DEF IInv, Controlled, ArmResult
  <2>3. CASE stage' # "build"
    <3>1. stage' = "refused" \/ stage' = "control"
      BY <1>5, <2>3 DEF FinishArm
    <3>2. arm' = arm \/ arm' = NewArm(2, ArmResult)
      BY <1>5 DEF FinishArm
    <3>3. "number" \in DOMAIN NewArm(2, ArmResult) /\ NewArm(2, ArmResult).number = 2
      BY DEF NewArm
    <3> QED BY <2>1, <3>1, <3>2, <3>3, StillIInv
  <2> QED BY <2>2, <2>3
<1>6. CASE BuildCase
  <2>1. UNCHANGED <<log, counters, arm>> /\ stage = "build" /\ stage' = "audit"
    BY <1>6 DEF BuildCase
  <2>2. summary'.calls = counters /\ summary'.control = <<arm.first, ArmResult>>
    BY <1>6 DEF BuildCase
  <2> QED BY <2>1, <2>2 DEF IInv, Controlled, ArmResult
<1> QED BY <1>1, <1>2, <1>3, <1>4, <1>5, <1>6, <1>7, ClientIInv, ControlIInv
        DEF ProbeNext, ProbeStep

(* A case exists only of a run in which no client was called at all; what  *)
(* was swallowed upstream, in whatever domain, lane or arm, is not lost.   *)
THEOREM NoCallGoesUnseen == ProbeSpec => []NoUnseenCall
<1>1. IInv => NoUnseenCall
  BY DEF IInv, NoUnseenCall, Built, Quiet
<1> QED BY <1>1, InitIInv, NextIInv, PTL DEF ProbeSpec

-----------------------------------------------------------------------------
(* The order of the calls.  Of the calls of a domain the probe keeps the   *)
(* events: Shown relates the two by the place of every event in the log,   *)
(* and names the calls that leave no event, those of a client and the      *)
(* turns after the first.                                                  *)

EventNames == {"agent_constructor", "baseline_snapshot", "first_agent_turn", "final_snapshot"}

CallOf(event) == IF event = "agent_constructor" THEN "construct"
                 ELSE IF event = "first_agent_turn" THEN "turn" ELSE "snapshot"

Places(place, l, e) ==
    /\ \A i \in 1 .. Len(e) : place[i] \in 1 .. Len(l) /\ l[place[i]] = CallOf(e[i])
    /\ \A i, k \in 1 .. Len(e) : i < k => place[i] < place[k]

Silent(place, l, e, j) ==
    \/ l[j] = "client"
    \/ l[j] = "turn" /\ \E i \in 1 .. Len(e) : e[i] = "first_agent_turn" /\ place[i] < j

Shown(l, e) ==
    \E place : /\ Places(place, l, e)
               /\ \A j \in 1 .. Len(l) :
                    Silent(place, l, e, j) \/ \E i \in 1 .. Len(e) : place[i] = j

At(l, call) == {i \in DOMAIN l : l[i] = call}

(* What DeclaredIsObserved says of one domain *)
Ordered(l) ==
    /\ Cardinality(At(l, "construct")) = 1
    /\ \A i \in At(l, "construct"), j \in At(l, "snapshot") \cup At(l, "turn") : i < j
    /\ \A j \in At(l, "turn") : \E i \in At(l, "snapshot") : i < j
    /\ \E i, k \in At(l, "snapshot"), j \in At(l, "turn") : i < j /\ j < k

LEMMA ShownNothing == Shown(<<>>, <<>>)
BY DEF Shown, Places

LEMMA ShownEvent ==
    ASSUME NEW l \in Seq(CallNames), NEW e \in Seq(EventNames),
           NEW event \in EventNames, Shown(l, e)
    PROVE  Shown(Append(l, CallOf(event)), Append(e, event))
<1> DEFINE call == CallOf(event)
           m == Append(l, call)
           f == Append(e, event)
<1>1. call \in CallNames
  BY DEF CallNames, CallOf
<1>2. /\ Len(m) = Len(l) + 1 /\ m[Len(l) + 1] = call
      /\ \A j \in 1 .. Len(l) : m[j] = l[j]
  BY <1>1, AppendProperties
<1>3. /\ Len(f) = Len(e) + 1 /\ f[Len(e) + 1] = event
      /\ \A i \in 1 .. Len(e) : f[i] = e[i]
  BY AppendProperties
<1>4. Len(l) \in Nat /\ Len(e) \in Nat
  BY LenProperties
<1>5. PICK place : /\ Places(place, l, e)
                   /\ \A j \in 1 .. Len(l) :
                        Silent(place, l, e, j) \/ \E i \in 1 .. Len(e) : place[i] = j
  BY DEF Shown
<1> DEFINE next == [i \in 1 .. Len(e) + 1 |-> IF i = Len(e) + 1 THEN Len(l) + 1 ELSE place[i]]
<1>6. next[Len(e) + 1] = Len(l) + 1 /\ \A i \in 1 .. Len(e) : next[i] = place[i]
  BY <1>4
<1> HIDE DEF next, m, f, call
<1>7. \A i \in 1 .. Len(f) : next[i] \in 1 .. Len(m) /\ m[next[i]] = CallOf(f[i])
  <2>1. TAKE i \in 1 .. Len(f)
  <2>2. CASE i = Len(e) + 1
    BY <1>2, <1>3, <1>4, <1>6, <2>2 DEF call
  <2>3. CASE i \in 1 .. Len(e)
    <3>1. place[i] \in 1 .. Len(l) /\ l[place[i]] = CallOf(e[i])
      BY <1>5, <2>3 DEF Places
    <3> QED BY <1>2, <1>3, <1>4, <1>6, <2>3, <3>1
  <2> QED BY <1>3, <1>4, <2>2, <2>3
<1>8. \A i, k \in 1 .. Len(f) : i < k => next[i] < next[k]
  <2>1. SUFFICES ASSUME NEW i \in 1 .. Len(f), NEW k \in 1 .. Len(f), i < k
                 PROVE  next[i] < next[k]
    OBVIOUS
  <2>2. i \in 1 .. Len(e) /\ place[i] \in 1 .. Len(l)
    BY <1>3, <1>4, <1>5, <2>1 DEF Places
  <2>3. CASE k = Len(e) + 1
    BY <1>4, <1>6, <2>2, <2>3
  <2>4. CASE k \in 1 .. Len(e)
    BY <1>5, <1>6, <2>1, <2>2, <2>4 DEF Places
  <2> QED BY <1>3, <1>4, <2>3, <2>4
<1>9. \A j \in 1 .. Len(m) : Silent(next, m, f, j) \/ \E i \in 1 .. Len(f) : next[i] = j
  <2>1. TAKE j \in 1 .. Len(m)
  <2>2. CASE j = Len(l) + 1
    BY <1>3, <1>4, <1>6, <2>2
  <2>3. CASE j \in 1 .. Len(l)
    <3>1. CASE Silent(place, l, e, j)
      <4>1. \A i \in 1 .. Len(e) : i \in 1 .. Len(f)
        BY <1>3, <1>4
      <4> QED BY <1>2, <1>3, <1>6, <2>3, <3>1, <4>1 DEF Silent
    <3>2. CASE \E i \in 1 .. Len(e) : place[i] = j
      BY <1>3, <1>4, <1>6, <3>2
    <3> QED BY <1>5, <2>3, <3>1, <3>2
  <2> QED BY <1>2, <1>4, <2>2, <2>3
<1>10. Shown(m, f)
  BY <1>7, <1>8, <1>9 DEF Shown, Places
<1> QED BY <1>10 DEF m, f, call

(* A call that leaves no event *)
LEMMA ShownSilent ==
    ASSUME NEW l \in Seq(CallNames), NEW e \in Seq(EventNames), Shown(l, e),
           NEW call \in CallNames,
           call = "client" \/ (call = "turn" /\ "first_agent_turn" \in Range(e))
    PROVE  Shown(Append(l, call), e)
<1> DEFINE m == Append(l, call)
<1>1. /\ Len(m) = Len(l) + 1 /\ m[Len(l) + 1] = call
      /\ \A j \in 1 .. Len(l) : m[j] = l[j]
  BY AppendProperties
<1>2. Len(l) \in Nat /\ Len(e) \in Nat /\ DOMAIN e = 1 .. Len(e)
  BY LenProperties
<1>3. PICK place : /\ Places(place, l, e)
                   /\ \A j \in 1 .. Len(l) :
                        Silent(place, l, e, j) \/ \E i \in 1 .. Len(e) : place[i] = j
  BY DEF Shown
<1> HIDE DEF m
<1>4. Places(place, m, e)
  <2>1. \A i \in 1 .. Len(e) : place[i] \in 1 .. Len(l) /\ l[place[i]] = CallOf(e[i])
    BY <1>3 DEF Places
  <2>2. \A i \in 1 .. Len(e) : place[i] \in 1 .. Len(m) /\ m[place[i]] = CallOf(e[i])
    BY <1>1, <1>2, <2>1
  <2> QED BY <1>3, <2>2 DEF Places
<1>5. ASSUME NEW j \in 1 .. Len(m)
      PROVE  Silent(place, m, e, j) \/ \E i \in 1 .. Len(e) : place[i] = j
  <2>1. CASE j \in 1 .. Len(l)
    BY <1>1, <1>3, <2>1 DEF Silent
  <2>2. CASE j = Len(l) + 1
    <3>1. CASE call = "client"
      BY <1>1, <2>2, <3>1 DEF Silent
    <3>2. CASE call = "turn" /\ "first_agent_turn" \in Range(e)
      <4>1. PICK i \in 1 .. Len(e) : e[i] = "first_agent_turn"
        BY <1>2, <3>2 DEF Range
      <4>2. place[i] \in 1 .. Len(l)
        BY <1>3 DEF Places
      <4>3. place[i] < j
        BY <1>2, <2>2, <4>2
      <4> QED BY <1>1, <2>2, <3>2, <4>1, <4>3 DEF Silent
    <3> QED BY <3>1, <3>2
  <2> QED BY <1>1, <1>2, <2>1, <2>2
<1>6. Shown(m, e)
  BY <1>4, <1>5 DEF Shown
<1> QED BY <1>6 DEF m

(* With the registered events, the four places are a proof of the order. *)
LEMMA ShownOrdered ==
    ASSUME NEW l \in Seq(CallNames), Shown(l, ExpectedEvents)
    PROVE  Ordered(l)
<1> DEFINE e == ExpectedEvents
<1>1. /\ Len(e) = 4 /\ e[1] = "agent_constructor" /\ e[2] = "baseline_snapshot"
      /\ e[3] = "first_agent_turn" /\ e[4] = "final_snapshot"
  BY DEF ExpectedEvents
<1> HIDE DEF e
<1>2. PICK place : /\ Places(place, l, e)
                   /\ \A j \in 1 .. Len(l) :
                        Silent(place, l, e, j) \/ \E i \in 1 .. Len(e) : place[i] = j
  BY DEF Shown, e
<1>3. Len(l) \in Nat /\ DOMAIN l = 1 .. Len(l)
  BY LenProperties
<1>4. \A i \in 1 .. 4 : place[i] \in 1 .. Len(l) /\ place[i] \in Int
  BY <1>1, <1>2, <1>3 DEF Places
<1>5. /\ l[place[1]] = "construct" /\ l[place[2]] = "snapshot"
      /\ l[place[3]] = "turn" /\ l[place[4]] = "snapshot"
  BY <1>1, <1>2 DEF Places, CallOf
<1>6. place[1] < place[2] /\ place[2] < place[3] /\ place[3] < place[4]
  BY <1>1, <1>2 DEF Places
<1>7. \A j \in 1 .. Len(l) :
        \/ l[j] = "client" \/ (l[j] = "turn" /\ place[3] < j)
        \/ j = place[1] \/ j = place[2] \/ j = place[3] \/ j = place[4]
  <2>1. TAKE j \in 1 .. Len(l)
  <2>2. CASE Silent(place, l, e, j)
    <3>1. \A i \in 1 .. Len(e) : e[i] = "first_agent_turn" => i = 3
      BY <1>1
    <3> QED BY <2>2, <3>1 DEF Silent
  <2>3. CASE \E i \in 1 .. Len(e) : place[i] = j
    BY <1>1, <2>3
  <2> QED BY <1>2, <2>2, <2>3
<1>8. At(l, "construct") = {place[1]}
  BY <1>3, <1>4, <1>5, <1>7 DEF At
<1>9. At(l, "snapshot") = {place[2], place[4]}
  BY <1>3, <1>4, <1>5, <1>7 DEF At
<1>10. place[3] \in At(l, "turn") /\ \A j \in At(l, "turn") : j \in Int /\ place[3] <= j
  BY <1>3, <1>4, <1>5, <1>7 DEF At
<1>11. Cardinality({place[1]}) = 1
  BY FS_Singleton
<1>12. \A i \in At(l, "construct"), j \in At(l, "snapshot") \cup At(l, "turn") : i < j
  BY <1>4, <1>6, <1>8, <1>9, <1>10
<1>13. \A j \in At(l, "turn") : \E i \in At(l, "snapshot") : i < j
  <2>1. TAKE j \in At(l, "turn")
  <2>2. place[2] \in At(l, "snapshot")
    BY <1>9
  <2>3. place[2] < j
    BY <1>4, <1>6, <1>10
  <2> QED BY <2>2, <2>3
<1>14. \E i, k \in At(l, "snapshot"), j \in At(l, "turn") : i < j /\ j < k
  BY <1>6, <1>9, <1>10
<1> QED BY <1>8, <1>11, <1>12, <1>13, <1>14 DEF Ordered

Looking == stage \in {"probe", "control", "build", "audit"}

(* The domains that are done are in order, the running one is shown by its *)
(* events, the next ones have not been touched.                            *)
OInv ==
    /\ log \in [DOMAIN Domains -> Seq(CallNames)]
    /\ events \in Seq(EventNames)
    /\ \E S : observed \in Seq(S)
    /\ Looking =>
         /\ \A d \in DOMAIN Domains : /\ d < D => Ordered(log[d])
                                      /\ d > D => log[d] = <<>>
         /\ stage # "probe" => D > Len(Domains)
    /\ stage = "probe" /\ D \in DOMAIN Domains =>
         /\ env = None => log[D] = <<>>
         /\ env # None => Shown(log[D], events)
    /\ stage = "probe" /\ env # None => D \in DOMAIN Domains

LEMMA DomainNumbers ==
    /\ Len(Domains) \in Nat /\ DOMAIN Domains = 1 .. Len(Domains)
    /\ (\E S : observed \in Seq(S)) => D \in Nat \ {0}
<1>1. Len(Domains) \in Nat /\ DOMAIN Domains = 1 .. Len(Domains)
  BY DomainsAssumption, LenProperties
<1>2. ASSUME NEW S, observed \in Seq(S) PROVE D \in Nat \ {0}
  BY <1>2, LenProperties DEF D
<1> QED BY <1>1, <1>2

LEMMA InitOInv == ProbeInit => OInv
<1> SUFFICES ASSUME ProbeInit PROVE OInv
  OBVIOUS
<1>1. /\ log = [d \in DOMAIN Domains |-> <<>>] /\ events = <<>> /\ observed = <<>>
      /\ env = None /\ stage \in {"given", "probe"}
  BY DEF ProbeInit
<1>2. observed \in Seq({}) /\ D = 1
  BY <1>1 DEF D
<1>3. \A d \in DOMAIN Domains : d \in Nat /\ ~(d < 1)
  BY DomainNumbers
<1>4. log \in [DOMAIN Domains -> Seq(CallNames)] /\ events \in Seq(EventNames)
  BY <1>1
<1>5. Looking => /\ \A d \in DOMAIN Domains : /\ d < D => Ordered(log[d])
                                              /\ d > D => log[d] = <<>>
                 /\ stage # "probe" => D > Len(Domains)
  BY <1>1, <1>2, <1>3 DEF Looking
<1>6. D \in DOMAIN Domains => log[D] = <<>>
  BY <1>1
<1> QED BY <1>1, <1>2, <1>4, <1>5, <1>6 DEF OInv

LEMMA CallOInv ==
    ASSUME OInv, NEW call \in CallNames, Calls(call), events' \in Seq(EventNames),
           Shown(log[D], events) => Shown(Append(log[D], call), events')
    PROVE  OInv'
<1>1. stage = "probe" /\ env # None /\ UNCHANGED <<stage, env, observed>>
  BY DEF Calls
<1>2. D \in DOMAIN Domains /\ D' = D
  BY <1>1 DEF OInv, D
<1>3. log' = [log EXCEPT ![D] = Append(log[D], call)] /\ log \in [DOMAIN Domains -> Seq(CallNames)]
  BY DEF Calls, OInv
<1>4. \A d \in DOMAIN Domains : log'[d] = IF d = D THEN Append(log[d], call) ELSE log[d]
  BY <1>3
<1>5. log' \in [DOMAIN Domains -> Seq(CallNames)]
  <2>1. \A d \in DOMAIN Domains : Append(log[d], call) \in Seq(CallNames)
    BY <1>3, OneMoreCall
  <2> QED BY <1>3, <1>4, <2>1
<1>6. log'[D] = Append(log[D], call) /\ Shown(log[D], events)
  BY <1>1, <1>2, <1>4 DEF OInv
<1>7. \A d \in DOMAIN Domains : d < D \/ d > D => log'[d] = log[d]
  <2>1. (\E S : observed \in Seq(S)) => D \in Nat
    BY DomainNumbers
  <2>2. D \in Nat /\ \A d \in DOMAIN Domains : d \in Nat
    BY <2>1, DomainNumbers DEF OInv
  <2> QED BY <1>4, <2>2
<1>8. \A d \in DOMAIN Domains : /\ d < D => Ordered(log'[d])
                                /\ d > D => log'[d] = <<>>
  BY <1>1, <1>7 DEF OInv, Looking
<1>9. \E S : observed' \in Seq(S)
  BY <1>1 DEF OInv
<1> QED BY <1>1, <1>2, <1>5, <1>6, <1>8, <1>9 DEF OInv

LEMMA CallsOInv == ASSUME OInv, Construct \/ Snapshot \/ Turn \/ ClientCall PROVE OInv'
<1>1. events \in Seq(EventNames) /\ \A event \in EventNames : Append(events, event) \in Seq(EventNames)
  BY AppendProperties DEF OInv
<1>2. log[D] \in Seq(CallNames)
  <2>1. D \in DOMAIN Domains
    BY DEF Construct, Snapshot, Turn, ClientCall, Calls, OInv
  <2> QED BY <2>1 DEF OInv
<1>3. ASSUME NEW event \in EventNames, Record(event), Calls(CallOf(event)) PROVE OInv'
  <2>1. CallOf(event) \in CallNames /\ events' = Append(events, event)
    BY <1>3 DEF CallOf, CallNames, Record
  <2> QED BY <1>1, <1>2, <1>3, <2>1, ShownEvent, CallOInv
<1>4. ASSUME NEW call \in {"client", "turn"}, Calls(call), UNCHANGED events,
             call = "turn" => "first_agent_turn" \in Range(events)
      PROVE  OInv'
  <2>1. call \in CallNames
    BY <1>4 DEF CallNames
  <2>2. call = "client" \/ (call = "turn" /\ "first_agent_turn" \in Range(events))
    BY <1>4
  <2> QED BY <1>1, <1>2, <1>4, <2>1, <2>2, ShownSilent, CallOInv
<1>5. CASE Construct
  <2>1. Calls(CallOf("agent_constructor")) /\ Record("agent_constructor")
    BY <1>5 DEF Construct, CallOf
  <2> QED BY <1>3, <2>1 DEF EventNames
<1>6. CASE Snapshot
  <2>1. PICK event \in {"final_snapshot", "baseline_snapshot"} : Record(event)
    BY <1>6 DEF Snapshot
  <2>2. event \in EventNames /\ CallOf(event) = "snapshot"
    BY DEF EventNames, CallOf
  <2> QED BY <1>3, <1>6, <2>1, <2>2 DEF Snapshot
<1>7. CASE Turn
  <2>1. CASE "first_agent_turn" \in Range(events)
    BY <1>4, <1>7, <2>1 DEF Turn
  <2>2. CASE "first_agent_turn" \notin Range(events)
    <3>1. Record("first_agent_turn") /\ Calls(CallOf("first_agent_turn"))
      BY <1>7, <2>2 DEF Turn, CallOf
    <3> QED BY <1>3, <3>1 DEF EventNames
  <2> QED BY <2>1, <2>2
<1>8. CASE ClientCall
  BY <1>4, <1>8 DEF ClientCall
<1> QED BY <1>5, <1>6, <1>7, <1>8

LEMMA LoadOInv == ASSUME OInv, LoadTask PROVE OInv'
<1>1. /\ stage = "probe" /\ env = None /\ D <= Len(Domains)
      /\ UNCHANGED <<stage, observed, log>> /\ events' = <<>>
  BY DEF LoadTask
<1>2. D' = D /\ events' \in Seq(EventNames)
  BY <1>1 DEF D
<1>3. D \in DOMAIN Domains
  <2>1. D \in Nat \ {0} /\ Len(Domains) \in Nat /\ DOMAIN Domains = 1 .. Len(Domains)
    BY DomainNumbers DEF OInv
  <2> QED BY <1>1, <2>1
<1>4. log[D] = <<>>
  BY <1>1, <1>3 DEF OInv
<1>5. Shown(log'[D], events')
  BY <1>1, <1>4, ShownNothing
<1> QED BY <1>1, <1>2, <1>3, <1>4, <1>5 DEF OInv, Looking

LEMMA FinishOInv == ASSUME OInv, FinishTask PROVE OInv'
<1>1. stage = "probe" /\ env # None /\ env' = None /\ UNCHANGED <<events, log>>
  BY DEF FinishTask
<1>2. CASE stage' = "refused" /\ UNCHANGED observed
  BY <1>1, <1>2 DEF OInv, Looking
<1>3. CASE /\ RegisteredOrder /\ UNCHANGED stage
           /\ \E o : observed' = Append(observed, o)
  <2>1. PICK S, o : observed \in Seq(S) /\ observed' = Append(observed, o)
    BY <1>3 DEF OInv
  <2>2. observed \in Seq(S \cup {o}) /\ S \cup {o} # {}
    <3>1. observed \in [1 .. Len(observed) -> S] /\ Len(observed) \in Nat
      BY <2>1
    <3> QED BY <3>1
  <2>3. observed' \in Seq(S \cup {o}) /\ Len(observed') = Len(observed) + 1
    BY <2>1, <2>2, AppendProperties
  <2>4. D \in Nat \ {0} /\ Len(Domains) \in Nat /\ DOMAIN Domains = 1 .. Len(Domains)
    BY DomainNumbers DEF OInv
  <2>5. Len(observed) \in Nat /\ D' = D + 1
    BY <2>2, <2>3, LenProperties DEF D
  <2>6. D \in DOMAIN Domains /\ Ordered(log[D])
    <3>1. D \in DOMAIN Domains
      BY <1>1 DEF OInv
    <3>2. Shown(log[D], ExpectedEvents) /\ log[D] \in Seq(CallNames)
      BY <1>1, <1>3, <3>1 DEF OInv, RegisteredOrder
    <3> QED BY <3>1, <3>2, ShownOrdered
  <2>7. \A d \in DOMAIN Domains : /\ d < D' => Ordered(log'[d])
                                  /\ d > D' => log'[d] = <<>>
    <3>1. \A d \in DOMAIN Domains : /\ d < D => Ordered(log[d])
                                    /\ d > D => log[d] = <<>>
      BY <1>1 DEF OInv, Looking
    <3> QED BY <1>1, <2>4, <2>5, <2>6, <3>1
  <2>8. D' \in DOMAIN Domains => log'[D'] = <<>>
    <3>1. \A d \in DOMAIN Domains : d > D => log[d] = <<>>
      BY <1>1 DEF OInv, Looking
    <3> QED BY <1>1, <2>4, <2>5, <3>1
  <2>9. \E T : observed' \in Seq(T)
    BY <2>3
  <2> QED BY <1>1, <1>3, <2>7, <2>8, <2>9 DEF OInv
<1> QED
  <2>1. \/ stage' = "refused" /\ UNCHANGED observed
        \/ /\ RegisteredOrder /\ UNCHANGED stage
           /\ \E o : observed' = Append(observed, o)
    BY DEF FinishTask, Conditions, Refuse
  <2> QED BY <1>2, <1>3, <2>1

(* Everything else leaves the domains alone. *)
LEMMA OtherOInv ==
    ASSUME OInv, UNCHANGED <<log, events, observed, env>>,
           \/ stage' = stage
           \/ stage' = "refused"
           \/ stage = "probe" /\ stage' = "control" /\ D > Len(Domains)
           \/ stage \in {"control", "build"} /\ stage' \in {"build", "audit"}
    PROVE  OInv'
<1>1. D' = D
  BY DEF D
<1> QED BY <1>1 DEF OInv, Looking

LEMMA NextOInv == OInv /\ [ProbeNext]_<<vars, probeVars>> => OInv'
<1> SUFFICES ASSUME OInv, [ProbeNext]_<<vars, probeVars>> PROVE OInv'
  OBVIOUS
<1>1. CASE UNCHANGED <<vars, probeVars>> \/ AuditStep \/ Refused
  BY <1>1, OtherOInv DEF probeVars, AuditStep, Refused
<1>2. CASE Raise \/ Touch
  BY <1>2, OtherOInv DEF Raise, Touch, Refuse
<1>3. CASE EndProbe
  BY <1>3, OtherOInv DEF EndProbe
<1>4. CASE ControlTurn \/ ControlClientCall
  BY <1>4, OtherOInv DEF ControlTurn, ControlClientCall
<1>5. CASE FinishArm
  BY <1>5, OtherOInv DEF FinishArm
<1>6. CASE BuildCase
  BY <1>6, OtherOInv DEF BuildCase
<1> QED BY <1>1, <1>2, <1>3, <1>4, <1>5, <1>6, CallsOInv, LoadOInv, FinishOInv
        DEF ProbeNext, ProbeStep

(* The construction order a built case declares is the one in which        *)
(* upstream called back, in every domain.                                  *)
THEOREM DeclaresWhatHappened == ProbeSpec => []DeclaredIsObserved
<1>1. OInv => DeclaredIsObserved
  <2> SUFFICES ASSUME OInv, Built PROVE DeclaredIsObserved
    BY DEF DeclaredIsObserved
  <2>1. ASSUME NEW d \in DOMAIN Domains PROVE Ordered(log[d])
    <3>1. D > Len(Domains) /\ (d < D => Ordered(log[d]))
      BY DEF OInv, Looking, Built
    <3>2. D \in Nat /\ Len(Domains) \in Nat /\ d \in 1 .. Len(Domains)
      BY DomainNumbers DEF OInv
    <3> QED BY <3>1, <3>2
  <2> QED BY <2>1 DEF DeclaredIsObserved, Ordered, At
<1> QED BY <1>1, InitOInv, NextOInv, PTL DEF ProbeSpec

-----------------------------------------------------------------------------
(* What the probe has observed of the finished domains: the registered     *)
(* numbers, and whether the lists of the domain were still the loaded ones. *)

(* The observation of domain i, with its lists still the loaded ones or not *)
Observation(i, kept) ==
    [domain |-> Domains[i], items |-> ItemCount[Domains[i]], payload |-> kept,
     writes |-> WriteCount[Domains[i]], callable |-> WriteCount[Domains[i]]]

Observations(n, kept) == [i \in 1 .. n |-> Observation(i, kept[i])]

Running == stage \in {"probe", "control", "build", "audit"}

Observing ==
    /\ payload \in [DOMAIN Domains -> BOOLEAN]
    /\ Running => \E n \in 0 .. Len(Domains) : \E kept \in [1 .. n -> BOOLEAN] :
         observed = Observations(n, kept)
    /\ stage = "audit" =>
         \E kept \in [DOMAIN Domains -> BOOLEAN] :
           /\ case = BuiltCase(observed, kept)
           /\ summary = [observed |-> observed, control |-> <<arm.first, ArmResult>>,
                          digest |-> case, calls |-> counters]

LEMMA DomainsNumbered == Len(Domains) \in Nat /\ DOMAIN Domains = 1 .. Len(Domains)
BY DomainsAssumption, LenProperties

LEMMA ObservationsAreList ==
    ASSUME NEW n \in Nat, NEW kept
    PROVE  /\ Observations(n, kept) \in Seq(Range(Observations(n, kept)))
           /\ Len(Observations(n, kept)) = n /\ DOMAIN Observations(n, kept) = 1 .. n
           /\ \A i \in 1 .. n : Observations(n, kept)[i] = Observation(i, kept[i])
<1> DEFINE s == Observations(n, kept)
           R == {Observation(i, kept[i]) : i \in 1 .. n}
<1>1. s \in [1 .. n -> R] /\ DOMAIN s = 1 .. n
  BY DEF Observations
<1>2. s \in [1 .. n -> Range(s)]
  BY <1>1 DEF Range
<1>3. s \in Seq(Range(s))
  BY <1>2, SeqDef
<1> HIDE DEF s
<1>4. Len(s) = n
  BY <1>1, <1>3, LenProperties
<1> QED BY <1>1, <1>3, <1>4 DEF s, Observations

LEMMA InitObserving == ProbeInit => Observing
<1> SUFFICES ASSUME ProbeInit PROVE Observing
  OBVIOUS
<1>1. observed = <<>> /\ stage \in {"given", "probe"} /\ payload = [d \in DOMAIN Domains |-> TRUE]
  BY DEF ProbeInit
<1>2. 0 \in 0 .. Len(Domains)
  BY DomainsNumbered
<1>3. <<>> \in [1 .. 0 -> BOOLEAN] /\ observed = Observations(0, <<>>)
  <2>1. 1 .. 0 = {}
    OBVIOUS
  <2> QED BY <1>1, <2>1 DEF Observations
<1> QED BY <1>1, <1>2, <1>3 DEF Observing

LEMMA OneMoreObservation ==
    ASSUME NEW n \in Nat, NEW kept \in [1 .. n -> BOOLEAN], NEW b \in BOOLEAN
    PROVE  \E more \in [1 .. n + 1 -> BOOLEAN] :
             Observations(n + 1, more) = Append(Observations(n, kept), Observation(n + 1, b))
<1> DEFINE more == [i \in 1 .. n + 1 |-> IF i = n + 1 THEN b ELSE kept[i]]
           s == Observations(n, kept)
           e == Observation(n + 1, b)
           t == Observations(n + 1, more)
<1>1. more \in [1 .. n + 1 -> BOOLEAN]
  <2>1. \A i \in 1 .. n + 1 : i = n + 1 \/ i \in 1 .. n
    OBVIOUS
  <2> QED BY <2>1
<1>2. s \in Seq(Range(s)) /\ Len(s) = n /\ \A i \in 1 .. n : s[i] = Observation(i, kept[i])
  BY ObservationsAreList
<1>3. Append(s, e) = [i \in 1 .. n + 1 |-> IF i = n + 1 THEN e ELSE s[i]]
  <2> HIDE DEF s, e
  <2>1. s \in Seq(Range(s) \cup {e})
    <3>1. s \in [1 .. n -> Range(s)]
      BY <1>2, LenProperties
    <3> QED BY <3>1, SeqDef
  <2>2. /\ DOMAIN Append(s, e) = 1 .. n + 1
        /\ Append(s, e) \in [1 .. n + 1 -> Range(s) \cup {e}]
        /\ Append(s, e)[n + 1] = e /\ \A i \in 1 .. n : Append(s, e)[i] = s[i]
    <3>1. Len(Append(s, e)) = n + 1 /\ Append(s, e) \in Seq(Range(s) \cup {e})
      BY <1>2, <2>1, AppendProperties
    <3>2. DOMAIN Append(s, e) = 1 .. n + 1
      BY <3>1, LenProperties
    <3>3. Append(s, e)[n + 1] = e /\ \A i \in 1 .. n : Append(s, e)[i] = s[i]
      BY <1>2, <2>1, AppendProperties
    <3> QED BY <3>1, <3>2, <3>3, LenProperties
  <2>3. \A i \in 1 .. n + 1 : i = n + 1 \/ (i \in 1 .. n /\ i # n + 1)
    OBVIOUS
  <2> QED BY <2>2, <2>3
<1>4. \A i \in 1 .. n + 1 : t[i] = IF i = n + 1 THEN e ELSE s[i]
  <2>1. \A i \in 1 .. n + 1 : i = n + 1 \/ (i \in 1 .. n /\ i # n + 1)
    OBVIOUS
  <2>2. \A i \in 1 .. n + 1 : t[i] = Observation(i, more[i])
    BY DEF Observations
  <2>3. more[n + 1] = b /\ \A i \in 1 .. n : more[i] = kept[i]
    OBVIOUS
  <2> HIDE DEF t, more, s
  <2> QED BY <1>2, <2>1, <2>2, <2>3
<1>5. t = [i \in 1 .. n + 1 |-> t[i]]
  BY DEF Observations
<1> HIDE DEF t, s, e
<1>6. t = Append(s, e)
  BY <1>3, <1>4, <1>5
<1> QED BY <1>1, <1>6 DEF t, s, e

LEMMA FinishObserving == ASSUME Observing, OInv, FinishTask PROVE Observing'
<1> DEFINE o == [domain |-> Domains[D], items |-> env.items, payload |-> payload[D],
                 writes |-> Cardinality(env.writes),
                 callable |-> Cardinality(env.writes \cap capture.callable)]
<1>1. stage = "probe" /\ payload' = payload
  BY DEF FinishTask
<1>2. PICK n \in 0 .. Len(Domains) : \E kept \in [1 .. n -> BOOLEAN] : observed = Observations(n, kept)
  BY <1>1 DEF Observing, Running
<1>3. PICK kept \in [1 .. n -> BOOLEAN] : observed = Observations(n, kept)
  BY <1>2
<1>4. n \in Nat /\ D = n + 1
  BY <1>2, <1>3, ObservationsAreList DEF D
<1>5. CASE stage' = "refused"
  BY <1>1, <1>5 DEF Observing, Running
<1>6. CASE stage' = stage /\ observed' = Append(observed, o) /\ Conditions
           /\ env.items = ItemCount[Domains[D]] /\ Cardinality(env.writes) = WriteCount[Domains[D]]
  <2>1. env.writes \cap capture.callable = env.writes
    BY <1>6 DEF Conditions
  <2>2. o = Observation(D, payload[D])
    BY <1>6, <2>1 DEF Observation
  <2>3. D \in DOMAIN Domains
    BY DEF FinishTask, OInv
  <2>4. n + 1 \in 0 .. Len(Domains) /\ payload[D] \in BOOLEAN
    BY <1>4, <2>3, DomainsNumbered DEF Observing
  <2>5. PICK more \in [1 .. n + 1 -> BOOLEAN] :
          Observations(n + 1, more) = Append(Observations(n, kept), Observation(n + 1, payload[D]))
    BY <1>4, <2>4, OneMoreObservation
  <2>6. observed' = Observations(n + 1, more)
    BY <1>3, <1>4, <1>6, <2>2, <2>5
  <2>7. \E m \in 0 .. Len(Domains) : \E k \in [1 .. m -> BOOLEAN] : observed' = Observations(m, k)
    BY <2>4, <2>6
  <2>8. payload' \in [DOMAIN Domains -> BOOLEAN]
    BY <1>1 DEF Observing
  <2> QED BY <1>1, <1>6, <2>7, <2>8 DEF Observing, Observations, Observation
<1>7. stage' = "refused" \/ (stage' = stage /\ observed' = Append(observed, o) /\ Conditions
           /\ env.items = ItemCount[Domains[D]] /\ Cardinality(env.writes) = WriteCount[Domains[D]])
  BY DEF FinishTask, Refuse
<1> QED BY <1>5, <1>6, <1>7

LEMMA QuietObserving ==
    ASSUME Observing, UNCHANGED <<payload, observed>>,
           stage' = stage \/ stage' = "refused" \/ (Running /\ stage' \in {"control", "build"}),
           stage' = "audit" => UNCHANGED <<case, summary, counters, arm>>
    PROVE  Observing'
<1>1. payload' \in [DOMAIN Domains -> BOOLEAN]
  BY DEF Observing
<1>2. Running' => \E n \in 0 .. Len(Domains) : \E kept \in [1 .. n -> BOOLEAN] :
                    observed' = Observations(n, kept)
  BY DEF Observing, Running
<1>3. stage' = "audit" =>
         \E kept \in [DOMAIN Domains -> BOOLEAN] :
           /\ case' = BuiltCase(observed', kept)
           /\ summary' = [observed |-> observed', control |-> <<arm'.first, ArmResult'>>,
                           digest |-> case', calls |-> counters']
  BY DEF Observing, ArmResult
<1> QED BY <1>1, <1>2, <1>3 DEF Observing, Running, BuiltCase, BuiltInputs, Input, ItemSum, SumOf,
             Observations, Observation

LEMMA NextKeepsCase == Next => UNCHANGED case
BY DEF Next, CheckPolicy, ReadInput, EndInputs, ReadCapability, Finish, Done, vars

LEMMA BuildObserving == ASSUME Observing, OInv, BuildCase PROVE Observing' /\ case' = BuiltCase(observed, payload)
<1>1. /\ stage = "build" /\ UNCHANGED <<payload, observed, counters, arm>>
      /\ case' = BuiltCase(observed, payload)
      /\ summary' = [observed |-> observed, control |-> <<arm.first, ArmResult>>,
                      digest |-> case', calls |-> counters]
  BY DEF BuildCase
<1>2. payload' \in [DOMAIN Domains -> BOOLEAN]
  BY <1>1 DEF Observing
<1>3. \E n \in 0 .. Len(Domains) : \E kept \in [1 .. n -> BOOLEAN] : observed = Observations(n, kept)
  BY <1>1 DEF Observing, Running
<1>4. payload \in [DOMAIN Domains -> BOOLEAN] /\ BuiltCase(observed, payload)' = BuiltCase(observed, payload)
  BY <1>1 DEF Observing, BuiltCase, BuiltInputs, Input, ItemSum, SumOf
<1>5. \E kept \in [DOMAIN Domains -> BOOLEAN] :
        /\ case' = BuiltCase(observed', kept)
        /\ summary' = [observed |-> observed', control |-> <<arm'.first, ArmResult'>>,
                        digest |-> case', calls |-> counters']
  <2>1. observed' = observed /\ counters' = counters /\ arm' = arm /\ ArmResult' = ArmResult
    BY <1>1 DEF ArmResult
  <2> QED BY <1>1, <1>4, <2>1
<1>6. Running' => \E n \in 0 .. Len(Domains) : \E kept \in [1 .. n -> BOOLEAN] :
                    observed' = Observations(n, kept)
  BY <1>1, <1>3
<1> QED BY <1>1, <1>2, <1>5, <1>6 DEF Observing, Running, BuiltCase, BuiltInputs, Input, ItemSum, SumOf,
             Observations, Observation

LEMMA NextObserving == Observing /\ OInv /\ [ProbeNext]_<<vars, probeVars>> => Observing'
<1> SUFFICES ASSUME Observing, OInv, [ProbeNext]_<<vars, probeVars>> PROVE Observing'
  OBVIOUS
<1>1. CASE UNCHANGED <<vars, probeVars>> \/ Refused
  BY <1>1, QuietObserving DEF vars, probeVars, Refused
<1>2. CASE AuditStep
  <2>1. UNCHANGED case /\ UNCHANGED probeVars
    BY <1>2, NextKeepsCase DEF AuditStep
  <2> QED BY <2>1, QuietObserving DEF probeVars
<1>3. CASE ProbeStep /\ UNCHANGED vars /\ ~FinishTask /\ ~Touch
  <2>1. stage \in {"probe", "control"} /\ UNCHANGED case
    BY <1>3 DEF ProbeStep, LoadTask, Construct, Snapshot, Turn, ClientCall, Calls, Raise,
             EndProbe, ControlTurn, ControlClientCall, FinishArm, vars
  <2>2. UNCHANGED <<payload, observed, summary>>
    BY <1>3 DEF ProbeStep, LoadTask, Construct, Snapshot, Turn, ClientCall, Calls, Raise,
             EndProbe, ControlTurn, ControlClientCall, FinishArm
  <2>3. stage' \in {stage, "refused", "control", "build"}
    BY <1>3 DEF ProbeStep, LoadTask, Construct, Snapshot, Turn, ClientCall, Calls, Raise,
             EndProbe, ControlTurn, ControlClientCall, FinishArm, Refuse
  <2> QED BY <2>1, <2>2, <2>3, QuietObserving DEF Running
<1>4. CASE Touch
  <2>1. /\ stage \in {"probe", "control", "build"} /\ UNCHANGED <<stage, observed>>
        /\ \E d \in DOMAIN Domains : payload' = [payload EXCEPT ![d] = FALSE]
    BY <1>4 DEF Touch
  <2>2. payload' \in [DOMAIN Domains -> BOOLEAN]
    BY <2>1 DEF Observing
  <2>3. \E n \in 0 .. Len(Domains) : \E kept \in [1 .. n -> BOOLEAN] : observed' = Observations(n, kept)
    BY <2>1 DEF Observing, Running
  <2> QED BY <2>1, <2>2, <2>3 DEF Observing, Observations, Observation
<1> QED BY <1>1, <1>2, <1>3, <1>4, FinishObserving, BuildObserving DEF ProbeNext

-----------------------------------------------------------------------------
(* The case that is built *)

N == Len(Domains)
Writes(i) == WriteCount[Domains[i]]
Studied(kept, payloads) == BuiltCase(Observations(N, kept), payloads)

(* The one case the study can build, but for the payloads. *)
StudyItems(list) == LET Items(d) == ItemCount[d][list] IN SumOf(Domains, Items)

StudyInputs ==
    <<Input("task_id", FALSE, FALSE, N), Input("user_id", FALSE, FALSE, N),
      Input("domain", FALSE, FALSE, N), Input("now", FALSE, FALSE, N),
      Input("task_summary", TRUE, FALSE, N),
      Input("state_requirements", TRUE, TRUE, StudyItems("state_requirements")),
      Input("task_requirements", TRUE, TRUE, StudyItems("task_requirements"))>>

StudyGroups ==
    [i \in 1 .. N |-> [name |-> Domains[i], write |-> TRUE, exposed |-> TRUE, total |-> Writes(i),
                       callable |-> Writes(i), mediated |-> 0]]

StudyCase(payloads) ==
    [schemaOk |-> TRUE, caseIdOk |-> TRUE, inputs |-> StudyInputs, capabilities |-> StudyGroups,
     beforeConstructor |-> FALSE, beforeFirstTurn |-> TRUE,
     reported |-> [inputs |-> 7, oracles |-> 3, groups |-> N, unmediated |-> TotalWrites],
     allowed |-> Metadata, forbidOracle |-> TRUE, forbidAlias |-> TRUE,
     requireMediation |-> TRUE, requireBaseline |-> TRUE, payloads |-> payloads]

LEMMA SevenInAll ==
    ASSUME NEW a, NEW b, NEW c, NEW d, NEW e, NEW f, NEW g
    PROVE  <<a, b, c, d>> \o <<e>> \o <<f, g>> = <<a, b, c, d, e, f, g>>
<1> DEFINE S == {a, b, c, d, e, f, g}
           p == <<a, b, c, d>>
           q == <<a, b, c, d, e>>
           r == <<a, b, c, d, e, f, g>>
<1>1. p \in Seq(S) /\ <<e>> \in Seq(S) /\ <<f, g>> \in Seq(S) /\ q \in Seq(S) /\ r \in Seq(S)
  OBVIOUS
<1>2. Len(p) = 4 /\ Len(<<e>>) = 1 /\ Len(<<f, g>>) = 2 /\ Len(q) = 5 /\ Len(r) = 7
  OBVIOUS
<1> HIDE DEF S
<1>3. p \o <<e>> = q
  <2>1. /\ p \o <<e>> \in Seq(S) /\ Len(p \o <<e>>) = 5
        /\ \A i \in 1 .. 5 : (p \o <<e>>)[i] = IF i <= 4 THEN p[i] ELSE <<e>>[i - 4]
    BY <1>1, <1>2, ConcatProperties
  <2>2. \A i \in 1 .. 5 : q[i] = IF i <= 4 THEN p[i] ELSE <<e>>[i - 4]
    OBVIOUS
  <2> HIDE DEF p, q
  <2> QED BY <1>1, <1>2, <2>1, <2>2, SeqEqual
<1>4. q \o <<f, g>> = r
  <2>1. /\ q \o <<f, g>> \in Seq(S) /\ Len(q \o <<f, g>>) = 7
        /\ \A i \in 1 .. 7 : (q \o <<f, g>>)[i] = IF i <= 5 THEN q[i] ELSE <<f, g>>[i - 5]
    BY <1>1, <1>2, ConcatProperties
  <2>2. \A i \in 1 .. 7 : r[i] = IF i <= 5 THEN q[i] ELSE <<f, g>>[i - 5]
    OBVIOUS
  <2> HIDE DEF q, r
  <2> QED BY <1>1, <1>2, <2>1, <2>2, SeqEqual
<1> QED BY <1>3, <1>4

LEMMA BuiltInputsAre ==
    ASSUME NEW obs
    PROVE  LET n == Len(obs) m(list) == ItemSum(obs, list)
           IN  BuiltInputs(obs) =
                 <<Input("task_id", FALSE, FALSE, n), Input("user_id", FALSE, FALSE, n),
                   Input("domain", FALSE, FALSE, n), Input("now", FALSE, FALSE, n),
                   Input("task_summary", TRUE, FALSE, n),
                   Input("state_requirements", TRUE, TRUE, m("state_requirements")),
                   Input("task_requirements", TRUE, TRUE, m("task_requirements"))>>
<1> DEFINE n == Len(obs)
           m(list) == ItemSum(obs, list)
           a(i) == Input(Metadata[i], FALSE, FALSE, n)
           b(i) == Input(Oracles[i + 1], TRUE, TRUE, m(Oracles[i + 1]))
           s == Input("task_summary", TRUE, FALSE, n)
<1>1. BuiltInputs(obs) = [i \in 1 .. 4 |-> a(i)] \o <<s>> \o [i \in 1 .. 2 |-> b(i)]
  BY DEF BuiltInputs, Oracles
<1>2. /\ a(1) = Input("task_id", FALSE, FALSE, n) /\ a(2) = Input("user_id", FALSE, FALSE, n)
      /\ a(3) = Input("domain", FALSE, FALSE, n) /\ a(4) = Input("now", FALSE, FALSE, n)
      /\ b(1) = Input("state_requirements", TRUE, TRUE, m("state_requirements"))
      /\ b(2) = Input("task_requirements", TRUE, TRUE, m("task_requirements"))
  BY DEF Metadata, Oracles
<1> HIDE DEF a, b, s
<1>3. [i \in 1 .. 4 |-> a(i)] = <<a(1), a(2), a(3), a(4)>>
  OBVIOUS
<1>4. [i \in 1 .. 2 |-> b(i)] = <<b(1), b(2)>>
  OBVIOUS
<1>5. <<a(1), a(2), a(3), a(4)>> \o <<s>> \o <<b(1), b(2)>> = <<a(1), a(2), a(3), a(4), s, b(1), b(2)>>
  BY SevenInAll
<1> QED BY <1>1, <1>2, <1>3, <1>4, <1>5 DEF s

LEMMA StudiedCase ==
    ASSUME NEW kept, NEW payloads PROVE Studied(kept, payloads) = StudyCase(payloads)
<1> DEFINE obs == Observations(N, kept)
<1>1. /\ DOMAIN obs = 1 .. N /\ Len(obs) = N /\ DOMAIN Domains = 1 .. N
      /\ \A i \in 1 .. N : /\ obs[i].domain = Domains[i] /\ obs[i].items = ItemCount[Domains[i]]
                           /\ obs[i].writes = Writes(i) /\ obs[i].callable = Writes(i)
  <2>1. N \in Nat /\ DOMAIN Domains = 1 .. N
    BY DomainsNumbered DEF N
  <2>2. DOMAIN obs = 1 .. N /\ Len(obs) = N /\ \A i \in 1 .. N : obs[i] = Observation(i, kept[i])
    BY <2>1, ObservationsAreList
  <2> HIDE DEF obs
  <2> QED BY <2>1, <2>2 DEF Observation, Writes
<1> HIDE DEF obs
<1>2. \A list : [i \in DOMAIN obs |-> obs[i].items[list]]
                  = [i \in DOMAIN Domains |-> ItemCount[Domains[i]][list]]
  BY <1>1
<1>3. \A list : ItemSum(obs, list) = StudyItems(list)
  BY <1>2 DEF ItemSum, StudyItems, SumOf
<1>4. [i \in DOMAIN obs |-> obs[i].callable] = [i \in DOMAIN Domains |-> WriteCount[Domains[i]]]
  BY <1>1 DEF Writes
<1>5. (LET Callable(o) == o.callable IN SumOf(obs, Callable)) = TotalWrites
  BY <1>4 DEF TotalWrites, SumOf
<1>6. [i \in DOMAIN obs |->
        [name |-> obs[i].domain, write |-> TRUE, exposed |-> TRUE, total |-> obs[i].writes,
         callable |-> obs[i].callable, mediated |-> 0]] = StudyGroups
  BY <1>1 DEF StudyGroups
<1>7. BuiltInputs(obs) = StudyInputs
  <2>1. /\ Len(obs) = N
        /\ ItemSum(obs, "state_requirements") = StudyItems("state_requirements")
        /\ ItemSum(obs, "task_requirements") = StudyItems("task_requirements")
    BY <1>1, <1>3
  <2> HIDE DEF N
  <2> QED BY <2>1, BuiltInputsAre, Zenon DEF StudyInputs
<1>8. BuiltCase(obs, payloads) = StudyCase(payloads)
  BY <1>1, <1>5, <1>6, <1>7 DEF BuiltCase, StudyCase
<1> QED BY <1>8 DEF Studied, obs

LEMMA StudyInputsAre ==
    /\ StudyInputs \in Seq(Range(StudyInputs))
    /\ Len(StudyInputs) = 7 /\ DOMAIN StudyInputs = 1 .. 7
    /\ \A i \in 1 .. 7 : /\ StudyInputs[i].present = TRUE /\ StudyInputs[i].digest = "good"
                         /\ StudyInputs[i].items =
                              IF i \in 6 .. 7 THEN StudyItems(StudyInputs[i].name) ELSE N
    /\ \A i \in 1 .. 4 : StudyInputs[i].oracle = FALSE
    /\ \A i \in 5 .. 7 : StudyInputs[i].oracle = TRUE
    /\ \A i \in 1 .. 5 : StudyInputs[i].alias = FALSE
    /\ \A i \in 6 .. 7 : StudyInputs[i].alias = TRUE
    /\ StudyInputs[1].name = "task_id" /\ StudyInputs[2].name = "user_id"
    /\ StudyInputs[3].name = "domain" /\ StudyInputs[4].name = "now"
    /\ StudyInputs[5].name = "task_summary" /\ StudyInputs[6].name = "state_requirements"
    /\ StudyInputs[7].name = "task_requirements"
<1>1. Len(StudyInputs) = 7 /\ \E S : StudyInputs \in Seq(S)
  <2> DEFINE m(x) == Input(x, FALSE, FALSE, N)
             o(x) == Input(x, TRUE, TRUE, StudyItems(x))
             t == Input("task_summary", TRUE, FALSE, N)
             S == {m("task_id"), m("user_id"), m("domain"), m("now"), t,
                   o("state_requirements"), o("task_requirements")}
  <2>1. StudyInputs = <<m("task_id"), m("user_id"), m("domain"), m("now"), t,
                        o("state_requirements"), o("task_requirements")>>
    BY DEF StudyInputs
  <2> HIDE DEF m, o, t
  <2>2. StudyInputs \in Seq(S) /\ Len(StudyInputs) = 7
    BY <2>1
  <2> QED BY <2>2
<1>2. DOMAIN StudyInputs = 1 .. 7
  BY <1>1, LenProperties
<1>3. StudyInputs \in Seq(Range(StudyInputs))
  <2>1. StudyInputs \in [1 .. 7 -> Range(StudyInputs)]
    BY <1>1, <1>2, LenProperties DEF Range
  <2> QED BY <2>1, SeqDef
<1>4. \A i \in 1 .. 7 : i = 1 \/ i = 2 \/ i = 3 \/ i = 4 \/ i = 5 \/ i = 6 \/ i = 7
  OBVIOUS
<1>5. /\ StudyInputs[1] = Input("task_id", FALSE, FALSE, N)
      /\ StudyInputs[2] = Input("user_id", FALSE, FALSE, N)
      /\ StudyInputs[3] = Input("domain", FALSE, FALSE, N)
      /\ StudyInputs[4] = Input("now", FALSE, FALSE, N)
      /\ StudyInputs[5] = Input("task_summary", TRUE, FALSE, N)
      /\ StudyInputs[6] = Input("state_requirements", TRUE, TRUE, StudyItems("state_requirements"))
      /\ StudyInputs[7] = Input("task_requirements", TRUE, TRUE, StudyItems("task_requirements"))
  BY DEF StudyInputs
<1>6. \A i \in 1 .. 7 : /\ StudyInputs[i].present = TRUE /\ StudyInputs[i].digest = "good"
                        /\ StudyInputs[i].items =
                             IF i \in 6 .. 7 THEN StudyItems(StudyInputs[i].name) ELSE N
  BY <1>4, <1>5 DEF Input
<1>7. /\ \A i \in 1 .. 4 : StudyInputs[i].oracle = FALSE
      /\ \A i \in 5 .. 7 : StudyInputs[i].oracle = TRUE
      /\ \A i \in 1 .. 5 : StudyInputs[i].alias = FALSE
      /\ \A i \in 6 .. 7 : StudyInputs[i].alias = TRUE
  BY <1>5 DEF Input
<1> QED BY <1>1, <1>2, <1>3, <1>5, <1>6, <1>7 DEF Input

LEMMA StudyGroupsAre ==
    /\ N \in Nat \ {0}
    /\ StudyGroups \in Seq(Range(StudyGroups))
    /\ Len(StudyGroups) = N /\ DOMAIN StudyGroups = 1 .. N
    /\ \A i \in 1 .. N : Domains[i] \in Range(Domains) /\ Writes(i) \in Nat \ {0}
<1>1. N \in Nat /\ DOMAIN Domains = 1 .. N
  BY DomainsNumbered DEF N
<1>2. N # 0
  BY <1>1, DomainsAssumption, StudyAssumption, EmptySeq DEF N
<1>3. StudyGroups \in [1 .. N -> Range(StudyGroups)] /\ DOMAIN StudyGroups = 1 .. N
  BY DEF StudyGroups, Range
<1>4. StudyGroups \in Seq(Range(StudyGroups)) /\ Len(StudyGroups) = N
  BY <1>1, <1>3, SeqDef, LenProperties
<1>5. \A i \in 1 .. N : Domains[i] \in Range(Domains)
  BY <1>1 DEF Range
<1> QED BY <1>1, <1>2, <1>3, <1>4, <1>5, StudyAssumption DEF Writes

LEMMA StudyWellFormed == ASSUME NEW payloads PROVE WellFormed(StudyCase(payloads))
<1>1. Metadata \in Seq(Range(Metadata))
  <2>1. Metadata \in Seq({Metadata[i] : i \in 1 .. 4}) /\ Len(Metadata) = 4
    BY DEF Metadata
  <2> QED BY <2>1, LenProperties DEF Range
<1>2. \A cap \in Range(StudyGroups) : cap.callable \in Nat /\ cap.mediated \in Nat
  BY StudyGroupsAre DEF Range, StudyGroups
<1> QED BY <1>1, <1>2, StudyGroupsAre, StudyInputsAre DEF WellFormed, StudyCase

-----------------------------------------------------------------------------
(* What the audit finds of it *)

LEMMA StudyAllowlist ==
    ASSUME NEW payloads, case = StudyCase(payloads)
    PROVE  AllowlistValid(case) /\ PolicyFound = {}
<1>1. Len(Metadata) = 4 /\ DOMAIN Metadata = 1 .. 4
  BY DEF Metadata
<1>2. /\ Metadata[1] = "task_id" /\ Metadata[2] = "user_id" /\ Metadata[3] = "domain" /\ Metadata[4] = "now"
  BY DEF Metadata
<1>3. IsInjective(Metadata)
  <2>1. \A i \in 1 .. 4 : i = 1 \/ i = 2 \/ i = 3 \/ i = 4
    OBVIOUS
  <2> QED BY <1>1, <1>2, <2>1 DEF IsInjective
<1>4. Range(Metadata) \cap BadNames = {}
  BY StudyAssumption
<1>5. AllowlistValid(case)
  BY <1>3, <1>4, StudyWellFormed, AllowlistGood DEF StudyCase
<1> QED BY <1>5 DEF PolicyFound, StudyCase, When

LEMMA StudyInputNames ==
    ASSUME NEW payloads, case = StudyCase(payloads), NEW i \in 1 .. 7
    PROVE  NameFoundAt("agent input", case.inputs, i) = {}
<1>1. case.inputs = StudyInputs
  BY DEF StudyCase
<1>2. Names(StudyInputs) = [k \in 1 .. 7 |-> StudyInputs[k].name]
  BY StudyInputsAre DEF Names
<1>3. \A k \in 1 .. 7 : k = 1 \/ k = 2 \/ k = 3 \/ k = 4 \/ k = 5 \/ k = 6 \/ k = 7
  OBVIOUS
<1> DEFINE name(k) == StudyInputs[k].name
<1>4. /\ name(1) = "task_id" /\ name(2) = "user_id" /\ name(3) = "domain" /\ name(4) = "now"
      /\ name(5) = "task_summary" /\ name(6) = "state_requirements"
      /\ name(7) = "task_requirements"
  BY StudyInputsAre
<1>5. \A k \in 1 .. 7 : Names(StudyInputs)[k] = name(k)
  BY <1>2
<1> HIDE DEF name
<1>6. IsInjective(Names(StudyInputs))
  <2>1. ASSUME NEW j \in 1 .. 7, NEW k \in 1 .. 7, name(j) = name(k) PROVE j = k
    BY <1>3, <1>4, <2>1
  <2> QED BY <1>2, <1>5, <2>1 DEF IsInjective
<1>7. Range(Names(StudyInputs)) \cap BadNames = {}
  <2>1. /\ Metadata[1] = "task_id" /\ Metadata[2] = "user_id" /\ Metadata[3] = "domain"
        /\ Metadata[4] = "now" /\ DOMAIN Metadata = 1 .. 4
        /\ Oracles[1] = "task_summary" /\ Oracles[2] = "state_requirements"
        /\ Oracles[3] = "task_requirements" /\ DOMAIN Oracles = 1 .. 3
    BY DEF Metadata, Oracles
  <2>2. \A k \in 1 .. 7 : name(k) \in Range(Metadata) \cup Range(Oracles)
    BY <1>3, <1>4, <2>1 DEF Range
  <2>3. \A k \in 1 .. 7 : name(k) \notin BadNames
    BY <2>2, StudyAssumption
  <2> QED BY <1>2, <1>5, <2>3 DEF Range
<1>8. 7 \in Nat /\ DOMAIN StudyInputs = 1 .. 7
  BY StudyInputsAre
<1>9. \A k \in 1 .. 7 : NameFoundAt("agent input", StudyInputs, k) = {}
  BY <1>6, <1>7, <1>8, NamesGood
<1> QED BY <1>1, <1>9

LEMMA StudyInputsFound ==
    ASSUME NEW payloads, case = StudyCase(payloads)
    PROVE  InputsFound(7) = {<<"EF301", "task_summary">>, <<"EF301", "state_requirements">>,
                             <<"EF301", "task_requirements">>, <<"EF305", "state_requirements">>,
                             <<"EF305", "task_requirements">>}
<1> DEFINE in(i) == StudyInputs[i]
           shown(i) == DisplayName(StudyInputs[i].name)
<1>1. case.inputs = StudyInputs /\ case.forbidOracle /\ case.forbidAlias /\ case.allowed = Metadata
  BY DEF StudyCase
<1>2. \A i \in 1 .. 7 : ValidIdentifier(in(i).name)
  <2> SUFFICES ASSUME NEW i \in 1 .. 7 PROVE ValidIdentifier(in(i).name)
    OBVIOUS
  <2>1. NameFoundAt("agent input", case.inputs, i) = {}
    BY StudyInputNames
  <2> QED BY <1>1, <2>1 DEF NameFoundAt, When
<1>3. \A i \in 1 .. 7 : shown(i) = in(i).name
  BY <1>2 DEF DisplayName
<1>4. \A i \in 1 .. 4 : in(i).name \in Range(Metadata)
  <2>1. /\ Metadata[1] = "task_id" /\ Metadata[2] = "user_id" /\ Metadata[3] = "domain"
        /\ Metadata[4] = "now" /\ DOMAIN Metadata = 1 .. 4
    BY DEF Metadata
  <2>2. \A i \in 1 .. 4 : i = 1 \/ i = 2 \/ i = 3 \/ i = 4
    OBVIOUS
  <2> QED BY <2>1, <2>2, StudyInputsAre DEF Range
<1>5. ASSUME NEW i \in 1 .. 7
      PROVE  InputFound(i) = When(in(i).oracle, <<"EF301", in(i).name>>)
                               \cup When(in(i).alias, <<"EF305", in(i).name>>)
  <2>1. NameFoundAt("agent input", case.inputs, i) = {}
    BY StudyInputNames
  <2>2. in(i).present = TRUE /\ in(i).digest = "good"
    BY StudyInputsAre
  <2>3. OracleExposed(in(i)) <=> in(i).oracle
    BY <1>1, <2>2 DEF OracleExposed
  <2>4. Aliased(in(i)) /\ case.forbidAlias <=> in(i).alias
    BY <1>1, <2>2 DEF Aliased
  <2>5. ~UnapprovedAt(i)
    <3>1. i \in 1 .. 4 \/ i \in 5 .. 7
      OBVIOUS
    <3>2. i \in 1 .. 4 => in(i).name \in Range(case.allowed)
      BY <1>1, <1>4
    <3>3. i \in 5 .. 7 => in(i).oracle
      BY StudyInputsAre
    <3> QED BY <1>1, <3>1, <3>2, <3>3 DEF UnapprovedAt
  <2>6. /\ When(in(i).digest = "bad", <<"EF309", shown(i)>>) = {}
        /\ When(~in(i).present /\ in(i).alias, <<"EF317", shown(i)>>) = {}
        /\ When(UnapprovedAt(i), <<"EF302", shown(i)>>) = {}
    BY <2>2, <2>5 DEF When
  <2>7. /\ When(OracleExposed(in(i)), <<"EF301", shown(i)>>) = When(in(i).oracle, <<"EF301", in(i).name>>)
        /\ When(Aliased(in(i)) /\ case.forbidAlias, <<"EF305", shown(i)>>)
             = When(in(i).alias, <<"EF305", in(i).name>>)
    BY <1>3, <2>3, <2>4 DEF When
  <2>8. InputFound(i) = NameFoundAt("agent input", case.inputs, i)
          \cup When(in(i).digest = "bad", <<"EF309", shown(i)>>)
          \cup When(~in(i).present /\ in(i).alias, <<"EF317", shown(i)>>)
          \cup When(OracleExposed(in(i)), <<"EF301", shown(i)>>)
          \cup When(UnapprovedAt(i), <<"EF302", shown(i)>>)
          \cup When(Aliased(in(i)) /\ case.forbidAlias, <<"EF305", shown(i)>>)
    BY <1>1 DEF InputFound
  <2> HIDE DEF in, shown
  <2> QED BY <2>1, <2>6, <2>7, <2>8
<1>6. /\ \A i \in 1 .. 4 : InputFound(i) = {}
      /\ InputFound(5) = {<<"EF301", "task_summary">>}
      /\ InputFound(6) = {<<"EF301", "state_requirements">>, <<"EF305", "state_requirements">>}
      /\ InputFound(7) = {<<"EF301", "task_requirements">>, <<"EF305", "task_requirements">>}
  <2>1. \A i \in 1 .. 4 : i \in 1 .. 7 /\ ~in(i).oracle /\ ~in(i).alias
    BY StudyInputsAre
  <2>2. /\ in(5).oracle /\ ~in(5).alias /\ in(5).name = "task_summary"
        /\ in(6).oracle /\ in(6).alias /\ in(6).name = "state_requirements"
        /\ in(7).oracle /\ in(7).alias /\ in(7).name = "task_requirements"
    BY StudyInputsAre
  <2> HIDE DEF in
  <2> QED BY <1>5, <2>1, <2>2 DEF When
<1>7. \A i \in 1 .. 7 : i \in 1 .. 4 \/ i = 5 \/ i = 6 \/ i = 7
  OBVIOUS
<1> HIDE DEF in, shown
<1>8. InputsFound(7) = InputFound(5) \cup InputFound(6) \cup InputFound(7)
  BY <1>6, <1>7 DEF InputsFound
<1> QED BY <1>6, <1>8

GroupFinding(i) == <<"EF303", <<Domains[i], Writes(i)>>>>

LEMMA StudyGroupsFound ==
    ASSUME NEW payloads, case = StudyCase(payloads)
    PROVE  /\ \A i \in 1 .. N : Counts(case.capabilities[i])
           /\ GroupsFound(N) = {GroupFinding(i) : i \in 1 .. N}
<1> DEFINE cap(i) == StudyGroups[i]
<1>1. case.capabilities = StudyGroups /\ case.requireMediation = TRUE
  BY DEF StudyCase
<1>2. \A i \in 1 .. N : cap(i) = [name |-> Domains[i], write |-> TRUE, exposed |-> TRUE,
                                 total |-> Writes(i), callable |-> Writes(i), mediated |-> 0]
  BY DEF StudyGroups
<1>3. \A i \in 1 .. N : NameFoundAt("capability group", StudyGroups, i) = {}
  <2>1. DOMAIN Names(StudyGroups) = 1 .. N /\ \A i \in 1 .. N : Names(StudyGroups)[i] = Domains[i]
    BY <1>2, StudyGroupsAre DEF Names
  <2>2. DOMAIN Domains = 1 .. N /\ N \in Nat
    BY DomainsNumbered DEF N
  <2>3. IsInjective(Names(StudyGroups))
    BY <2>1, <2>2, StudyAssumption DEF IsInjective
  <2>4. Range(Names(StudyGroups)) = Range(Domains)
    BY <2>1, <2>2 DEF Range
  <2>5. Range(Names(StudyGroups)) \cap BadNames = {}
    BY <2>4, StudyAssumption
  <2>6. DOMAIN StudyGroups = 1 .. N
    BY StudyGroupsAre
  <2> QED BY <2>2, <2>3, <2>5, <2>6, NamesGood
<1>4. ASSUME NEW i \in 1 .. N
      PROVE  /\ CountsValid(cap(i)) /\ Counts(cap(i))
             /\ Unmediated(cap(i)) = Writes(i) /\ Unmediated(cap(i)) > 0
  <2> DEFINE w == Writes(i)
  <2>1. w \in Nat \ {0}
    BY StudyGroupsAre
  <2>2. /\ cap(i).write /\ cap(i).exposed /\ cap(i).total = w
        /\ cap(i).callable = w /\ cap(i).mediated = 0
    <3>1. cap(i) = [name |-> Domains[i], write |-> TRUE, exposed |-> TRUE,
                    total |-> w, callable |-> w, mediated |-> 0]
      BY <1>2
    <3> HIDE DEF w, cap
    <3> QED BY <3>1
  <2> HIDE DEF w, cap
  <2>3. CountsValid(cap(i))
    BY <2>1, <2>2 DEF CountsValid
  <2>4. Counts(cap(i))
    BY <2>2, <2>3 DEF Counts
  <2>5. Unmediated(cap(i)) = w /\ Unmediated(cap(i)) > 0
    BY <2>1, <2>2 DEF Unmediated
  <2> QED BY <2>3, <2>4, <2>5 DEF w
<1>5. ASSUME NEW i \in 1 .. N PROVE GroupFound(i) = {GroupFinding(i)}
  <2>1. DisplayName(cap(i).name) = Domains[i]
    <3>1. Domains[i] \notin BadNames
      BY StudyGroupsAre, StudyAssumption
    <3>2. cap(i) = [name |-> Domains[i], write |-> TRUE, exposed |-> TRUE, total |-> Writes(i),
                    callable |-> Writes(i), mediated |-> 0]
      BY <1>2
    <3> HIDE DEF cap
    <3>3. cap(i).name = Domains[i]
      BY <3>2
    <3> QED BY <3>1, <3>3 DEF DisplayName, ValidIdentifier
  <2>2. GroupFound(i) = NameFoundAt("capability group", StudyGroups, i)
          \cup When(~CountsValid(cap(i)), <<"EF313", DisplayName(cap(i).name)>>)
          \cup When(Counts(cap(i)) /\ case.requireMediation /\ Unmediated(cap(i)) > 0,
                    <<"EF303", <<DisplayName(cap(i).name), Unmediated(cap(i))>>>>)
    BY <1>1 DEF GroupFound
  <2>3. When(~CountsValid(cap(i)), <<"EF313", DisplayName(cap(i).name)>>) = {}
    BY <1>4 DEF When
  <2>4. When(Counts(cap(i)) /\ case.requireMediation /\ Unmediated(cap(i)) > 0,
             <<"EF303", <<DisplayName(cap(i).name), Unmediated(cap(i))>>>>) = {GroupFinding(i)}
    BY <1>1, <1>4, <2>1 DEF When, GroupFinding
  <2> HIDE DEF cap
  <2> QED BY <1>3, <2>2, <2>3, <2>4
<1>6. GroupsFound(N) = {GroupFinding(i) : i \in 1 .. N}
  BY <1>5 DEF GroupsFound
<1> QED BY <1>1, <1>4, <1>6

LEMMA StudySums ==
    ASSUME NEW payloads, case = StudyCase(payloads)
    PROVE  /\ TrueLive(N) = TotalWrites /\ TrueUnmediated(N) = TotalWrites
           /\ TotalWrites \in Nat /\ TotalWrites <= MaxU64
<1> DEFINE f == [i \in 1 .. N |-> Writes(i)]
<1>1. case.capabilities = StudyGroups /\ DOMAIN Domains = 1 .. N
  BY DomainsNumbered DEF StudyCase, N
<1>2. TotalWrites = SumFunctionOnSet(f, 1 .. N)
  <2>1. [i \in DOMAIN Domains |-> WriteCount[Domains[i]]] = f /\ DOMAIN f = 1 .. N
    BY <1>1 DEF Writes
  <2>2. TotalWrites = SumFunction([i \in DOMAIN Domains |-> WriteCount[Domains[i]]])
    BY DEF TotalWrites, SumOf
  <2> HIDE DEF f
  <2> QED BY <2>1, <2>2 DEF SumFunction
<1>3. CallableOf(N) = f /\ UnmediatedOf(N) = f
  <2> SUFFICES ASSUME NEW i \in 1 .. N
               PROVE  case.capabilities[i].callable = Writes(i)
                      /\ Unmediated(case.capabilities[i]) = Writes(i)
    BY DEF CallableOf, UnmediatedOf
  <2> DEFINE w == Writes(i)
  <2>1. w \in Nat
    BY StudyGroupsAre
  <2>2. case.capabilities[i].callable = w /\ case.capabilities[i].mediated = 0
    BY <1>1 DEF StudyGroups
  <2> HIDE DEF w
  <2>3. Unmediated(case.capabilities[i]) = w
    BY <2>1, <2>2 DEF Unmediated
  <2> QED BY <2>2, <2>3 DEF w
<1>4. CountedTo(N) = 1 .. N
  BY StudyGroupsFound DEF CountedTo
<1>5. TrueLive(N) = TotalWrites /\ TrueUnmediated(N) = TotalWrites
  BY <1>2, <1>3, <1>4 DEF TrueLive, TrueUnmediated
<1>6. N \in Nat /\ N <= Len(case.capabilities)
  BY <1>1, StudyGroupsAre
<1>7. WellFormed(case)
  BY StudyWellFormed
<1> QED BY <1>5, <1>6, <1>7, SumsTyped, StudyAssumption

LEMMA StudyTally ==
    ASSUME NEW payloads, case = StudyCase(payloads)
    PROVE  Tally(7) = [present |-> 7, oracle |-> 3, unapproved |-> 0, alias |-> 2]
<1> DEFINE in(i) == StudyInputs[i]
<1>1. case.inputs = StudyInputs
  BY DEF StudyCase
<1>2. \A i \in 1 .. 7 : in(i).present = TRUE
  BY StudyInputsAre
<1>3. \A i \in 1 .. 7 : in(i).oracle <=> i \in 5 .. 7
  <2>1. \A i \in 1 .. 7 : i \in 5 .. 7 \/ (i \in 1 .. 4 /\ i \notin 5 .. 7)
    OBVIOUS
  <2> QED BY <2>1, StudyInputsAre
<1>4. \A i \in 1 .. 7 : in(i).alias <=> i \in 6 .. 7
  <2>1. \A i \in 1 .. 7 : i \in 6 .. 7 \/ (i \in 1 .. 5 /\ i \notin 6 .. 7)
    OBVIOUS
  <2> QED BY <2>1, StudyInputsAre
<1>5. UnapprovedTo(7) = {}
  <2> SUFFICES ASSUME NEW i \in 1 .. 7, UnapprovedAt(i) PROVE FALSE
    BY DEF UnapprovedTo
  <2>1. ValidIdentifier(in(i).name) /\ ~in(i).oracle
    BY <1>1 DEF UnapprovedAt
  <2>2. DisplayName(in(i).name) = in(i).name
    BY <2>1 DEF DisplayName
  <2>3. <<"EF302", in(i).name>> \in When(UnapprovedAt(i), <<"EF302", DisplayName(in(i).name)>>)
    BY <2>2 DEF When
  <2>4. When(UnapprovedAt(i), <<"EF302", DisplayName(in(i).name)>>) \subseteq InputFound(i)
    BY <1>1 DEF InputFound
  <2> HIDE DEF in
  <2>5. <<"EF302", in(i).name>> \in InputsFound(7)
    BY <2>3, <2>4 DEF InputsFound
  <2> QED BY <2>5, StudyInputsFound
<1> HIDE DEF in
<1>6. PresentTo(7) = 1 .. 7 /\ OraclesTo(7) = 5 .. 7 /\ AliasedTo(7) = 6 .. 7
  <2>1. \A i : (i \in 5 .. 7 => i \in 1 .. 7) /\ (i \in 6 .. 7 => i \in 1 .. 7)
    OBVIOUS
  <2> QED BY <1>1, <1>2, <1>3, <1>4, <2>1 DEF PresentTo, OraclesTo, AliasedTo, Aliased, in
<1>7. /\ Cardinality(1 .. 7) = 7 /\ Cardinality(5 .. 7) = 3 /\ Cardinality(6 .. 7) = 2
      /\ Cardinality({}) = 0
  <2>1. \A a, b \in Int : Cardinality(a .. b) = IF a > b THEN 0 ELSE b - a + 1
    BY FS_Interval
  <2>2. 1 \in Int /\ 5 \in Int /\ 6 \in Int /\ 7 \in Int
    OBVIOUS
  <2>3. /\ Cardinality(1 .. 7) = IF 1 > 7 THEN 0 ELSE 7 - 1 + 1
        /\ Cardinality(5 .. 7) = IF 5 > 7 THEN 0 ELSE 7 - 5 + 1
        /\ Cardinality(6 .. 7) = IF 6 > 7 THEN 0 ELSE 7 - 6 + 1
    BY ONLY <2>1, <2>2, Zenon
  <2>4. Cardinality(1 .. 7) = 7 /\ Cardinality(5 .. 7) = 3 /\ Cardinality(6 .. 7) = 2
    BY ONLY <2>3
  <2> QED BY <2>4, FS_EmptySet
<1> QED BY <1>5, <1>6, <1>7 DEF Tally

LEMMA StudyLate ==
    ASSUME AuditInv, pc = "done", NEW payloads, case = StudyCase(payloads)
    PROVE  LateFound = {<<"EF304", 0>>}
<1>1. /\ case.reported = [inputs |-> 7, oracles |-> 3, groups |-> N, unmediated |-> TotalWrites]
      /\ case.inputs = StudyInputs /\ case.capabilities = StudyGroups
      /\ case.requireBaseline = TRUE /\ case.beforeConstructor = FALSE
  BY DEF StudyCase
<1>2. InputsRead = 7 /\ GroupsRead = N
  BY <1>1, StudyInputsAre, StudyGroupsAre DEF InputsRead, GroupsRead
<1>3. unmediated = Cut(TotalWrites) /\ (overflow <=> TotalWrites > MaxU64)
  BY <1>2, StudySums DEF AuditInv, Summed
<1>4. unmediated = TotalWrites /\ ~overflow
  BY <1>3, StudySums, MaxU64Assumption DEF Cut
<1>5. counts.oracle = 3
  BY <1>2, StudyTally DEF AuditInv
<1>6. ReportedFindings(case) = {}
  BY <1>1, <1>4, <1>5, StudyInputsAre, StudyGroupsAre DEF ReportedFindings, Mismatch, When
<1>7. OrderFindings(case) = {<<"EF304", 0>>}
  BY <1>1 DEF OrderFindings, When
<1> QED BY <1>4, <1>6, <1>7 DEF LateFound, When

LEMMA StudyFindings ==
    ASSUME AuditInv, pc = "done", NEW payloads, case = StudyCase(payloads)
    PROVE  findings =
             {<<"EF301", "task_summary">>, <<"EF301", "state_requirements">>,
              <<"EF301", "task_requirements">>, <<"EF305", "state_requirements">>,
              <<"EF305", "task_requirements">>, <<"EF304", 0>>}
                \cup {GroupFinding(i) : i \in 1 .. N}
<1>1. InputsRead = 7 /\ GroupsRead = N
  BY StudyInputsAre, StudyGroupsAre DEF InputsRead, GroupsRead, StudyCase
<1>2. findings = PolicyFound \cup InputsFound(7) \cup GroupsFound(N) \cup LateFound
  BY <1>1 DEF AuditInv, Found
<1>3. PolicyFound = {} /\ GroupsFound(N) = {GroupFinding(i) : i \in 1 .. N}
  BY StudyAllowlist, StudyGroupsFound
<1> QED BY <1>2, <1>3, StudyInputsFound, StudyLate

LEMMA StudyReport ==
    ASSUME AuditInv, pc = "done", NEW payloads, case = StudyCase(payloads)
    PROVE  report = [passed |-> FALSE, present |-> 7, oracle |-> 3, unapproved |-> 0, alias |-> 2,
                     live |-> TotalWrites, unmediated |-> TotalWrites, prebaseline |-> 1]
<1>1. InputsRead = 7 /\ GroupsRead = N
  BY StudyInputsAre, StudyGroupsAre DEF InputsRead, GroupsRead, StudyCase
<1>2. live = Cut(TotalWrites) /\ unmediated = Cut(TotalWrites)
  BY <1>1, StudySums DEF AuditInv, Summed
<1>3. Cut(TotalWrites) = TotalWrites
  BY StudySums, MaxU64Assumption DEF Cut
<1>4. counts = [present |-> 7, oracle |-> 3, unapproved |-> 0, alias |-> 2]
  BY <1>1, StudyTally DEF AuditInv
<1>5. (findings = {}) = FALSE
  BY StudyFindings
<1>6. case.beforeConstructor = FALSE
  BY DEF StudyCase
<1>7. report = [passed |-> findings = {}, present |-> counts.present,
                oracle |-> counts.oracle, unapproved |-> counts.unapproved,
                alias |-> counts.alias, live |-> live, unmediated |-> unmediated,
                prebaseline |-> IF case.beforeConstructor THEN 0 ELSE 1]
  BY DEF AuditInv, Reported
<1> QED BY <1>2, <1>3, <1>4, <1>5, <1>6, <1>7

Of(code) == {v \in findings : v[1] = code}

LEMMA StudyCodes ==
    ASSUME AuditInv, pc = "done", NEW payloads, case = StudyCase(payloads)
    PROVE  /\ {v[1] : v \in findings} = {"EF301", "EF303", "EF304", "EF305"}
           /\ Cardinality(Of("EF301")) = 3 /\ Cardinality(Of("EF303")) = N
           /\ Cardinality(Of("EF304")) = 1 /\ Cardinality(Of("EF305")) = 2
<1> DEFINE a == <<"EF301", "task_summary">>
           b == <<"EF301", "state_requirements">>
           c == <<"EF301", "task_requirements">>
           d == <<"EF305", "state_requirements">>
           e == <<"EF305", "task_requirements">>
           f == <<"EF304", 0>>
           G == {GroupFinding(i) : i \in 1 .. N}
<1>1. findings = {a, b, c, d, e, f} \cup G
  BY StudyFindings
<1>2. /\ a[1] = "EF301" /\ b[1] = "EF301" /\ c[1] = "EF301" /\ d[1] = "EF305" /\ e[1] = "EF305"
      /\ f[1] = "EF304" /\ \A v \in G : v[1] = "EF303"
  BY DEF GroupFinding
<1>3. a # b /\ a # c /\ b # c /\ d # e
  OBVIOUS
<1>4. G # {}
  <2>1. 1 \in 1 .. N
    BY StudyGroupsAre
  <2> QED BY <2>1
<1>5. IsFiniteSet(G) /\ Cardinality(G) = N
  <2> DEFINE list == [i \in 1 .. N |-> GroupFinding(i)]
  <2>1. N \in Nat /\ DOMAIN Domains = 1 .. N
    BY DomainsNumbered DEF N
  <2>2. list \in Surjection(1 .. N, G)
    BY DEF Surjection
  <2>3. IsFiniteSet(1 .. N) /\ Cardinality(1 .. N) = N
    <3>1. Cardinality(1 .. N) = IF 1 > N THEN 0 ELSE N - 1 + 1
      BY <2>1, FS_Interval
    <3> QED BY <2>1, <3>1, FS_Interval
  <2>4. \A i, j \in 1 .. N : GroupFinding(i) = GroupFinding(j) => i = j
    <3> SUFFICES ASSUME NEW i \in 1 .. N, NEW j \in 1 .. N, GroupFinding(i) = GroupFinding(j)
                 PROVE  i = j
      OBVIOUS
    <3>1. GroupFinding(i)[2][1] = Domains[i] /\ GroupFinding(j)[2][1] = Domains[j]
      BY DEF GroupFinding
    <3>2. Domains[i] = Domains[j]
      BY <3>1
    <3> QED BY <2>1, <3>2, StudyAssumption DEF IsInjective
  <2>5. list \in Injection(1 .. N, G)
    BY <2>4 DEF Injection, IsInjective
  <2> HIDE DEF list, G
  <2> QED BY <2>2, <2>3, <2>5, FS_Surjection
<1> HIDE DEF a, b, c, d, e, f, G
<1>6. Of("EF301") = {a, b, c} /\ Of("EF303") = G /\ Of("EF304") = {f} /\ Of("EF305") = {d, e}
  BY <1>1, <1>2 DEF Of
<1>7. Cardinality({a, b, c}) = 3 /\ Cardinality({f}) = 1 /\ Cardinality({d, e}) = 2
  <2>1. \A x, y : x # y => IsFiniteSet({x, y}) /\ Cardinality({x, y}) = 2
    <3> SUFFICES ASSUME NEW x, NEW y, x # y PROVE IsFiniteSet({x, y}) /\ Cardinality({x, y}) = 2
      OBVIOUS
    <3>1. IsFiniteSet({x}) /\ Cardinality({x}) = 1
      BY FS_Singleton
    <3>2. IsFiniteSet({x} \cup {y}) /\ Cardinality({x} \cup {y}) = 1 + 1
      BY <3>1, FS_AddElement
    <3>3. {x} \cup {y} = {x, y}
      OBVIOUS
    <3> QED BY <3>2, <3>3
  <2>2. IsFiniteSet({a, b}) /\ Cardinality({a, b}) = 2 /\ Cardinality({d, e}) = 2
    BY <1>3, <2>1
  <2>3. c \notin {a, b} /\ {a, b} \cup {c} = {a, b, c}
    BY <1>3
  <2>4. Cardinality({a, b} \cup {c}) = Cardinality({a, b}) + 1
    BY <2>2, <2>3, FS_AddElement
  <2>5. Cardinality({f}) = 1
    BY FS_Singleton
  <2> QED BY <2>2, <2>3, <2>4, <2>5
<1>8. {v[1] : v \in findings} = {"EF301", "EF303", "EF304", "EF305"}
  BY <1>1, <1>2, <1>4
<1> QED BY <1>5, <1>6, <1>7, <1>8

LEMMA StudyReportVerified ==
    ASSUME AuditInv, pc = "done", NEW payloads, case = StudyCase(payloads)
    PROVE  VerifyReport(report, findings)
<1>1. DOMAIN ExpectedCodes = {"EF301", "EF303", "EF304", "EF305"}
  BY DEF ExpectedCodes
<1>2. /\ ExpectedCodes["EF301"] = 3 /\ ExpectedCodes["EF303"] = N /\ ExpectedCodes["EF304"] = 1
      /\ ExpectedCodes["EF305"] = 2
  BY DEF ExpectedCodes, N
<1>3. \A code \in DOMAIN ExpectedCodes : Cardinality(Of(code)) = ExpectedCodes[code]
  BY <1>1, <1>2, StudyCodes
<1>4. {v[1] : v \in findings} = DOMAIN ExpectedCodes
  BY <1>1, StudyCodes
<1> QED BY <1>3, <1>4, StudyReport DEF VerifyReport, Of

LEMMA StudyCaseVerified == ASSUME NEW payloads PROVE VerifyCase(StudyCase(payloads))
<1> DEFINE c == StudyCase(payloads)
<1>1. /\ c.inputs = StudyInputs /\ c.capabilities = StudyGroups
      /\ c.reported = [inputs |-> 7, oracles |-> 3, groups |-> N, unmediated |-> TotalWrites]
      /\ c.allowed = Metadata /\ c.beforeConstructor = FALSE /\ c.beforeFirstTurn = TRUE
      /\ c.forbidOracle = TRUE /\ c.forbidAlias = TRUE
      /\ c.requireMediation = TRUE /\ c.requireBaseline = TRUE
  BY DEF StudyCase
<1> DEFINE in(i) == StudyInputs[i]
<1>2. \A i \in 1 .. 7 : i = 1 \/ i = 2 \/ i = 3 \/ i = 4 \/ i = 5 \/ i = 6 \/ i = 7
  OBVIOUS
<1>3. /\ in(1).name = "task_id" /\ in(2).name = "user_id" /\ in(3).name = "domain"
      /\ in(4).name = "now" /\ in(5).name = "task_summary"
      /\ in(6).name = "state_requirements" /\ in(7).name = "task_requirements"
  BY StudyInputsAre
<1>4. /\ Range(Metadata) = {"task_id", "user_id", "domain", "now"}
      /\ Range(Oracles) = {"task_summary", "state_requirements", "task_requirements"}
  <2>1. /\ Metadata[1] = "task_id" /\ Metadata[2] = "user_id" /\ Metadata[3] = "domain"
        /\ Metadata[4] = "now" /\ DOMAIN Metadata = 1 .. 4
        /\ Oracles[1] = "task_summary" /\ Oracles[2] = "state_requirements"
        /\ Oracles[3] = "task_requirements" /\ DOMAIN Oracles = 1 .. 3
    BY DEF Metadata, Oracles
  <2>2. 1 .. 4 = {1, 2, 3, 4} /\ 1 .. 3 = {1, 2, 3}
    OBVIOUS
  <2> QED BY <2>1, <2>2 DEF Range
<1>5. Range(StudyInputs) = {in(i) : i \in 1 .. 7}
  BY StudyInputsAre DEF Range
<1>6. {x.name : x \in Range(StudyInputs)} = Range(Metadata) \cup Range(Oracles)
  <2>1. {x.name : x \in Range(StudyInputs)} = {in(i).name : i \in 1 .. 7}
    BY <1>5
  <2>2. 1 .. 7 = {1, 2, 3, 4, 5, 6, 7}
    OBVIOUS
  <2> HIDE DEF in
  <2> QED BY <1>3, <1>4, <2>1, <2>2
<1>7. ASSUME NEW i \in 1 .. 7
      PROVE  /\ in(i).present /\ in(i).items = ItemsExpected(in(i).name)
             /\ in(i).oracle <=> in(i).name \in Range(Oracles)
             /\ in(i).alias <=> in(i).name \in Lists
  <2>1. /\ in(i).present = TRUE
        /\ in(i).items = IF i \in 6 .. 7 THEN StudyItems(in(i).name) ELSE N
        /\ i \in 1 .. 4 => in(i).oracle = FALSE
        /\ i \in 5 .. 7 => in(i).oracle = TRUE
        /\ i \in 1 .. 5 => in(i).alias = FALSE
        /\ i \in 6 .. 7 => in(i).alias = TRUE
    BY StudyInputsAre
  <2>2. in(i).name \in Lists <=> i \in 6 .. 7
    BY <1>2, <1>3 DEF Lists
  <2>3. in(i).name \in Range(Oracles) <=> i \in 5 .. 7
    BY <1>2, <1>3, <1>4
  <2>4. ItemsExpected(in(i).name) = IF i \in 6 .. 7 THEN StudyItems(in(i).name) ELSE N
    BY <2>2 DEF ItemsExpected, StudyItems, N
  <2>5. (i \in 1 .. 4 \/ i \in 5 .. 7) /\ (i \in 1 .. 5 \/ i \in 6 .. 7)
        /\ ~(i \in 1 .. 4 /\ i \in 5 .. 7) /\ ~(i \in 1 .. 5 /\ i \in 6 .. 7)
    OBVIOUS
  <2> HIDE DEF in
  <2> QED BY <2>1, <2>2, <2>3, <2>4, <2>5
<1>8. \A x \in Range(StudyInputs) :
         /\ x.present /\ x.items = ItemsExpected(x.name)
         /\ x.oracle <=> x.name \in Range(Oracles)
         /\ x.alias <=> x.name \in Lists
  <2> HIDE DEF in
  <2> QED BY <1>5, <1>7
<1>9. \A d \in Range(Domains) : \E cap \in Range(StudyGroups) :
         cap = [name |-> d, write |-> TRUE, exposed |-> TRUE, total |-> WriteCount[d],
                callable |-> WriteCount[d], mediated |-> 0]
  <2> SUFFICES ASSUME NEW i \in DOMAIN Domains
               PROVE  \E cap \in Range(StudyGroups) :
                        cap = [name |-> Domains[i], write |-> TRUE, exposed |-> TRUE,
                               total |-> WriteCount[Domains[i]],
                               callable |-> WriteCount[Domains[i]], mediated |-> 0]
    BY DEF Range
  <2>1. i \in 1 .. N
    BY DomainsNumbered DEF N
  <2>2. StudyGroups[i] \in Range(StudyGroups)
    BY <2>1, StudyGroupsAre DEF Range
  <2>3. StudyGroups[i] = [name |-> Domains[i], write |-> TRUE, exposed |-> TRUE,
                          total |-> WriteCount[Domains[i]],
                          callable |-> WriteCount[Domains[i]], mediated |-> 0]
    BY <2>1 DEF StudyGroups, Writes
  <2> QED BY <2>2, <2>3
<1>10. Len(StudyInputs) = 7 /\ Len(StudyGroups) = Len(Domains)
  BY StudyInputsAre, StudyGroupsAre DEF N
<1> HIDE DEF c, in
<1> QED BY <1>1, <1>6, <1>8, <1>9, <1>10 DEF VerifyCase, N, c

(* Which study verifies: the one in which no list was ever changed.        *)
LEMMA StudySummary ==
    ASSUME NEW kept \in [1 .. N -> BOOLEAN], observed = Observations(N, kept),
           NEW payloads \in [DOMAIN Domains -> BOOLEAN], case = BuiltCase(observed, payloads),
           summary = [observed |-> observed, control |-> <<ExpectedResult(1), ExpectedResult(2)>>,
                      digest |-> case, calls |-> NoCalls]
    PROVE  (summary = ExpectedSummary /\ summary.digest = case) <=>
             (\A d \in DOMAIN Domains : case.payloads[d]) /\ (\A o \in Range(observed) : o.payload)
<1> DEFINE allTrue == [d \in DOMAIN Domains |-> TRUE]
<1>0. DOMAIN Domains = 1 .. N /\ N \in Nat
  BY DomainsNumbered DEF N
<1>1. ExpectedObserved = Observations(N, allTrue)
  BY <1>0 DEF ExpectedObserved, Observations, Observation
<1>2. (\A o \in Range(observed) : o.payload) <=> \A d \in 1 .. N : kept[d]
  <2>1. DOMAIN observed = 1 .. N /\ \A i \in 1 .. N : observed[i] = Observation(i, kept[i])
    BY <1>0, ObservationsAreList
  <2>2. \A i \in 1 .. N : observed[i].payload = kept[i]
    BY <2>1 DEF Observation
  <2> QED BY <2>1, <2>2, Zenon DEF Range
<1>3. (\A d \in 1 .. N : kept[d]) <=> kept = allTrue
  BY <1>0
<1>4. observed = ExpectedObserved <=> kept = allTrue
  <2>1. ASSUME observed = ExpectedObserved PROVE kept = allTrue
    <3>1. \A i \in 1 .. N : Observation(i, kept[i]) = Observation(i, allTrue[i])
      <4>1. \A i \in 1 .. N : Observations(N, kept)[i] = Observation(i, kept[i])
        BY <1>0, ObservationsAreList
      <4>2. \A i \in 1 .. N : Observations(N, allTrue)[i] = Observation(i, allTrue[i])
        BY <1>0, ObservationsAreList
      <4>3. Observations(N, kept) = Observations(N, allTrue)
        BY <1>1, <2>1
      <4> HIDE DEF allTrue
      <4> QED BY <4>1, <4>2, <4>3
    <3>2. \A i \in 1 .. N : Observation(i, kept[i]).payload = kept[i]
      BY DEF Observation
    <3>3. \A i \in 1 .. N : Observation(i, allTrue[i]).payload = allTrue[i]
      BY DEF Observation
    <3>4. \A i \in 1 .. N : kept[i] = allTrue[i]
      BY <3>1, <3>2, <3>3
    <3>5. \A i \in 1 .. N : kept[i] = TRUE
      BY <1>0, <3>4
    <3> QED BY <1>0, <3>5
  <2> QED BY <1>1, <2>1
<1>5. case.payloads = payloads /\ BuiltCase(ExpectedObserved, allTrue).payloads = allTrue
  BY DEF BuiltCase
<1>6. (\A d \in DOMAIN Domains : payloads[d]) <=> payloads = allTrue
  OBVIOUS
<1>7. summary = ExpectedSummary <=>
        observed = ExpectedObserved /\ case = BuiltCase(ExpectedObserved, allTrue)
  BY DEF ExpectedSummary
<1>8. observed = ExpectedObserved =>
        (case = BuiltCase(ExpectedObserved, allTrue) <=> payloads = allTrue)
  BY <1>5
<1> HIDE DEF allTrue
<1>9. (\A d \in DOMAIN Domains : case.payloads[d]) <=> payloads = allTrue
  BY <1>5, <1>6
<1>10. summary.digest = case
  OBVIOUS
<1> QED BY <1>2, <1>3, <1>4, <1>7, <1>8, <1>9, <1>10

-----------------------------------------------------------------------------
(* The audit within the probe: it has not begun until there is a case.     *)

AuditingInv ==
    /\ stage \in {"given", "audit"} => AuditInv
    /\ stage \notin {"given", "audit"} => AuditInit

LEMMA FreshAuditInv == WellFormed(case) /\ AuditInit => AuditInv
BY InitAuditInv

LEMMA StillAuditingInv ==
    ASSUME AuditingInv, UNCHANGED vars,
           stage' \in {"given", "audit"} <=> stage \in {"given", "audit"}
    PROVE  AuditingInv'
<1>1. CASE stage \in {"given", "audit"}
  <2>1. AuditInv
    BY <1>1 DEF AuditingInv
  <2>2. AuditInv'
    BY <2>1, NextAuditInv
  <2> QED BY <1>1, <2>2 DEF AuditingInv
<1>2. CASE stage \notin {"given", "audit"}
  <2>1. AuditInit
    BY <1>2 DEF AuditingInv
  <2>2. AuditInit'
    BY <2>1 DEF AuditInit, vars
  <2> QED BY <1>2, <2>2 DEF AuditingInv
<1> QED BY <1>1, <1>2

LEMMA BuiltIsStudied ==
    ASSUME Running, Observing, Len(observed) = Len(Domains)
    PROVE  \E kept \in [1 .. N -> BOOLEAN] :
             /\ observed = Observations(N, kept)
             /\ \A payloads : BuiltCase(observed, payloads) = StudyCase(payloads)
<1>0. PICK n \in 0 .. Len(Domains) : \E kept \in [1 .. n -> BOOLEAN] : observed = Observations(n, kept)
  BY DEF Observing
<1>1. PICK kept \in [1 .. n -> BOOLEAN] : observed = Observations(n, kept)
  BY <1>0
<1>2. n \in Nat
  BY <1>1, DomainsNumbered
<1>3. n = N
  BY <1>1, <1>2, ObservationsAreList DEF N
<1> QED BY <1>1, <1>3, StudiedCase DEF Studied

LEMMA LastObserved ==
    ASSUME Observing, OInv, stage \in {"build", "audit"}
    PROVE  Running /\ Len(observed) = Len(Domains)
<1>1. D > Len(Domains)
  BY DEF OInv, Looking
<1>2. PICK n \in 0 .. Len(Domains) : \E kept \in [1 .. n -> BOOLEAN] : observed = Observations(n, kept)
  BY DEF Observing, Running
<1>3. n \in Nat /\ n <= Len(Domains) /\ Len(Domains) \in Nat
  BY <1>2, DomainsNumbered
<1>4. Len(observed) = n
  BY <1>2, <1>3, ObservationsAreList, Zenon
<1>5. n + 1 > Len(Domains)
  BY <1>1, <1>4 DEF D
<1> QED BY <1>3, <1>4, <1>5 DEF Running

LEMMA NextAuditingInv ==
    AuditingInv /\ Observing /\ OInv /\ [ProbeNext]_<<vars, probeVars>> => AuditingInv'
<1> SUFFICES ASSUME AuditingInv, Observing, OInv, [ProbeNext]_<<vars, probeVars>> PROVE AuditingInv'
  OBVIOUS
<1>1. CASE UNCHANGED <<vars, probeVars>> \/ Refused
  BY <1>1, StillAuditingInv DEF probeVars, Refused
<1>2. CASE AuditStep
  <2>1. stage \in {"given", "audit"} /\ Next /\ stage' = stage
    BY <1>2 DEF AuditStep, probeVars
  <2>2. AuditInv'
    BY <2>1, NextAuditInv DEF AuditingInv
  <2> QED BY <2>1, <2>2 DEF AuditingInv
<1>3. CASE ProbeStep /\ UNCHANGED vars
  <2>1. stage \in {"probe", "control", "build"} /\ stage' \in {stage, "refused", "control", "build"}
    BY <1>3 DEF ProbeStep, LoadTask, Construct, Snapshot, Turn, ClientCall, Calls, Raise, Touch,
             FinishTask, EndProbe, ControlTurn, ControlClientCall, FinishArm, Refuse
  <2> QED BY <1>3, <2>1, StillAuditingInv
<1>4. CASE BuildCase
  <2>1. stage = "build" /\ stage' = "audit" /\ case' = BuiltCase(observed, payload)
    BY <1>4 DEF BuildCase
  <2>2. AuditInit
    BY <2>1 DEF AuditingInv
  <2>3. AuditInit'
    BY <1>4, <2>2 DEF BuildCase, AuditInit, capabilityVars
  <2>4. case' = StudyCase(payload)
    BY <2>1, LastObserved, BuiltIsStudied
  <2>5. WellFormed(StudyCase(payload))
    BY StudyWellFormed
  <2>6. WellFormed(case')
    BY <2>4, <2>5
  <2>7. (WellFormed(case) /\ AuditInit => AuditInv)'
    BY FreshAuditInv, PTL
  <2>8. AuditInv'
    BY <2>3, <2>6, <2>7 DEF WellFormed
  <2> QED BY <2>1, <2>8 DEF AuditingInv
<1> QED BY <1>1, <1>2, <1>3, <1>4 DEF ProbeNext

LEMMA InitAuditingInv == ProbeInit => AuditingInv
<1> SUFFICES ASSUME ProbeInit PROVE AuditingInv
  OBVIOUS
<1>1. AuditInit /\ ((case \in Cases /\ stage = "given") \/ stage = "probe")
  BY DEF ProbeInit
<1>2. case \in Cases => WellFormed(case)
  BY CasesAssumption
<1> QED BY <1>1, <1>2, FreshAuditInv DEF AuditingInv

LEMMA StudyVerified ==
    ASSUME AuditingInv, Observing, OInv, IInv PROVE StudyVerifies
<1> SUFFICES ASSUME Built, pc = "done"
             PROVE  /\ VerifyCase(case) /\ VerifyReport(report, findings)
                    /\ Verified <=> (/\ \A d \in DOMAIN Domains : case.payloads[d]
                                    /\ \A o \in Range(observed) : o.payload)
  BY DEF StudyVerifies
<1>1. /\ stage = "audit" /\ AuditInv /\ counters = NoCalls
      /\ <<arm.first, ArmResult>> = <<ExpectedResult(1), ExpectedResult(2)>>
  BY DEF Built, AuditingInv, IInv, Controlled
<1>2. Running /\ Len(observed) = Len(Domains)
  BY <1>1, LastObserved
<1>3. PICK payloads \in [DOMAIN Domains -> BOOLEAN] :
        /\ case = BuiltCase(observed, payloads)
        /\ summary = [observed |-> observed, control |-> <<arm.first, ArmResult>>,
                       digest |-> case, calls |-> counters]
  BY <1>1 DEF Observing
<1>4. PICK kept \in [1 .. N -> BOOLEAN] :
        /\ observed = Observations(N, kept)
        /\ \A p : BuiltCase(observed, p) = StudyCase(p)
  BY <1>2, BuiltIsStudied
<1>5. case = StudyCase(payloads)
  BY <1>3, <1>4
<1>6. VerifyCase(case) /\ VerifyReport(report, findings)
  BY <1>1, <1>5, StudyCaseVerified, StudyReportVerified
<1>7. summary = [observed |-> observed, control |-> <<ExpectedResult(1), ExpectedResult(2)>>,
                 digest |-> case, calls |-> NoCalls]
  BY <1>1, <1>3
<1>8. (summary = ExpectedSummary /\ summary.digest = case) <=>
         (\A d \in DOMAIN Domains : case.payloads[d]) /\ (\A o \in Range(observed) : o.payload)
  BY <1>3, <1>4, <1>7, StudySummary
<1> QED BY <1>6, <1>8 DEF Verified

(* The audit within the probe keeps what it keeps on any case: counters    *)
(* that are the true sums, and a pass that means the boundary.             *)
THEOREM BuiltCasesToo ==
    ProbeSpec => [](stage \in {"given", "audit"} => SaturatingCounters /\ PassMeansBoundary)
<1>1. ProbeInit => AuditingInv /\ Observing /\ OInv
  BY InitAuditingInv, InitObserving, InitOInv
<1>2. AuditingInv /\ Observing /\ OInv /\ [ProbeNext]_<<vars, probeVars>>
        => (AuditingInv /\ Observing /\ OInv)'
  BY NextAuditingInv, NextObserving, NextOInv
<1>3. AuditingInv => (stage \in {"given", "audit"} => SaturatingCounters /\ PassMeansBoundary)
  BY Saturated, PassIsContract DEF AuditingInv, PassMeansBoundary
<1> QED BY <1>1, <1>2, <1>3, PTL DEF ProbeSpec

(* The three programs agree: whatever upstream does, evalfence reports of  *)
(* a case the generator builds what the verifier has registered, and the   *)
(* study verifies exactly when no requirement list was ever changed.       *)
THEOREM ProgramsAgree == ProbeSpec => []StudyVerifies
<1>1. ProbeInit => AuditingInv /\ Observing /\ OInv /\ IInv
  BY InitAuditingInv, InitObserving, InitOInv, InitIInv
<1>2. AuditingInv /\ Observing /\ OInv /\ IInv /\ [ProbeNext]_<<vars, probeVars>>
        => (AuditingInv /\ Observing /\ OInv /\ IInv)'
  BY NextAuditingInv, NextObserving, NextOInv, NextIInv
<1> QED BY <1>1, <1>2, StudyVerified, PTL DEF ProbeSpec
=============================================================================
