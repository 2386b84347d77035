-------------------------- MODULE MCManifestAudit --------------------------
(***************************************************************************)
(* Two sets of cases.  OrderCases: every sequence of up to four records    *)
(* over two ids, two digests and the bad digest, one policy, so that       *)
(* groups of up to four records mix valid and invalid digests in every     *)
(* order.  PolicyCases: up to two records, blank ids, every list of up to  *)
(* two ids as allowlist and up to one required id, declared counts.        *)
(***************************************************************************)
EXTENDS ManifestAudit

ListsUpTo(n, S) == UNION {[1 .. k -> S] : k \in 0 .. n}
Records(ids, payloads) == [id : ids, payload : payloads]

Case(records, allowed, required, reported, ok) ==
    [records |-> records, allowed |-> allowed, required |-> required,
     reported |-> reported, schemaOk |-> ok, caseIdOk |-> ok]

OrderCases ==
    {Case(r, <<1, 2>>, <<2>>, None, TRUE) :
       r \in ListsUpTo(4, Records({1, 2}, {"aa", "bb", BadDigest}))}

Declarations == {None} \cup [records : {None, 1}, unique : {None, 1}]

PolicyCases ==
    {Case(r, a, q, d, TRUE) :
       r \in ListsUpTo(2, Records({1, 2, Blank}, {"aa", BadDigest})),
       a \in ListsUpTo(2, {1, 2, Blank}),
       q \in {<<>>, <<1>>, <<2>>, <<1, 1>>, <<Blank>>},
       d \in Declarations}
    \cup {Case(<<>>, <<>>, <<>>, None, FALSE)}

AllCases == OrderCases \cup PolicyCases
=============================================================================
