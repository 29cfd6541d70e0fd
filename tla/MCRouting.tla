------------------------------ MODULE MCRouting ------------------------------
(* Values of the constants of Routing for TLC.                              *)
EXTENDS Routing, Sequences, TLC

CONSTANTS a1, a2, a3, codex, gemini, k1, k2, m1, s1, s2, c1, c2

\* The order package sort gives the ids, and its subsets as 0-based slices.
IdOrder == <<a1, a2, a3, codex, gemini>>
MCSorted ==
    [S \in (SUBSET Auths) \cup (SUBSET Providers) |->
        LET listed == SelectSeq(IdOrder, LAMBDA x : x \in S)
        IN [i \in 0 .. Cardinality(S) - 1 |-> listed[i + 1]]]

MCAuthProvider == [a \in Auths |-> IF a = a3 THEN gemini ELSE codex]

\* Full and empty tables of price rules.
MCPriced == {Providers \X Models}
MCPriceTables == {Providers \X Models, {}}

MCBindingSets == {{a1}, {a2, a3}}
MCAnyBindings == {{}, {a1, a2}, Auths}
MCOneList == {{}}
MCAvailable == {{}, {gemini}}
MCFilters == {None}
MCSomeFilter == {codex}
MCOffers == {(a1 :> 1 @@ a2 :> 1 @@ a3 :> 1), (a1 :> 1 @@ a2 :> 2)}
MCEqualOffer == {(a1 :> 1 @@ a2 :> 1 @@ a3 :> 1)}

CallSymmetry == Permutations(Calls)
SessionSymmetry == CallSymmetry \cup Permutations(Sessions)
=============================================================================
