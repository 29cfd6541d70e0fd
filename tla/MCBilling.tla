------------------------------ MODULE MCBilling ------------------------------
(***************************************************************************)
(* An instance of Billing for TLC: an alias of an official provider, the   *)
(* official one and a provider no source covers; two documents whose rules *)
(* differ, one that lists a model twice at different prices, and one       *)
(* without a supported price.                                              *)
(***************************************************************************)
EXTENDS Billing, TLC

CONSTANTS s1, s2

Symmetry == Permutations(Syncs)

MCOfficialOf == [p \in Providers |-> IF p = "vertex_ai" THEN "vertex" ELSE p]
MCSourceProvider ==
    [p \in {"vertex_ai", "acme"} |-> IF p = "vertex_ai" THEN "vertex" ELSE None]
MCShortName == [m \in Models |-> IF m = "vertex_ai/gemini" THEN "gemini" ELSE m]
MCAuthProvider == [a \in Auths |-> "vertex_ai"]

Low == [input |-> 2, output |-> 3, read |-> 1]
High == [input |-> 4, output |-> 5, read |-> 0]
Spec_(name, provider, price) == [name |-> name, provider |-> provider, price |-> price]

MCDocuments ==
    {{Spec_("vertex_ai/gemini", "vertex_ai", Low), Spec_("gemini", "vertex_ai", High)},
     {Spec_("palm", "vertex_ai", Low), Spec_("gemini", "acme", Low)},
     {Spec_("gemini", "acme", High)}}

MCPutBodies ==
    {[key \in {<<"vertex_ai", "gemini">>} |-> Low],
     [key \in {<<"vertex", "gemini">>} |-> Low]}

Detail(input, output, cached, read, created, total) ==
    [input |-> input, output |-> output, cached |-> cached, read |-> read,
     created |-> created, reasoning |-> 1, total |-> total]
Usage(k, p, a, d) ==
    [key |-> k, provider |-> p, auth |-> a, model |-> "gemini", detail |-> d]

MCUsages ==
    {Usage("k1", "vertex_ai", None, Detail(3, 1, 0, 2, 0, 4)),
     Usage("k2", "vertex_ai", "a1", Detail(1, 0, 3, 0, 1, 0)),
     Usage("k1", None, "a1", Detail(2, 0, 1, 0, 1, 2)),
     Usage("k2", "vertex", "a1", Detail(3, 1, 2, 0, 0, 3))}
=============================================================================
