---------------------------- MODULE MCRequestFlow ----------------------------
(* Values of the constants of RequestFlow for TLC.                          *)
EXTENDS RequestFlow, TLC

CONSTANTS a1, a2, codex, gemini, k1, m1, m2, r1, r2

MCAuthProvider == [a \in Auths |-> IF a = a1 THEN codex ELSE gemini]

\* One model of codex is priced or none is.
MCPriceLists ==
    {[x \in Providers \X Models |-> IF x \in priced THEN 1 ELSE NoRule] :
        priced \in {{}, {<<codex, m1>>}}}

\* Every key limited and bound.  When the short window has moved on, the total limit
\* still refuses after one charge, and the long window after two made at once.
MCEither == {{a1}, {a2}}
MCAllLimits == {[five |-> 1, week |-> 2, total |-> 1]}

\* Keys with and without limits, bindings and both.
MCUnbound == {{}}
MCBindingSets == {{}, {a1}, {a1, a2}}
MCLimits == {[five |-> 1, week |-> 0, total |-> 2], NoLimits}

RequestSymmetry == Permutations(Requests)
=============================================================================
