----------------------------- MODULE MCKeyStore -----------------------------
(***************************************************************************)
(* An instance of KeyStore for TLC: two key ids, a custom token, a custom  *)
(* token that is also the id of the first key, and one random token, for a *)
(* creation without a token or for a rotation.                             *)
(***************************************************************************)
EXTENDS KeyStore, TLC

CONSTANTS i1, i2, t1, x1, c1, c2, r1

\* Bodies: nothing but a name; one limit each; disabled and bound.
Body(on, five, total, S) ==
    [enabled |-> on, limits |-> [w \in Windows |-> IF w = "five" THEN five ELSE total],
     bindings |-> S]
MCBodies ==
    {Body(NoField, NoField, NoField, NoField),
     Body(NoField, 1, NoField, NoField),
     Body(FALSE, NoField, 1, {"a"})}

Symmetry == Permutations(Admins)
=============================================================================
