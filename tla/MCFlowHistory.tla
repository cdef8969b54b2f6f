--------------------------- MODULE MCFlowHistory ---------------------------
(* An instance of FlowHistory for TLC. *)
EXTENDS FlowHistory, TLC

CONSTANTS k1, k2, k3, u1, u2, u0, s1, s2

MCFlowKey == {k1, k2, k3}
MCEndpoint == {u1, u2, u0}
MCUnset == {u0}
MCPtr == {s1, s2}
MCHash == k1 :> 0 @@ k2 :> 1 @@ k3 :> 2
MCConfig == {[policy |-> "mod", endpoints |-> <<u1, u2>>],
             [policy |-> "rr", endpoints |-> <<u2, u0>>],
             [policy |-> "mod", endpoints |-> <<>>]}

Symmetry == Permutations(MCPtr)
=============================================================================
