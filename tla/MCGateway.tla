------------------------------ MODULE MCGateway ------------------------------
(* Instances of Gateway for TLC: one client address c1 and one upstream u1 *)
(* at i1, both learned dynamically.                                        *)
EXTENDS Gateway, TLC

CONSTANTS u1, c1, i1

MCKeyIp == [k \in FlowKey |-> c1]
MCHash == [k \in FlowKey |-> 0]
MCEndpointIp == u1 :> i1
MCConfig == {[policy |-> "mod", endpoints |-> <<u1>>],
             [policy |-> "mod", endpoints |-> <<>>]}
Symmetry == Permutations(FlowKey) \cup Permutations(Ptr) \cup Permutations(Mbuf)
=============================================================================
