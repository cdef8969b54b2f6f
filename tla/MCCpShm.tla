------------------------------- MODULE MCCpShm -------------------------------
(* Instances of CpShm for TLC. *)
EXTENDS CpShm, TLC

CONSTANTS e1, e2, e3

MCSeed == [policy |-> "mod", endpoints |-> <<e1>>]
MCConfig == {[policy |-> "rr", endpoints |-> <<e2, e3>>],
             [policy |-> "mod", endpoints |-> <<e3>>],
             [policy |-> "mod", endpoints |-> <<>>],
             [policy |-> "hash", endpoints |-> <<e1>>],
             [policy |-> "rr", endpoints |-> <<e1, "localhost">>],
             [policy |-> "rr", endpoints |-> <<e1, e2, e3>>]}
MCHash == [k \in FlowKey |-> 0]
=============================================================================
