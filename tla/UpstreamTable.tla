--------------------------- MODULE UpstreamTable ---------------------------
(***************************************************************************)
(* The published upstream list and balance policy (src/upstream.hpp,       *)
(* upstream.cpp).  set and set_policy are called by the control-plane poll *)
(* and pick by the forwarder, both on the worker thread.                   *)
(***************************************************************************)
EXTENDS Integers, Sequences, Flows

CONSTANTS
  Hash,        \* hash_key of each flow
  CounterSpan  \* number of values of rr_counter_ (2^64 in the code)

Policy == {"mod", "rr"}

ASSUME UpstreamTableAssumption ==
  /\ Hash \in [FlowKey -> Nat]
  /\ CounterSpan \in Nat \ {0}

VARIABLES nodes_, policy_, rr_counter_

upstreamVars == <<nodes_, policy_, rr_counter_>>

UpstreamTypeOK ==
  /\ nodes_ \in Seq(Endpoint)
  /\ policy_ \in Policy
  /\ rr_counter_ \in 0 .. (CounterSpan - 1)

UpstreamInit ==
  /\ nodes_ = <<>>
  /\ policy_ = "mod"
  /\ rr_counter_ = 0

(* set_policy then set, the pair of calls that applies a configuration. *)
Set(policy, endpoints) ==
  /\ policy_' = policy
  /\ nodes_' = endpoints
  /\ UNCHANGED rr_counter_

(* pick(k) returns true and u. *)
Pick(k, u) ==
  /\ nodes_ # <<>>
  /\ \/ /\ policy_ = "rr"
        /\ u = nodes_[(rr_counter_ % Len(nodes_)) + 1]
        /\ rr_counter_' = (rr_counter_ + 1) % CounterSpan
     \/ /\ policy_ = "mod"
        /\ u = nodes_[(Hash[k] % Len(nodes_)) + 1]
        /\ UNCHANGED rr_counter_
  /\ UNCHANGED <<nodes_, policy_>>

(* pick(k) returns false. *)
PickFails ==
  /\ nodes_ = <<>>
  /\ UNCHANGED upstreamVars
=============================================================================
