------------------------------ MODULE Forwarder ------------------------------
(***************************************************************************)
(* The L4 half of the forwarder (src/forward.cpp): classification of a     *)
(* parsed UDP packet, the session it uses or creates, and the translation  *)
(* it receives.  The L2 half, which resolves the next hop and may hold the *)
(* packet, is in Gateway.                                                  *)
(*                                                                         *)
(* A packet to the VIP is its flow key.  A packet to the gateway address   *)
(* is its reverse key: the upstream it comes from and the SNAT port it is  *)
(* addressed to.                                                           *)
(***************************************************************************)
EXTENDS SessionTable, UpstreamTable

CONSTANTS
  Unset,  \* endpoints whose ip_be is 0
  Config  \* configurations the control plane publishes

ASSUME ForwarderAssumption ==
  /\ Unset \subseteq Endpoint
  /\ \A c \in Config : c.policy \in Policy /\ c.endpoints \in Seq(Endpoint)

l4Vars == <<tableVars, upstreamVars>>

ForwardHitUntouched(k) ==
  /\ cursor = 0
  /\ forward_[k] # nullptr
  /\ UNCHANGED l4Vars

(* handle_forward for a flow that has a session. *)
ForwardHit(k) ==
  /\ forward_[k] # nullptr
  /\ Touch(forward_[k])
  /\ UNCHANGED upstreamVars

(* handle_forward for a flow that gets a session. *)
ForwardNew(k, u) ==
  /\ Pick(k, u)
  /\ u \notin Unset
  /\ Create(k, u)

(* The early returns of handle_forward: the list is empty, the endpoint    *)
(* picked has no address, or the SNAT ports are exhausted.                 *)
ForwardDrop(k) ==
  /\ cursor = 0
  /\ forward_[k] = nullptr
  /\ \/ PickFails /\ UNCHANGED tableVars
     \/ \E u \in Unset : Pick(k, u) /\ UNCHANGED tableVars
     \/ \E u \in Endpoint \ Unset : Pick(k, u) /\ CreateFails(k)

HandleForward(k) ==
  ForwardHit(k) \/ \E u \in Endpoint : ForwardNew(k, u)

(* apply_forward_nat: where packets of flow k with session record s go. *)
Translation(s) == <<s.up, s.snat>>

(* apply_reverse_nat: the flow whose client gets a reply with session      *)
(* record s, addressed as if it came from the VIP.                         *)
Restored(s) == s.key

(* handle_reverse, with and without a session. *)
HandleReverse(r) ==
  /\ reverse_[r] # nullptr
  /\ Touch(reverse_[r])
  /\ UNCHANGED upstreamVars

ReverseDrop(r) ==
  /\ cursor = 0
  /\ reverse_[r] = nullptr
  /\ UNCHANGED l4Vars
=============================================================================
