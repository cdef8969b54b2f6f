----------------------------- MODULE FlowHistory -----------------------------
(***************************************************************************)
(* The forwarder as its clients and upstreams see it.  A history variable  *)
(* remembers how long ago each flow was last translated to each upstream   *)
(* and SNAT port; the properties say what that history promises about the  *)
(* replies that may still be on their way.                                 *)
(***************************************************************************)
EXTENDS Forwarder

VARIABLE sent  \* sent[k][r]: time since k was translated to r, at most IdleTimeout

vars == <<tableVars, upstreamVars, sent>>

SentTypeOK == sent \in [FlowKey -> [ReverseKey -> 0 .. IdleTimeout]]

TypeOK ==
  /\ TableTypeOK
  /\ UpstreamTypeOK
  /\ SentTypeOK

Init ==
  /\ TableInit
  /\ UpstreamInit
  /\ sent = [k \in FlowKey |-> [r \in ReverseKey |-> IdleTimeout]]

(* A packet of flow k is translated and leaves, or is held for its MAC. *)
Forward(k) ==
  /\ HandleForward(k)
  /\ sent' = [sent EXCEPT ![k][Translation(heap'[forward_'[k]])] = 0]

Dropped ==
  /\ \/ \E k \in FlowKey : ForwardDrop(k)
     \/ \E r \in ReverseKey : ReverseDrop(r)
  /\ UNCHANGED sent

Reply(r) ==
  /\ HandleReverse(r)
  /\ UNCHANGED sent

(* The worker loop's expire_sessions. *)
Expire ==
  /\ ExpireBegin \/ ExpireLoop
  /\ UNCHANGED <<upstreamVars, sent>>

(* The worker loop's poll_control, when it applies a configuration. *)
Publish(c) ==
  /\ cursor = 0
  /\ Set(c.policy, c.endpoints)
  /\ UNCHANGED <<tableVars, sent>>

Elapse(d) ==
  /\ IdleFor(d)
  /\ sent' = [k \in FlowKey |-> [r \in ReverseKey |->
       IF sent[k][r] + d < IdleTimeout THEN sent[k][r] + d ELSE IdleTimeout]]
  /\ UNCHANGED upstreamVars

Next ==
  \/ \E k \in FlowKey : Forward(k)
  \/ Dropped
  \/ \E r \in ReverseKey : Reply(r)
  \/ Expire
  \/ \E c \in Config : Publish(c)
  \/ \E d \in 1 .. IdleTimeout : Elapse(d)

Spec == Init /\ [][Next]_vars

-----------------------------------------------------------------------------
(* Properties *)

(* A reply that reaches the gateway less than the idle timeout after a     *)
(* packet of flow k was translated to r is translated back to flow k:      *)
(* handle_reverse finds a session, and it is k's, although ports are       *)
(* returned and handed out again, last returned first, in between.         *)
ReplyToOwner ==
  \A k \in FlowKey, r \in ReverseKey :
    sent[k][r] < IdleTimeout =>
      reverse_[r] # nullptr /\ heap[reverse_[r]].key = k

(* An active flow stays with its upstream and its SNAT port: within the    *)
(* idle timeout all its packets get one translation, whatever lists and    *)
(* policies the control plane publishes meanwhile.                         *)
StickyFlow ==
  \A k \in FlowKey, q, r \in ReverseKey :
    sent[k][q] < IdleTimeout /\ sent[k][r] < IdleTimeout => q = r

(* What makes ReplyToOwner inductive: the session of a remembered          *)
(* translation has been active at least as recently as the translation.    *)
SentBacked ==
  \A k \in FlowKey, r \in ReverseKey :
    sent[k][r] < IdleTimeout =>
      \E s \in Live :
        /\ heap[s].key = k
        /\ Translation(heap[s]) = r
        /\ heap[s].idle <= sent[k][r]
=============================================================================
