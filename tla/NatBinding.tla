----------------------------- MODULE NatBinding -----------------------------
(***************************************************************************)
(* What the session table promises to its callers: each flow has at most   *)
(* one binding to an upstream and a SNAT port, no two flows share a port,  *)
(* and a flow keeps its binding until it has been idle for IdleTimeout.    *)
(***************************************************************************)
EXTENDS Integers

CONSTANTS FlowKey, Endpoint, Port, IdleTimeout, None

VARIABLE binding

Bound == {k \in FlowKey : binding[k] # None}

Init == binding = [k \in FlowKey |-> None]

Bind(k, u, p) ==
  /\ k \notin Bound
  /\ \A j \in Bound : binding[j].snat # p
  /\ binding' = [binding EXCEPT ![k] =
       [key |-> k, up |-> u, snat |-> p, idle |-> 0]]

Refresh(k) ==
  /\ k \in Bound
  /\ binding' = [binding EXCEPT ![k].idle = 0]

Release(k) ==
  /\ k \in Bound
  /\ binding[k].idle = IdleTimeout
  /\ binding' = [binding EXCEPT ![k] = None]

Elapse(d) ==
  binding' = [k \in FlowKey |->
    IF k \notin Bound THEN None
    ELSE [binding[k] EXCEPT !.idle =
            IF @ + d < IdleTimeout THEN @ + d ELSE IdleTimeout]]

Next ==
  \/ \E k \in FlowKey, u \in Endpoint, p \in Port : Bind(k, u, p)
  \/ \E k \in FlowKey : Refresh(k) \/ Release(k)
  \/ \E d \in 0 .. IdleTimeout : Elapse(d)

Spec == Init /\ [][Next]_binding
=============================================================================
