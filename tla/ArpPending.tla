----------------------------- MODULE ArpPending -----------------------------
(***************************************************************************)
(* The transmit batch of the worker and the queues of packets that wait    *)
(* for a next-hop MAC (src/vgw.cpp: enqueue_pending, maybe_probe_arp,      *)
(* flush_pending and expire_pending, and the ends of handle_forward and    *)
(* handle_reverse, which decide between the two).                          *)
(*                                                                         *)
(* Each helper is an operator that maps what it changes to what it leaves: *)
(* a record io of the batch tx, the queues pending, the times probed since *)
(* the last probe of each address, and the mbufs outside, which the worker *)
(* does not own.  What the headers of a packet are does not matter here,   *)
(* except that a probe has dir "arp".                                      *)
(***************************************************************************)
EXTENDS NeighborTable, Sequences, FiniteSets

CONSTANTS
  NoIp,            \* 0.0.0.0
  Mbuf,
  Burst,           \* kBurst
  PendingMax,      \* ARP_PENDING_MAX_PER_IP
  PendingTimeout,  \* ARP_PENDING_TIMEOUT_MS in model time units, as below
  ProbeInterval    \* ARP_PROBE_INTERVAL_MS

ASSUME ArpPendingAssumption ==
  /\ NoIp \in Ip
  /\ {Burst, PendingMax, PendingTimeout, ProbeInterval} \subseteq Nat \ {0}

-----------------------------------------------------------------------------
(* The helpers of run that fill the transmit batch and the queues. *)

Transmit(io, m, hdr) == [io EXCEPT !.tx = Append(@, [m |-> m, hdr |-> hdr])]

(* lookup_next_hop_mac(ip), in the neighbor table after passive learning. *)
NextHopMac(ip) == Lookup(entries_', ip)

(* finish_l2 on a packet held for ip.  The packet parsed before it was     *)
(* held, so only the MAC can be missing.                                   *)
FinishL2(ip) == NextHopMac(ip)

(* The mbufs that make_request may allocate. *)
MakeRequest(io) == io.outside

Min2(a, b) == IF a < b THEN a ELSE b

Mbufs(q) == {q[i].m : i \in 1 .. Len(q)}

(* The elements of q at the positions of S, in their order. *)
Subsequence(q, S) ==
  LET nth(n) == CHOOSE i \in S : Cardinality({j \in S : j < i}) = n - 1
  IN [n \in 1 .. Cardinality(S) |-> q[nth(n)]]

(* The positions of a queue whose packets were held too long, and what the *)
(* loops over a queue make of the others and of these.                     *)
Expired(q) == {i \in 1 .. Len(q) : q[i].age >= PendingTimeout}
Ready(q) == Subsequence(q, (1 .. Len(q)) \ Expired(q))
TimedOut(q) == {q[i].m : i \in Expired(q)}

FlushKeepsSent(io, ip) ==
  LET q == io.pending[ip]
      n == IF ~FinishL2(ip) \/ Len(io.tx) >= Burst THEN 0
           ELSE Min2(Len(q), Burst - Len(io.tx))
  IN [io EXCEPT !.tx = @ \o [i \in 1 .. n |-> [m |-> q[i].m, hdr |-> q[i].hdr]]]

FlushIgnoresTimeout(io, ip) ==
  LET q == io.pending[ip]
      n == IF ~FinishL2(ip) \/ Len(io.tx) >= Burst THEN 0
           ELSE Min2(Len(q), Burst - Len(io.tx))
  IN [io EXCEPT
       !.tx = @ \o [i \in 1 .. n |-> [m |-> q[i].m, hdr |-> q[i].hdr]],
       !.pending[ip] = SubSeq(q, n + 1, Len(q))]

FlushNewestFirst(io, ip) ==
  LET ready == Ready(io.pending[ip])
      n == IF ~FinishL2(ip) \/ Len(io.tx) >= Burst THEN 0
           ELSE Min2(Len(ready), Burst - Len(io.tx))
      last(i) == ready[Len(ready) - i + 1]
  IN IF ip = NoIp THEN io
     ELSE [io EXCEPT
            !.tx = @ \o [i \in 1 .. n |-> [m |-> last(i).m, hdr |-> last(i).hdr]],
            !.pending[ip] = SubSeq(ready, 1, Len(ready) - n),
            !.outside = @ \cup TimedOut(io.pending[ip])]

(* flush_pending(ip): frees the packets held too long and transmits the    *)
(* others in order, as many as the batch has room for, if finish_l2 finds  *)
(* the MAC.                                                                *)
FlushPending(io, ip) ==
  LET ready == Ready(io.pending[ip])
      n == IF ~FinishL2(ip) \/ Len(io.tx) >= Burst THEN 0
           ELSE Min2(Len(ready), Burst - Len(io.tx))
  IN IF ip = NoIp THEN io
     ELSE [io EXCEPT
            !.tx = @ \o [i \in 1 .. n |-> [m |-> ready[i].m, hdr |-> ready[i].hdr]],
            !.pending[ip] = SubSeq(ready, n + 1, Len(ready)),
            !.outside = @ \cup TimedOut(io.pending[ip])]

EnqueueOverLimit(io, ip, m, hdr) ==
  IF ip = NoIp THEN io
  ELSE IF Len(io.pending[ip]) > PendingMax
    THEN [io EXCEPT !.outside = @ \cup {m}]
    ELSE [io EXCEPT !.pending[ip] = Append(@, [m |-> m, hdr |-> hdr, age |-> 0])]

(* enqueue_pending(ip, m). *)
EnqueuePending(io, ip, m, hdr) ==
  IF ip = NoIp THEN io
  ELSE IF Len(io.pending[ip]) >= PendingMax
    THEN [io EXCEPT !.outside = @ \cup {m}]
    ELSE [io EXCEPT !.pending[ip] = Append(@, [m |-> m, hdr |-> hdr, age |-> 0])]

(* maybe_probe_arp(ip): the outcomes, since make_request may fail. *)
MaybeProbeArp(io, ip) ==
  LET recent == io.probed[ip] # nullptr /\ io.probed[ip] < ProbeInterval
  IN IF ip = NoIp \/ recent \/ Len(io.tx) >= Burst THEN {io}
     ELSE {io} \cup
       {[Transmit(io, b, [dir |-> "arp"]) EXCEPT
           !.outside = @ \ {b}, !.probed[ip] = 0] : b \in MakeRequest(io)}

(* The end of handle_forward and handle_reverse, and what run does with    *)
(* the outcome: transmit, or hold until the next hop's MAC is known.       *)
Route(io, hop, m, hdr) ==
  IF NextHopMac(hop)
    THEN {Transmit(io, m, hdr)}
    ELSE MaybeProbeArp(EnqueuePending(io, hop, m, hdr), hop)

KeepPending(io) == io

(* expire_pending(). *)
ExpirePending(io) ==
  [io EXCEPT
    !.pending = [ip \in Ip |-> Ready(io.pending[ip])],
    !.outside = @ \cup UNION {TimedOut(io.pending[ip]) : ip \in Ip}]

Later(t, d, cap) == Min2(t + d, cap)

(* The queues and the times of the probes when now is d later. *)
Waited(io, d) ==
  [io EXCEPT
    !.pending = [ip \in Ip |-> [i \in 1 .. Len(io.pending[ip]) |->
       [io.pending[ip][i] EXCEPT !.age = Later(@, d, PendingTimeout)]]],
    !.probed = [ip \in Ip |->
       IF io.probed[ip] = nullptr THEN nullptr
       ELSE Later(io.probed[ip], d, ProbeInterval)]]
=============================================================================
