------------------------------- MODULE Gateway -------------------------------
(***************************************************************************)
(* The worker (src/vgw.cpp): VioletGW::run with the packet handler, the    *)
(* ARP handler and the queues of packets that wait for a next-hop MAC.     *)
(* One thread runs it all; the steps of pc are the stages of one iteration *)
(* of the loop, which reads the clock once, at its top.                    *)
(*                                                                         *)
(* The netif behind recv_burst and send_burst, the wire and the mbuf pool  *)
(* are one set, outside: the mbufs the worker does not own.  What a        *)
(* received frame contains is chosen when the worker looks at it.          *)
(***************************************************************************)
EXTENDS Forwarder, ArpPending

CONSTANTS
  KeyIp,              \* client address of each flow
  EndpointIp,         \* address of each endpoint
  Multicast,          \* addresses from 224.0.0.0 on
  GatewayIp,
  VipIp,
  Source,             \* senders of ARP replies and of IPv4 frames not for us
  ExpireInterval,     \* SESSION_EXPIRE_INTERVAL_MS in model time units, as below
  ArpExpireInterval,  \* ARP_EXPIRE_INTERVAL_MS
  PollInterval,       \* CP_POLL_INTERVAL_MS
  MaxStep             \* longest iteration of the loop, a bound of the model

ASSUME GatewayAssumption ==
  /\ KeyIp \in [FlowKey -> Ip]
  /\ EndpointIp \in [Endpoint -> Ip]
  /\ Unset = {u \in Endpoint : EndpointIp[u] = NoIp}
  /\ {GatewayIp, VipIp} \cup Multicast \cup Source \subseteq Ip
  /\ {ExpireInterval, ArpExpireInterval, PollInterval, MaxStep} \subseteq Nat \ {0}
  /\ PendingTimeout <= IdleTimeout
  /\ MaxStep <= IdleTimeout
  /\ MaxAge >= EntryTimeout + ArpExpireInterval

VARIABLES
  pc,                  \* stage of the loop
  outside,             \* mbufs not owned by the worker
  rx,                  \* received mbufs still to be handled
  tx,                  \* the transmit batch
  drop,                \* mbufs to free at the end of the iteration
  arp_pending_,        \* held packets of each next hop
  arp_probe_last_ms_,  \* time since the last probe, nullptr if none
  since_expire,        \* time since last_expire_ms
  since_arp,           \* time since last_arp_expire_ms
  since_poll           \* time since last_cp_poll_ms

ioVars == <<outside, rx, tx, drop, arp_pending_, arp_probe_last_ms_>>
timerVars == <<since_expire, since_arp, since_poll>>
gatewayVars == <<l4Vars, entries_, pc, ioVars, timerVars>>

Stage == {"top", "sessions", "expiring", "arp", "poll", "recv", "burst"}

(* The headers of a packet after translation, with the flow it serves. *)
Header ==
  [dir : {"fwd"}, key : FlowKey, to : ReverseKey]
    \cup [dir : {"rev"}, key : FlowKey]
    \cup [dir : {"arp"}]

Held == [m : Mbuf, hdr : Header, age : 0 .. PendingTimeout]

GatewayTypeOK ==
  /\ TableTypeOK
  /\ UpstreamTypeOK
  /\ NeighborTypeOK
  /\ pc \in Stage
  /\ outside \subseteq Mbuf
  /\ rx \in Seq(Mbuf)
  /\ tx \in Seq([m : Mbuf, hdr : Header])
  /\ drop \subseteq Mbuf
  /\ arp_pending_ \in [Ip -> Seq(Held)]
  /\ \A ip \in Ip : Len(arp_pending_[ip]) <= PendingMax
  /\ arp_probe_last_ms_ \in [Ip -> (0 .. ProbeInterval) \cup {nullptr}]
  /\ since_expire \in 0 .. ExpireInterval
  /\ since_arp \in 0 .. ArpExpireInterval
  /\ since_poll \in 0 .. PollInterval
  /\ cursor # 0 <=> pc = "expiring"

(* The state that init leaves and run starts from. *)
GatewayInit ==
  /\ TableInit
  /\ \E c \in Config : nodes_ = c.endpoints /\ policy_ = c.policy
  /\ rr_counter_ = 0
  /\ NeighborInit
  /\ pc = "top"
  /\ outside = Mbuf
  /\ rx = <<>> /\ tx = <<>> /\ drop = {}
  /\ arp_pending_ = [ip \in Ip |-> <<>>]
  /\ arp_probe_last_ms_ = [ip \in Ip |-> nullptr]
  /\ since_expire = 0 /\ since_arp = 0 /\ since_poll = 0

-----------------------------------------------------------------------------
(* What the helpers of ArpPending work on. *)

Io == [tx |-> tx, pending |-> arp_pending_,
       probed |-> arp_probe_last_ms_, outside |-> outside]

(* ipv4_src_be on a translated packet. *)
Ipv4Src(hdr) == IF hdr.dir = "fwd" THEN GatewayIp ELSE VipIp

(* The batch, the queues and the pool become io. *)
Becomes(io) ==
  /\ tx' = io.tx
  /\ arp_pending_' = io.pending
  /\ arp_probe_last_ms_' = io.probed
  /\ outside' = io.outside

-----------------------------------------------------------------------------
(* One iteration of the packet loop: handle(rx[i]) and what follows it. *)

Handle(m) ==
  /\ pc = "burst"
  /\ Len(tx) <= Burst
  /\ rx # <<>>
  /\ m = Head(rx)
  /\ rx' = Tail(rx)
  /\ UNCHANGED <<pc, timerVars>>

Dropping(m, io) ==
  /\ Becomes(io)
  /\ drop' = drop \cup {m}

(* passive_learn_ipv4 on a frame from src. *)
PassiveLearn(src) ==
  entries_' = IF src = NoIp \/ src \in Multicast THEN entries_ ELSE Learned(src)

(* An ARP request for the VIP or the gateway is answered in place. *)
HandleArpRequest(m) ==
  /\ Handle(m)
  /\ Becomes(Transmit(Io, m, [dir |-> "arp"]))
  /\ UNCHANGED <<l4Vars, entries_, drop>>

(* An ARP reply from ip is learned, flushes the queue and is dropped. *)
HandleArpReply(m, ip) ==
  /\ Handle(m)
  /\ ip # NoIp
  /\ entries_' = Learned(ip)
  /\ Dropping(m, FlushPending(Io, ip))
  /\ UNCHANGED l4Vars

(* A frame that is neither IPv4 nor ARP that the handler accepts. *)
HandleOther(m) ==
  /\ Handle(m)
  /\ Dropping(m, Io)
  /\ UNCHANGED <<l4Vars, entries_>>

(* An IPv4 frame from src that fails to parse as UDP or is not for us. *)
HandleStray(m, src) ==
  /\ Handle(m)
  /\ PassiveLearn(src)
  /\ Dropping(m, FlushPending(Io, src))
  /\ UNCHANGED l4Vars

(* A UDP packet of flow k for the VIP.  learned_ip_be is the source that   *)
(* the packet has after handling: the gateway's once it is translated.     *)
HandleToVip(m, k) ==
  /\ Handle(m)
  /\ PassiveLearn(KeyIp[k])
  /\ \/ /\ HandleForward(k)
        /\ LET s == heap'[forward_'[k]]
               hdr == [dir |-> "fwd", key |-> k, to |-> Translation(s)]
           IN \E io \in Route(FlushPending(Io, Ipv4Src(hdr)), EndpointIp[s.up], m, hdr) :
                Becomes(io)
        /\ UNCHANGED drop
     \/ /\ ForwardDrop(k)
        /\ Dropping(m, FlushPending(Io, KeyIp[k]))

(* A UDP packet from upstream r[1] for the gateway's port r[2]. *)
HandleToGateway(m, r) ==
  /\ Handle(m)
  /\ PassiveLearn(EndpointIp[r[1]])
  /\ \/ /\ HandleReverse(r)
        /\ LET k == Restored(heap[reverse_[r]])
               hdr == [dir |-> "rev", key |-> k]
           IN \E io \in Route(FlushPending(Io, Ipv4Src(hdr)), KeyIp[k], m, hdr) :
                Becomes(io)
        /\ UNCHANGED drop
     \/ /\ ReverseDrop(r)
        /\ Dropping(m, FlushPending(Io, EndpointIp[r[1]]))

(* The batch goes to send_burst, whose remainder is freed, and the dropped *)
(* mbufs are freed.                                                        *)
SendBurst ==
  /\ pc = "burst"
  /\ Len(tx) <= Burst
  /\ rx = <<>>
  /\ outside' = outside \cup Mbufs(tx) \cup drop
  /\ tx' = <<>>
  /\ drop' = {}
  /\ pc' = "top"
  /\ UNCHANGED <<l4Vars, entries_, rx, arp_pending_, arp_probe_last_ms_, timerVars>>

(* run has written past the end of tx[kBurst].  What the process does from *)
(* here on is undefined, and the model ends.                               *)
Overrun == Len(tx) > Burst /\ UNCHANGED gatewayVars

-----------------------------------------------------------------------------
(* The stages before the packet loop. *)

(* now is read, d after the last iteration read it. *)
Top(d) ==
  /\ pc = "top"
  /\ IdleFor(d)
  /\ entries_' = Aged(d)
  /\ Becomes(Waited(Io, d))
  /\ since_expire' = Later(since_expire, d, ExpireInterval)
  /\ since_arp' = Later(since_arp, d, ArpExpireInterval)
  /\ since_poll' = Later(since_poll, d, PollInterval)
  /\ pc' = "sessions"
  /\ UNCHANGED <<upstreamVars, rx, drop>>

(* expire_sessions, when due. *)
Sessions ==
  /\ pc = "sessions"
  /\ IF since_expire >= ExpireInterval
       THEN ExpireBegin /\ since_expire' = 0 /\ pc' = "expiring"
       ELSE pc' = "arp" /\ UNCHANGED <<tableVars, since_expire>>
  /\ UNCHANGED <<upstreamVars, entries_, ioVars, since_arp, since_poll>>

Expiring ==
  /\ pc = "expiring"
  /\ ExpireLoop
  /\ pc' = IF cursor' = 0 THEN "arp" ELSE "expiring"
  /\ UNCHANGED <<upstreamVars, entries_, ioVars, timerVars>>

(* expire_neighbors and expire_pending, when due. *)
ExpireArp ==
  /\ pc = "arp"
  /\ IF since_arp >= ArpExpireInterval
       THEN entries_' = Unexpired /\ Becomes(ExpirePending(Io)) /\ since_arp' = 0
       ELSE Becomes(Io) /\ UNCHANGED <<entries_, since_arp>>
  /\ pc' = "poll"
  /\ UNCHANGED <<l4Vars, rx, drop, since_expire, since_poll>>

(* poll_control, when due: a new configuration is applied, or there is     *)
(* none.                                                                   *)
Poll ==
  /\ pc = "poll"
  /\ IF since_poll >= PollInterval
       THEN /\ \/ \E c \in Config : Set(c.policy, c.endpoints)
               \/ UNCHANGED upstreamVars
            /\ since_poll' = 0
       ELSE UNCHANGED <<upstreamVars, since_poll>>
  /\ pc' = "recv"
  /\ UNCHANGED <<tableVars, entries_, ioVars, since_expire, since_arp>>

(* recv_burst returns the mbufs of burst, or none. *)
Recv(burst) ==
  /\ pc = "recv"
  /\ rx' = burst
  /\ outside' = outside \ {burst[i] : i \in 1 .. Len(burst)}
  /\ pc' = IF burst = <<>> THEN "top" ELSE "burst"
  /\ UNCHANGED <<l4Vars, entries_, tx, drop, arp_pending_, arp_probe_last_ms_, timerVars>>

(* The bursts that recv_burst may return. *)
Bursts ==
  {b \in UNION {[1 .. n -> outside] : n \in 0 .. Burst} :
     \A i, j \in 1 .. Len(b) : b[i] = b[j] => i = j}

Packet ==
  \E m \in Mbuf :
    \/ HandleArpRequest(m)
    \/ \E ip \in Source : HandleArpReply(m, ip)
    \/ HandleOther(m)
    \/ \E src \in Source : HandleStray(m, src)
    \/ \E k \in FlowKey : HandleToVip(m, k)
    \/ \E r \in ReverseKey : HandleToGateway(m, r)

GatewayNext ==
  \/ \E d \in 0 .. MaxStep : Top(d)
  \/ Sessions
  \/ Expiring
  \/ ExpireArp
  \/ Poll
  \/ \E b \in Bursts : Recv(b)
  \/ Packet
  \/ SendBurst
  \/ Overrun

GatewaySpec == GatewayInit /\ [][GatewayNext]_gatewayVars

(* The worker keeps running and the clock keeps advancing. *)
Fairness ==
  /\ WF_gatewayVars(GatewayNext)
  /\ SF_gatewayVars(\E d \in 1 .. MaxStep : Top(d))

FairGatewaySpec == GatewaySpec /\ Fairness

-----------------------------------------------------------------------------
(* Properties *)

(* The places of an mbuf in the received burst, the batch and the queues. *)
Queued(m) ==
  {<<"rx", i>> : i \in {j \in 1 .. Len(rx) : rx[j] = m}}
    \cup {<<"tx", i>> : i \in {j \in 1 .. Len(tx) : tx[j].m = m}}
    \cup UNION {{<<ip, i>> : i \in {j \in 1 .. Len(arp_pending_[ip]) :
                                     arp_pending_[ip][j].m = m}} : ip \in Ip}

(* No mbuf is in two places: outside, received, in the transmit batch, to  *)
(* be freed, or held.  And none is lost, whichever of flush_pending,       *)
(* enqueue_pending, expire_pending and the packet loop last moved it, if   *)
(* no client has address 0.0.0.0: enqueue_pending leaves a reply to it     *)
(* where nothing transmits or frees it.                                    *)
MbufOwnership ==
  \A m \in Mbuf :
    LET owners == Cardinality(Queued(m)) + (IF m \in drop THEN 1 ELSE 0)
                    + (IF m \in outside THEN 1 ELSE 0)
    IN owners \in {0, 1} /\ (owners = 0 => \E k \in FlowKey : KeyIp[k] = NoIp)

(* A packet translated toward an upstream is transmitted only while the    *)
(* session that translated it exists, so the answer finds its way back:    *)
(* also when it was held for a MAC, and its session was meanwhile idle.    *)
TxOwned ==
  \A i \in 1 .. Len(tx) :
    tx[i].hdr.dir = "fwd" =>
      /\ reverse_[tx[i].hdr.to] # nullptr
      /\ heap[reverse_[tx[i].hdr.to]].key = tx[i].hdr.key

(* An mbuf that the worker takes is given back in the end: a held packet   *)
(* is transmitted, or freed by flush_pending or expire_pending, even if    *)
(* its next hop never answers.                                             *)
Released == \A m \in Mbuf : m \notin outside ~> m \in outside

(* The places of a held packet in the batch after the step. *)
SentAt(e) == {n \in 1 .. Len(tx') : tx'[n].m = e.m /\ tx'[n].hdr = e.hdr}

(* Packets held for one next hop never overtake one another: when a flush  *)
(* puts one into the batch, those that were held before it are ahead of it *)
(* in the batch or freed, never still held.  flush_pending may find room   *)
(* for a part of the queue only, and splits it around expired entries.     *)
HeldInOrder ==
  \A ip \in Ip : \A i, j \in 1 .. Len(arp_pending_[ip]) :
    i < j /\ SentAt(arp_pending_[ip][j]) # {} =>
      /\ arp_pending_[ip][i].m \notin Mbufs(arp_pending_'[ip])
      /\ \A a \in SentAt(arp_pending_[ip][i]), b \in SentAt(arp_pending_[ip][j]) : a < b

HeldFifo == [][HeldInOrder]_gatewayVars

(* lookup has no age check, but when packets are handled expire_neighbors  *)
(* has run less than ArpExpireInterval ago, and every dynamic entry was    *)
(* younger than EntryTimeout then or was learned since: no next hop is     *)
(* used that was last confirmed EntryTimeout plus ArpExpireInterval ago,   *)
(* however long the iterations of the loop are.                            *)
NeighborFresh ==
  pc \in {"poll", "recv", "burst"} =>
    /\ since_arp < ArpExpireInterval
    /\ \A ip \in Ip :
         entries_[ip] # nullptr /\ ~entries_[ip].is_static =>
           entries_[ip].age < EntryTimeout + since_arp

(* n_tx stays within tx[kBurst] (vgw.cpp:378). *)
TxWithinBatch == Len(tx) <= Burst

(* "hold until neighbor MAC is resolved" (forward.hpp): at the top of the  *)
(* loop no packet is held for a next hop whose MAC is known.               *)
HeldOnlyUnresolved ==
  pc = "top" =>
    \A ip \in Ip : entries_[ip] # nullptr => arp_pending_[ip] = <<>>
=============================================================================
