--------------------------- MODULE ForwarderProofs ---------------------------
(***************************************************************************)
(* Proofs about what the forwarder, and the worker that calls it, do to    *)
(* session table, upstream list and neighbor cache, for every set of flows *)
(* and addresses and every choice of the timers: the worker uses the       *)
(* session table as specified, so the theorems about the table carry over  *)
(* to it; no neighbor entry is used for longer than the two intervals      *)
(* allow; replies reach the flow they answer, and active flows keep their  *)
(* translation.                                                            *)
(***************************************************************************)
EXTENDS Gateway, FlowHistory, SessionTableProofs

(* How long a prover may try a step. *)
USE SMTT(20), ZenonT(20), Z3T(20)

(* The timers and timeouts are positive numbers. *)
LEMMA TimerFacts ==
  /\ MaxStep \in Nat /\ MaxStep <= IdleTimeout /\ IdleTimeout \in Nat
  /\ ArpExpireInterval \in Nat \ {0} /\ EntryTimeout \in Nat \ {0}
  /\ MaxAge \in Nat /\ MaxAge >= EntryTimeout + ArpExpireInterval
BY GatewayAssumption, NeighborAssumption, SessionTableAssumption

-----------------------------------------------------------------------------
(* The worker and the session table *)

(* What handle_forward does to the table for a packet that it translates. *)
LEMMA ForwardCallsTable ==
  ASSUME NEW k \in FlowKey, HandleForward(k)
  PROVE  TableNext
<1>1. CASE ForwardHit(k)
  BY <1>1 DEF ForwardHit, TableNext
<1>2. ASSUME NEW u \in Endpoint, ForwardNew(k, u)
      PROVE  TableNext
  BY <1>2 DEF ForwardNew, TableNext
<1> QED
  BY <1>1, <1>2 DEF HandleForward

(* What it does for a packet that it drops. *)
LEMMA ForwardDropCallsTable ==
  ASSUME NEW k \in FlowKey, ForwardDrop(k)
  PROVE  [TableNext]_tableVars
BY DEF ForwardDrop, TableNext

(* Handling a packet is a step of the table or leaves it alone. *)
LEMMA PacketCallsTable ==
  ASSUME Packet
  PROVE  [TableNext]_tableVars
<1>1. ASSUME NEW n \in Mbuf, NEW k \in FlowKey, HandleToVip(n, k)
      PROVE  [TableNext]_tableVars
  BY <1>1, ForwardCallsTable, ForwardDropCallsTable DEF HandleToVip
<1>2. ASSUME NEW n \in Mbuf, NEW r \in ReverseKey, HandleToGateway(n, r)
      PROVE  [TableNext]_tableVars
  <2>1. CASE HandleReverse(r)
    BY <2>1 DEF HandleReverse, TableNext
  <2>2. CASE ReverseDrop(r)
    BY <2>2 DEF ReverseDrop, l4Vars
  <2> QED
    BY <1>2, <2>1, <2>2 DEF HandleToGateway
<1>3. ASSUME NEW n \in Mbuf, HandleArpRequest(n) \/ HandleOther(n)
      PROVE  UNCHANGED tableVars
  BY <1>3 DEF HandleArpRequest, HandleOther, l4Vars
<1>4. ASSUME NEW n \in Mbuf, NEW ip \in Source, HandleArpReply(n, ip) \/ HandleStray(n, ip)
      PROVE  UNCHANGED tableVars
  BY <1>4 DEF HandleArpReply, HandleStray, l4Vars
<1> QED
  BY <1>1, <1>2, <1>3, <1>4 DEF Packet

(* Every step of the worker is a step of the table or leaves it alone. *)
LEMMA WorkerCallsTable == [GatewayNext]_gatewayVars => [TableNext]_tableVars
<1> SUFFICES ASSUME [GatewayNext]_gatewayVars
             PROVE  [TableNext]_tableVars
  OBVIOUS
<1>1. ASSUME NEW d \in 0 .. MaxStep, Top(d)
      PROVE  TableNext
  <2>1. d \in 0 .. IdleTimeout
    BY TimerFacts
  <2> QED
    BY <1>1, <2>1 DEF Top, TableNext
<1>2. CASE Sessions
  BY <1>2 DEF Sessions, TableNext
<1>3. CASE Expiring
  BY <1>3 DEF Expiring, TableNext
<1>4. CASE ExpireArp
  BY <1>4 DEF ExpireArp, l4Vars
<1>5. CASE Poll
  BY <1>5 DEF Poll
<1>6. ASSUME NEW b \in Bursts, Recv(b)
      PROVE  UNCHANGED tableVars
  BY <1>6 DEF Recv, l4Vars
<1>7. CASE Packet
  BY <1>7, PacketCallsTable DEF Packet
<1>8. CASE SendBurst
  BY <1>8 DEF SendBurst, l4Vars
<1>9. CASE UNCHANGED gatewayVars
  BY <1>9 DEF gatewayVars, l4Vars
<1> QED
  BY <1>1, <1>2, <1>3, <1>4, <1>5, <1>6, <1>7, <1>8, <1>9 DEF GatewayNext, Overrun

(* Every behaviour of the worker is one of the session table, so what is   *)
(* proved of the table holds in the gateway.                               *)
LEMMA GatewayTable == GatewaySpec => TableSpec
<1>1. GatewayInit => TableInit
  BY DEF GatewayInit
<1> QED
  BY <1>1, WorkerCallsTable, PTL DEF GatewaySpec, TableSpec

(* In the running gateway no lookup returns a deleted session. *)
THEOREM GatewayMapsAgree == GatewaySpec => []MapsAgree
BY GatewayTable, TableMapsAgree

(* In the running gateway no two sessions share a SNAT port. *)
THEOREM GatewayPortsExclusive == GatewaySpec => []PortsExclusive
BY GatewayTable, TablePortsExclusive

(* In the running gateway a flow is refused for lack of a port only when   *)
(* every port of the range is held.                                        *)
THEOREM GatewayFailsOnlyExhausted == GatewaySpec => []FailsOnlyExhausted
BY GatewayTable, TableFailsOnlyExhausted

-----------------------------------------------------------------------------
(* The age of neighbor entries *)

(* The dynamic entries are younger than EntryTimeout was at the last run   *)
(* of expire_neighbors.                                                    *)
Young ==
  \A ip \in Ip :
    entries_[ip] # nullptr /\ ~entries_[ip].is_static =>
      entries_[ip].age < EntryTimeout + since_arp

(* The inductive invariant: between Top and ExpireArp the interval may     *)
(* have run out, and then nothing is known until ExpireArp has run.        *)
NeighborInv ==
  /\ NeighborTypeOK
  /\ since_arp \in 0 .. ArpExpireInterval
  /\ pc \notin {"sessions", "expiring", "arp"} => since_arp < ArpExpireInterval
  /\ since_arp < ArpExpireInterval => Young

(* Learning an address keeps the entries young. *)
LEMMA LearnedYoung ==
  ASSUME NeighborInv, NEW ip \in Ip, entries_' = Learned(ip), since_arp' = since_arp
  PROVE  /\ NeighborTypeOK'
         /\ since_arp < ArpExpireInterval => Young'
<1>1. CASE entries_' = entries_
  BY <1>1 DEF NeighborInv, NeighborTypeOK, Young
<1>2. CASE entries_' = [entries_ EXCEPT ![ip] = [is_static |-> FALSE, age |-> 0]]
  <2>1. [is_static |-> FALSE, age |-> 0] \in Entry
    BY TimerFacts DEF Entry
  <2>2. NeighborTypeOK'
    BY <1>2, <2>1 DEF NeighborInv, NeighborTypeOK
  <2>3. 0 < EntryTimeout + since_arp
    BY TimerFacts DEF NeighborInv
  <2>4. \A q \in Ip : entries_'[q] = IF q = ip THEN [is_static |-> FALSE, age |-> 0]
                                     ELSE entries_[q]
    BY <1>2 DEF NeighborInv, NeighborTypeOK
  <2> QED
    BY <2>2, <2>3, <2>4 DEF NeighborInv, Young
<1> QED
  BY <1>1, <1>2 DEF Learned

(* The clock advances by d: entries age no faster than the interval runs.  *)
LEMMA AgedYoung ==
  ASSUME NeighborInv, pc = "top", NEW d \in 0 .. MaxStep, Top(d)
  PROVE  NeighborInv'
<1>1. /\ since_arp \in Nat /\ since_arp < ArpExpireInterval /\ d \in Nat
      /\ since_arp' = IF since_arp + d < ArpExpireInterval
                        THEN since_arp + d ELSE ArpExpireInterval
      /\ pc' = "sessions"
  BY TimerFacts DEF NeighborInv, Top, Later, Min2
<1>2. \A ip \in Ip :
        /\ entries_[ip] = nullptr \/ entries_[ip].is_static => entries_'[ip] = entries_[ip]
        /\ ~(entries_[ip] = nullptr \/ entries_[ip].is_static) =>
             entries_'[ip] = [entries_[ip] EXCEPT !.age =
               IF entries_[ip].age + d < MaxAge THEN entries_[ip].age + d ELSE MaxAge]
  BY DEF Top, Aged
<1>3. ASSUME NEW ip \in Ip
      PROVE  /\ entries_'[ip] \in Entry \cup {nullptr}
             /\ entries_'[ip] # nullptr /\ ~entries_'[ip].is_static =>
                  entries_'[ip].age < EntryTimeout + since_arp + d
  <2>1. CASE entries_[ip] = nullptr \/ entries_[ip].is_static
    BY <1>2, <2>1, ZenonT(20) DEF NeighborInv, NeighborTypeOK
  <2>2. CASE ~(entries_[ip] = nullptr \/ entries_[ip].is_static)
    <3>1. entries_[ip] \in Entry /\ entries_[ip].age < EntryTimeout + since_arp
      BY <1>1, <2>2 DEF NeighborInv, NeighborTypeOK, Young
    <3>2. /\ entries_[ip].age \in 0 .. MaxAge
          /\ entries_'[ip] = [entries_[ip] EXCEPT !.age =
               IF entries_[ip].age + d < MaxAge THEN entries_[ip].age + d ELSE MaxAge]
      BY <1>2, <2>2, <3>1 DEF Entry
    <3>3. entries_'[ip] \in Entry
      BY <1>1, <3>1, <3>2, TimerFacts DEF Entry
    <3>4. entries_'[ip].age <= entries_[ip].age + d
      BY <1>1, <3>1, <3>2, TimerFacts DEF Entry
    <3>5. entries_'[ip].age \in Nat
      BY <3>3, TimerFacts DEF Entry
    <3> QED
      BY <1>1, <3>1, <3>2, <3>3, <3>4, <3>5, TimerFacts
  <2> QED
    BY <2>1, <2>2
<1>4. NeighborTypeOK'
  <2>1. entries_' = [ip \in Ip |-> entries_'[ip]]
    BY DEF Top, Aged
  <2> QED
    BY <1>3, <2>1 DEF NeighborTypeOK
<1>5. since_arp' < ArpExpireInterval => Young'
  <2>1. since_arp' < ArpExpireInterval => since_arp' = since_arp + d
    BY <1>1, TimerFacts
  <2> QED
    BY <1>1, <1>3, <2>1, TimerFacts DEF Young
<1> QED
  BY <1>1, <1>4, <1>5, TimerFacts DEF NeighborInv

(* expire_neighbors leaves only entries younger than EntryTimeout. *)
LEMMA UnexpiredYoung ==
  ASSUME NeighborInv, entries_' = Unexpired, since_arp' = 0
  PROVE  NeighborTypeOK' /\ Young'
<1>1. \A ip \in Ip :
        entries_'[ip] = IF /\ entries_[ip] # nullptr
                           /\ ~entries_[ip].is_static
                           /\ entries_[ip].age >= EntryTimeout
                          THEN nullptr ELSE entries_[ip]
  BY DEF Unexpired
<1>2. NeighborTypeOK'
  BY DEF NeighborInv, NeighborTypeOK, Unexpired
<1>3. ASSUME NEW ip \in Ip, entries_'[ip] # nullptr, ~entries_'[ip].is_static
      PROVE  entries_'[ip].age < EntryTimeout + since_arp'
  <2>1. /\ entries_'[ip] = entries_[ip] /\ entries_[ip] \in Entry
        /\ ~(entries_[ip].age >= EntryTimeout)
    BY <1>1, <1>3 DEF NeighborInv, NeighborTypeOK
  <2> QED
    BY <2>1, TimerFacts DEF Entry
<1> QED
  BY <1>2, <1>3 DEF Young

(* Handling a packet leaves the clock alone and may learn its sender. *)
LEMMA PacketLearns ==
  ASSUME Packet
  PROVE  /\ pc = "burst" /\ pc' = "burst" /\ since_arp' = since_arp
         /\ entries_' = entries_ \/ \E ip \in Ip : entries_' = Learned(ip)
<1>1. \A k \in FlowKey : KeyIp[k] \in Ip
  BY GatewayAssumption
<1>2. \A r \in ReverseKey : EndpointIp[r[1]] \in Ip
  BY GatewayAssumption DEF ReverseKey
<1>3. Source \subseteq Ip
  BY GatewayAssumption
<1>4. ASSUME NEW m \in Mbuf, Handle(m)
      PROVE  pc = "burst" /\ pc' = "burst" /\ since_arp' = since_arp
  BY <1>4 DEF Handle, timerVars
<1>5. ASSUME NEW ip \in Ip, PassiveLearn(ip)
      PROVE  entries_' = entries_ \/ \E q \in Ip : entries_' = Learned(q)
  BY <1>5 DEF PassiveLearn
<1>6. PICK m \in Mbuf :
        \/ HandleArpRequest(m)
        \/ \E ip \in Source : HandleArpReply(m, ip)
        \/ HandleOther(m)
        \/ \E src \in Source : HandleStray(m, src)
        \/ \E k \in FlowKey : HandleToVip(m, k)
        \/ \E r \in ReverseKey : HandleToGateway(m, r)
  BY DEF Packet
<1>7. Handle(m)
  BY <1>6, ZenonT(20) DEF HandleArpRequest, HandleArpReply, HandleOther, HandleStray,
              HandleToVip, HandleToGateway
<1>8. entries_' = entries_ \/ \E ip \in Ip : entries_' = Learned(ip)
  <2>1. CASE HandleArpRequest(m) \/ HandleOther(m)
    BY <2>1 DEF HandleArpRequest, HandleOther
  <2>2. ASSUME NEW ip \in Source, HandleArpReply(m, ip)
        PROVE  \E q \in Ip : entries_' = Learned(q)
    BY <1>3, <2>2 DEF HandleArpReply
  <2>3. ASSUME NEW src \in Source, HandleStray(m, src)
        PROVE  entries_' = entries_ \/ \E q \in Ip : entries_' = Learned(q)
    BY <1>3, <1>5, <2>3 DEF HandleStray
  <2>4. ASSUME NEW k \in FlowKey, HandleToVip(m, k)
        PROVE  entries_' = entries_ \/ \E q \in Ip : entries_' = Learned(q)
    BY <1>1, <1>5, <2>4 DEF HandleToVip
  <2>5. ASSUME NEW r \in ReverseKey, HandleToGateway(m, r)
        PROVE  entries_' = entries_ \/ \E q \in Ip : entries_' = Learned(q)
    BY <1>2, <1>5, <2>5, ZenonT(20) DEF HandleToGateway
  <2> QED
    BY <1>6, <2>1, <2>2, <2>3, <2>4, <2>5
<1> QED
  BY <1>4, <1>7, <1>8

(* The worker starts with static entries only and fresh timers. *)
LEMMA NeighborInvInit == GatewayInit => NeighborInv
<1> SUFFICES ASSUME GatewayInit
             PROVE  NeighborInv
  OBVIOUS
<1>1. since_arp = 0 /\ pc = "top" /\ 0 < ArpExpireInterval /\ 0 \in 0 .. ArpExpireInterval
  BY TimerFacts DEF GatewayInit
<1>2. [is_static |-> TRUE, age |-> 0] \in Entry
  BY TimerFacts DEF Entry
<1>3. NeighborTypeOK
  BY <1>2 DEF GatewayInit, NeighborInit, NeighborTypeOK
<1>4. \A ip \in Ip : entries_[ip] # nullptr => entries_[ip].is_static
  BY DEF GatewayInit, NeighborInit
<1> QED
  BY <1>1, <1>3, <1>4 DEF NeighborInv, Young

(* Every step of the worker preserves the invariant. *)
LEMMA NeighborInvNext == NeighborInv /\ [GatewayNext]_gatewayVars => NeighborInv'
<1> SUFFICES ASSUME NeighborInv, [GatewayNext]_gatewayVars
             PROVE  NeighborInv'
  OBVIOUS
<1>0. ASSUME UNCHANGED <<entries_, since_arp>>,
             pc' \notin {"sessions", "expiring", "arp"} => since_arp < ArpExpireInterval
      PROVE  NeighborInv'
  BY <1>0 DEF NeighborInv, NeighborTypeOK, Young
<1>1. ASSUME NEW d \in 0 .. MaxStep, Top(d)
      PROVE  NeighborInv'
  BY <1>1, AgedYoung DEF Top
<1>2. CASE Sessions
  <2>1. pc' \in {"expiring", "arp"} /\ UNCHANGED <<entries_, since_arp>>
    BY <1>2 DEF Sessions
  <2> QED
    BY <1>0, <2>1
<1>3. CASE Expiring
  <2>1. pc' \in {"expiring", "arp"} /\ UNCHANGED <<entries_, since_arp>>
    BY <1>3 DEF Expiring, timerVars
  <2> QED
    BY <1>0, <2>1
<1>4. CASE ExpireArp
  <2>1. CASE since_arp >= ArpExpireInterval
    <3>1. entries_' = Unexpired /\ since_arp' = 0 /\ pc' = "poll"
      BY <1>4, <2>1 DEF ExpireArp
    <3> QED
      BY <3>1, UnexpiredYoung, TimerFacts DEF NeighborInv
  <2>2. CASE ~(since_arp >= ArpExpireInterval)
    <3>1. UNCHANGED <<entries_, since_arp>>
      BY <1>4, <2>2 DEF ExpireArp
    <3>2. since_arp < ArpExpireInterval
      BY <2>2, TimerFacts DEF NeighborInv
    <3> QED
      BY <1>0, <3>1, <3>2
  <2> QED
    BY <2>1, <2>2
<1>5. CASE Poll
  <2>1. pc = "poll" /\ UNCHANGED <<entries_, since_arp>>
    BY <1>5 DEF Poll
  <2> QED
    BY <1>0, <2>1 DEF NeighborInv
<1>6. ASSUME NEW b \in Bursts, Recv(b)
      PROVE  NeighborInv'
  <2>1. pc = "recv" /\ UNCHANGED <<entries_, since_arp>>
    BY <1>6 DEF Recv, timerVars
  <2> QED
    BY <1>0, <2>1 DEF NeighborInv
<1>7. CASE Packet
  <2>1. /\ pc = "burst" /\ pc' = "burst" /\ since_arp' = since_arp
        /\ entries_' = entries_ \/ \E ip \in Ip : entries_' = Learned(ip)
    BY <1>7, PacketLearns
  <2>2. since_arp < ArpExpireInterval
    BY <2>1 DEF NeighborInv
  <2>3. CASE entries_' = entries_
    BY <1>0, <2>1, <2>2, <2>3
  <2>4. ASSUME NEW ip \in Ip, entries_' = Learned(ip)
        PROVE  NeighborInv'
    BY <2>1, <2>2, <2>4, LearnedYoung DEF NeighborInv
  <2> QED
    BY <2>1, <2>3, <2>4
<1>8. CASE SendBurst
  <2>1. pc = "burst" /\ UNCHANGED <<entries_, since_arp>>
    BY <1>8 DEF SendBurst, timerVars
  <2> QED
    BY <1>0, <2>1 DEF NeighborInv
<1>9. CASE UNCHANGED gatewayVars
  <2>1. UNCHANGED <<entries_, since_arp, pc>>
    BY <1>9 DEF gatewayVars, timerVars
  <2> QED
    BY <1>0, <2>1 DEF NeighborInv
<1> QED
  BY <1>1, <1>2, <1>3, <1>4, <1>5, <1>6, <1>7, <1>8, <1>9 DEF GatewayNext, Overrun

(* No next hop is used whose MAC was last confirmed EntryTimeout plus      *)
(* ArpExpireInterval ago, for every choice of the timers and however long  *)
(* the iterations of the worker's loop are.                                *)
THEOREM GatewayNeighborFresh == GatewaySpec => []NeighborFresh
<1>1. NeighborInv => NeighborFresh
  BY DEF NeighborInv, NeighborFresh, Young
<1> QED
  BY <1>1, NeighborInvInit, NeighborInvNext, PTL DEF GatewaySpec
-----------------------------------------------------------------------------
(* What a packet does to the session table and the upstream list *)

(* pick keeps the types of the upstream table. *)
LEMMA PickKeepsTypes ==
  ASSUME UpstreamTypeOK, NEW k \in FlowKey, NEW u, Pick(k, u)
  PROVE  UpstreamTypeOK'
<1>1. rr_counter_ \in Nat /\ CounterSpan \in Nat \ {0}
  BY UpstreamTableAssumption DEF UpstreamTypeOK
<1>2. (rr_counter_ + 1) % CounterSpan \in 0 .. (CounterSpan - 1)
  BY <1>1
<1> QED
  BY <1>2 DEF Pick, UpstreamTypeOK

(* The sessions of the table h are in the table g, no longer idle. *)
Outlives(h, g) ==
  \A s \in Ptr : h[s] # nullptr =>
    /\ g[s] # nullptr
    /\ g[s].key = h[s].key
    /\ Translation(g[s]) = Translation(h[s])
    /\ h[s].idle \in Nat /\ g[s].idle \in Nat /\ g[s].idle <= h[s].idle

(* No session leads to an endpoint without an address. *)
Addressed == \A s \in Live : heap[s].up \notin Unset

(* What every handler leaves of the tables of the L4 half. *)
Served ==
  /\ TableInv'
  /\ UpstreamTypeOK'
  /\ cursor' = cursor
  /\ Addressed'
  /\ Outlives(heap, heap')

(* A touched session is kept with all the others. *)
LEMMA TouchServes ==
  ASSUME TableInv, UpstreamTypeOK, Addressed, NEW s \in Live, Touch(s),
         TableInv', UNCHANGED upstreamVars
  PROVE  Served
<1>1. /\ Live' = Live
      /\ \A t \in Live :
           /\ heap'[t].key = heap[t].key
           /\ heap'[t].up = heap[t].up
           /\ heap'[t].snat = heap[t].snat
           /\ heap'[t].idle <= heap[t].idle
  BY TouchEffect
<1>2. \A t \in Live : heap[t].idle \in Nat /\ heap'[t].idle \in Nat
  BY <1>1, RangeFacts DEF TableInv, TableTypeOK, Live, Session
<1>3. Outlives(heap, heap')
  BY <1>1, <1>2 DEF Outlives, Live, Translation
<1>4. Addressed'
  BY <1>1 DEF Addressed
<1>5. UpstreamTypeOK' /\ cursor' = cursor
  BY DEF UpstreamTypeOK, upstreamVars, Touch
<1> QED
  BY <1>3, <1>4, <1>5 DEF Served

(* A step that leaves the sessions alone. *)
LEMMA QuietServes ==
  ASSUME TableInv, Addressed, UNCHANGED tableVars, UpstreamTypeOK'
  PROVE  Served
<1>1. TableInv' /\ cursor' = cursor /\ heap' = heap
  BY SameTable DEF tableVars
<1>2. Addressed'
  BY <1>1 DEF Addressed, Live
<1>3. \A t \in Ptr : heap[t] # nullptr => heap[t].idle \in Nat /\ heap[t].idle <= heap[t].idle
  BY RangeFacts DEF TableInv, TableTypeOK, Session
<1>4. Outlives(heap, heap')
  BY <1>1, <1>3 DEF Outlives
<1> QED
  BY <1>1, <1>2, <1>4 DEF Served

(* handle_forward translates with a session that it has just renewed or    *)
(* created.                                                                *)
LEMMA ForwardServes ==
  ASSUME TableInv, UpstreamTypeOK, Addressed, NEW k \in FlowKey, HandleForward(k)
  PROVE  /\ Served
         /\ forward_'[k] \in Ptr /\ heap'[forward_'[k]] # nullptr
         /\ heap'[forward_'[k]].key = k
         /\ heap'[forward_'[k]].idle = 0
<1>0. TableInv'
  BY ForwardCallsTable, NextInv
<1>1. CASE ForwardHit(k)
  <2>1. forward_[k] \in Live /\ heap[forward_[k]].key = k /\ Touch(forward_[k])
    BY <1>1, ZenonT(20) DEF ForwardHit, TableInv, MapsAgree
  <2>2. Served
    BY <1>0, <1>1, <2>1, TouchServes DEF ForwardHit
  <2>3. /\ Live' = Live /\ forward_' = forward_
        /\ heap'[forward_[k]].idle = 0
        /\ heap'[forward_[k]].key = heap[forward_[k]].key
    BY <2>1, TouchEffect, ZenonT(20)
  <2> QED
    BY <2>1, <2>2, <2>3 DEF Live
<1>2. ASSUME NEW u \in Endpoint, ForwardNew(k, u)
      PROVE  /\ Served
             /\ forward_'[k] \in Live'
             /\ heap'[forward_'[k]].key = k
             /\ heap'[forward_'[k]].idle = 0
  <2>1. Create(k, u) /\ Pick(k, u) /\ u \notin Unset
    BY <1>2 DEF ForwardNew
  <2>2. /\ forward_'[k] \in Live'
        /\ heap'[forward_'[k]].key = k
        /\ heap'[forward_'[k]].up = u
        /\ heap'[forward_'[k]].idle = 0
        /\ \A t \in Live : t \in Live' /\ heap'[t] = heap[t]
        /\ \A t \in Live' : t = forward_'[k] \/ (t \in Live /\ heap'[t] = heap[t])
    BY <2>1, CreateEffect
  <2>3. Addressed'
    BY <2>1, <2>2 DEF Addressed
  <2>4. \A t \in Live : heap[t].idle \in Nat /\ heap[t].idle <= heap[t].idle
    BY RangeFacts DEF TableInv, TableTypeOK, Live, Session
  <2>5. Outlives(heap, heap')
    BY <2>2, <2>4 DEF Outlives, Live
  <2>6. UpstreamTypeOK' /\ cursor' = cursor
    BY <2>1, PickKeepsTypes DEF Create
  <2> QED
    BY <1>0, <2>2, <2>3, <2>5, <2>6 DEF Served
<1> QED
  BY <1>1, <1>2 DEF HandleForward, Live

(* The other outcomes of a packet: the sessions stay. *)
LEMMA OthersServe ==
  ASSUME TableInv, UpstreamTypeOK, Addressed,
         \/ \E k \in FlowKey : ForwardDrop(k)
         \/ \E r \in ReverseKey : HandleReverse(r) \/ ReverseDrop(r)
         \/ UNCHANGED l4Vars
  PROVE  Served
<1>1. ASSUME NEW k \in FlowKey, ForwardDrop(k)
      PROVE  Served
  <2>1. UNCHANGED tableVars
    BY <1>1 DEF ForwardDrop, CreateFails
  <2>2. UNCHANGED upstreamVars \/ \E u : Pick(k, u)
    BY <1>1, ZenonT(20) DEF ForwardDrop, PickFails
  <2>3. UpstreamTypeOK'
    BY <2>2, PickKeepsTypes DEF UpstreamTypeOK, upstreamVars
  <2> QED
    BY <2>1, <2>3, QuietServes
<1>2. ASSUME NEW r \in ReverseKey, HandleReverse(r)
      PROVE  Served
  <2>1. reverse_[r] \in Live /\ Touch(reverse_[r]) /\ UNCHANGED upstreamVars
    BY <1>2, ZenonT(20) DEF HandleReverse, TableInv, MapsAgree
  <2>2. TableNext
    BY <2>1 DEF TableNext
  <2>3. TableInv'
    BY <2>2, NextInv
  <2> QED
    BY <2>1, <2>3, TouchServes
<1>3. ASSUME UNCHANGED l4Vars
      PROVE  Served
  BY <1>3, QuietServes DEF l4Vars, UpstreamTypeOK, upstreamVars
<1> QED
  BY <1>1, <1>2, <1>3 DEF ReverseDrop

-----------------------------------------------------------------------------
(* The tables and the timers *)

(* The invariant of the tables and the timers. *)
ControlInv ==
  /\ TableInv /\ UpstreamTypeOK /\ NeighborInv /\ Addressed
  /\ pc \in Stage
  /\ cursor # 0 <=> pc = "expiring"
  /\ since_expire \in 0 .. ExpireInterval
  /\ since_poll \in 0 .. PollInterval

(* The timers stay in their ranges. *)
LEMMA LaterRange ==
  ASSUME NEW cap \in Nat, NEW t \in 0 .. cap, NEW d \in 0 .. MaxStep
  PROVE  Later(t, d, cap) \in 0 .. cap
BY TimerFacts DEF Later, Min2

(* Sessions that the clock or expire leaves were there before. *)
LEMMA StillAddressed ==
  ASSUME TableInv, Addressed,
         ExpireBegin \/ ExpireLoop \/ (\E d \in Nat : IdleFor(d)) \/ UNCHANGED tableVars
  PROVE  Addressed'
<1>1. CASE UNCHANGED tableVars
  BY <1>1 DEF Addressed, Live, tableVars
<1>2. ASSUME ExpireBegin \/ ExpireLoop \/ \E d \in Nat : IdleFor(d), NEW t \in Live'
      PROVE  heap'[t].up \notin Unset
  <2>1. t \in Live /\ heap'[t].up = heap[t].up
    BY <1>2, NoneNew
  <2> QED
    BY <2>1 DEF Addressed
<1> QED
  BY <1>1, <1>2 DEF Addressed

(* Every step preserves the invariant of the tables and the timers. *)
LEMMA ControlNext ==
  ASSUME ControlInv, [GatewayNext]_gatewayVars, Packet => Served
  PROVE  ControlInv'
<1>1. TableInv' /\ NeighborInv'
  BY WorkerCallsTable, NextInv, NeighborInvNext DEF ControlInv
<1>2. /\ TableInv /\ UpstreamTypeOK /\ Addressed /\ pc \in Stage
      /\ cursor # 0 <=> pc = "expiring"
      /\ since_expire \in 0 .. ExpireInterval /\ since_poll \in 0 .. PollInterval
  BY DEF ControlInv
<1>3. /\ ExpireInterval \in Nat /\ PollInterval \in Nat
      /\ 0 \in 0 .. ExpireInterval /\ 0 \in 0 .. PollInterval
  BY GatewayAssumption
<1> DEFINE Rest == /\ UpstreamTypeOK' /\ Addressed' /\ pc' \in Stage
                   /\ cursor' # 0 <=> pc' = "expiring"
                   /\ since_expire' \in 0 .. ExpireInterval
                   /\ since_poll' \in 0 .. PollInterval
<1>4. ASSUME UNCHANGED upstreamVars
      PROVE  UpstreamTypeOK'
  BY <1>2, <1>4 DEF UpstreamTypeOK, upstreamVars
<1>5. ASSUME UNCHANGED tableVars
      PROVE  Addressed' /\ cursor' = cursor
  BY <1>2, <1>5, StillAddressed DEF tableVars
<1>6. ASSUME NEW d \in 0 .. MaxStep, Top(d)
      PROVE  Rest
  <2>1. /\ IdleFor(d) /\ d \in Nat /\ pc' = "sessions" /\ UNCHANGED upstreamVars
        /\ since_expire' = Later(since_expire, d, ExpireInterval)
        /\ since_poll' = Later(since_poll, d, PollInterval)
    BY <1>6, TimerFacts DEF Top
  <2>2. Addressed' /\ cursor' = 0
    BY <1>2, <2>1, StillAddressed, ZenonT(20) DEF IdleFor
  <2> QED
    BY <1>2, <1>3, <1>4, <2>1, <2>2, LaterRange DEF Stage
<1>7. ASSUME Sessions
      PROVE  Rest
  <2>1. /\ UNCHANGED upstreamVars /\ since_poll' = since_poll
        /\ \/ ExpireBegin /\ since_expire' = 0 /\ pc' = "expiring"
           \/ UNCHANGED <<tableVars, since_expire>> /\ pc' = "arp" /\ pc = "sessions"
    BY <1>7 DEF Sessions
  <2>2. CASE ExpireBegin /\ since_expire' = 0 /\ pc' = "expiring"
    <3>1. Addressed' /\ cursor' = 1
      BY <1>2, <2>2, StillAddressed DEF ExpireBegin
    <3> QED
      BY <1>2, <1>3, <1>4, <2>1, <2>2, <3>1 DEF Stage
  <2>3. CASE UNCHANGED <<tableVars, since_expire>> /\ pc' = "arp" /\ pc = "sessions"
    BY <1>2, <1>4, <1>5, <2>1, <2>3 DEF Stage
  <2> QED
    BY <2>1, <2>2, <2>3
<1>8. ASSUME Expiring
      PROVE  Rest
  <2>1. /\ ExpireLoop /\ UNCHANGED upstreamVars /\ UNCHANGED <<since_expire, since_poll>>
        /\ pc' = IF cursor' = 0 THEN "arp" ELSE "expiring"
    BY <1>8 DEF Expiring, timerVars
  <2>2. Addressed'
    BY <1>2, <2>1, StillAddressed
  <2> QED
    BY <1>2, <1>4, <2>1, <2>2 DEF Stage
<1>9. ASSUME ExpireArp \/ SendBurst \/ \E b \in Bursts : Recv(b)
      PROVE  Rest
  <2>1. /\ UNCHANGED tableVars /\ UNCHANGED upstreamVars
        /\ UNCHANGED <<since_expire, since_poll>>
        /\ pc \in {"arp", "burst", "recv"} /\ pc' \in {"poll", "top", "burst"}
    BY <1>9 DEF ExpireArp, SendBurst, Recv, l4Vars, timerVars
  <2> QED
    BY <1>2, <1>4, <1>5, <2>1 DEF Stage
<1>10. ASSUME Poll
       PROVE  Rest
  <2>1. /\ UNCHANGED tableVars /\ since_expire' = since_expire /\ since_poll' \in {0, since_poll}
        /\ pc = "poll" /\ pc' = "recv"
        /\ UNCHANGED upstreamVars \/ \E c \in Config : Set(c.policy, c.endpoints)
    BY <1>10 DEF Poll
  <2>2. UpstreamTypeOK'
    BY <1>2, <1>4, <2>1, ForwarderAssumption DEF Set, UpstreamTypeOK
  <2> QED
    BY <1>2, <1>3, <1>5, <2>1, <2>2 DEF Stage
<1>11. ASSUME Packet
       PROVE  Rest
  <2>1. /\ pc' = "burst" /\ pc = "burst" /\ UNCHANGED <<since_expire, since_poll>>
    BY <1>11, ZenonT(20) DEF Packet, Handle, HandleArpRequest, HandleArpReply, HandleOther, HandleStray,
                 HandleToVip, HandleToGateway, timerVars
  <2> QED
    BY <1>2, <1>11, <2>1 DEF Served, Stage
<1>12. ASSUME UNCHANGED gatewayVars
       PROVE  Rest
  <2>1. UNCHANGED tableVars /\ UNCHANGED upstreamVars /\ UNCHANGED <<pc, since_expire, since_poll>>
    BY <1>12 DEF gatewayVars, l4Vars, timerVars
  <2> QED
    BY <1>2, <1>4, <1>5, <2>1
<1>13. Rest
  BY <1>6, <1>7, <1>8, <1>9, <1>10, <1>11, <1>12 DEF GatewayNext, Overrun
<1> QED
  BY <1>1, <1>13 DEF ControlInv

-----------------------------------------------------------------------------
(* The history of the flows *)

Inv == TableInv /\ UpstreamTypeOK /\ SentTypeOK /\ SentBacked

(* A remembered translation keeps its session over a step that keeps the   *)
(* sessions that are not idle for the timeout.                             *)
LEMMA BackedStep ==
  ASSUME Inv, TableInv', Kept,
         NEW k \in FlowKey, NEW r \in ReverseKey, sent[k][r] < IdleTimeout
  PROVE  \E s \in Live' :
           /\ heap'[s].key = k
           /\ Translation(heap'[s]) = r
           /\ heap'[s].idle <= sent[k][r]
<1>1. PICK s \in Live : /\ heap[s].key = k
                       /\ Translation(heap[s]) = r
                       /\ heap[s].idle <= sent[k][r]
  BY ZenonT(20) DEF Inv, SentBacked
<1>2. sent[k][r] \in 0 .. IdleTimeout /\ heap[s].idle \in 0 .. IdleTimeout
  BY LiveFacts, ZenonT(20) DEF Inv, SentTypeOK, TableInv
<1>3. heap[s].idle < IdleTimeout
  BY <1>1, <1>2, RangeFacts
<1>4. /\ s \in Live'
      /\ heap'[s].key = k
      /\ Translation(heap'[s]) = r
      /\ heap'[s].idle <= heap[s].idle
  BY <1>1, <1>3 DEF Kept, Translation
<1>5. heap'[s].idle \in 0 .. IdleTimeout
  <2>1. s \in Ptr /\ heap'[s] # nullptr
    BY <1>4, ZenonT(20) DEF Live
  <2>2. heap'[s] \in Session
    BY <2>1, ZenonT(20) DEF TableInv, TableTypeOK
  <2> QED
    BY <2>2 DEF Session
<1>6. heap'[s].idle <= sent[k][r]
  BY <1>1, <1>2, <1>4, <1>5, RangeFacts
<1> QED
  BY <1>4, <1>6, ZenonT(20)

(* Steps that translate no packet. *)
LEMMA QuietInv ==
  ASSUME Inv, TableInv', UpstreamTypeOK', Kept, UNCHANGED sent
  PROVE  Inv'
<1>1. SentTypeOK'
  BY DEF Inv, SentTypeOK
<1>2. SentBacked'
  BY BackedStep, ZenonT(20) DEF SentBacked
<1> QED
  BY <1>1, <1>2 DEF Inv

(* Steps that translate a packet of flow k. *)
LEMMA TranslateInv ==
  ASSUME Inv, TableInv', UpstreamTypeOK', Kept,
         NEW k \in FlowKey,
         forward_'[k] \in Live',
         heap'[forward_'[k]].key = k,
         heap'[forward_'[k]].idle = 0,
         sent' = [sent EXCEPT ![k][Translation(heap'[forward_'[k]])] = 0]
  PROVE  Inv'
<1> DEFINE f == forward_'[k]
           q == Translation(heap'[f])
<1>1. q \in ReverseKey
  <2>1. f \in Ptr /\ heap'[f] # nullptr
    BY ZenonT(20) DEF Live
  <2>2. heap'[f] \in Session
    BY <2>1, ZenonT(20) DEF TableInv, TableTypeOK
  <2> QED
    BY <2>2 DEF Session, ReverseKey, Translation
<1>2. /\ f \in Live'
      /\ heap'[f].key = k
      /\ heap'[f].idle = 0
      /\ Translation(heap'[f]) = q
      /\ sent' = [sent EXCEPT ![k][q] = 0]
  OBVIOUS
<1> HIDE DEF f, q
<1>3. SentTypeOK'
  <2> DEFINE Age == 0 .. IdleTimeout
             row == [sent[k] EXCEPT ![q] = 0]
  <2>1. 0 \in Age
    BY RangeFacts
  <2>2. sent \in [FlowKey -> [ReverseKey -> Age]]
    BY DEF Inv, SentTypeOK
  <2> HIDE DEF Age
  <2>3. row \in [ReverseKey -> Age]
    BY <1>1, <2>1, <2>2
  <2>4. sent' = [sent EXCEPT ![k] = row]
    BY <1>2
  <2> HIDE DEF row
  <2>5. sent' \in [FlowKey -> [ReverseKey -> Age]]
    BY <2>2, <2>3, <2>4
  <2> QED
    BY <2>5 DEF Age, SentTypeOK
<1>4. ASSUME NEW j \in FlowKey, NEW r \in ReverseKey, sent'[j][r] < IdleTimeout
      PROVE  \E s \in Live' :
               /\ heap'[s].key = j
               /\ Translation(heap'[s]) = r
               /\ heap'[s].idle <= sent'[j][r]
  <2>1. CASE j = k /\ r = q
    <3>1. sent'[j][r] = 0
      BY <1>1, <1>2, <2>1 DEF Inv, SentTypeOK
    <3>2. heap'[f].idle <= sent'[j][r]
      BY <1>2, <3>1
    <3> QED
      BY <1>2, <2>1, <3>2, ZenonT(20)
  <2>2. CASE ~(j = k /\ r = q)
    <3>1. sent'[j][r] = sent[j][r]
      BY <1>1, <1>2, <2>2 DEF Inv, SentTypeOK
    <3> QED
      BY <1>4, <3>1, BackedStep
  <2> QED
    BY <2>1, <2>2
<1>5. SentBacked'
  BY <1>4, ZenonT(20) DEF SentBacked
<1> QED
  BY <1>3, <1>5 DEF Inv

(* The worker's clock advances: sessions and history age alike. *)
LEMMA ElapseInv ==
  ASSUME Inv, NEW d \in Nat, Elapse(d)
  PROVE  Inv'
<1> DEFINE cap(x) == IF x + d < IdleTimeout THEN x + d ELSE IdleTimeout
<1>1. TableInv'
  BY IdleForInv, ZenonT(20) DEF Elapse, Inv
<1>2. UpstreamTypeOK'
  BY DEF Elapse, Inv, UpstreamTypeOK, upstreamVars
<1>3. \A x \in 0 .. IdleTimeout : cap(x) \in 0 .. IdleTimeout
  BY RangeFacts
<1>4. sent' = [k \in FlowKey |-> [r \in ReverseKey |-> cap(sent[k][r])]]
  BY DEF Elapse
<1>5. \A x, y \in 0 .. IdleTimeout : x <= y => cap(x) <= cap(y)
  BY RangeFacts
<1>6. \A x \in 0 .. IdleTimeout : cap(x) < IdleTimeout => x < IdleTimeout
  BY RangeFacts
<1>7. \A t \in Live : /\ t \in Live'
                      /\ heap'[t].key = heap[t].key
                      /\ Translation(heap'[t]) = Translation(heap[t])
                      /\ heap'[t].idle = cap(heap[t].idle)
  <2>1. IdleFor(d)
    BY DEF Elapse
  <2>2. \A t \in Live : /\ t \in Live'
                        /\ heap'[t].key = heap[t].key
                        /\ heap'[t].up = heap[t].up /\ heap'[t].snat = heap[t].snat
                        /\ heap'[t].idle = cap(heap[t].idle)
    BY <2>1, IdleForEffect, ZenonT(20) DEF Inv
  <2> QED
    BY <2>2 DEF Translation
<1>8. \A k \in FlowKey, r \in ReverseKey :
        sent[k][r] \in 0 .. IdleTimeout /\ sent'[k][r] = cap(sent[k][r])
  BY <1>4, ZenonT(20) DEF Inv, SentTypeOK
<1> HIDE DEF cap
<1>9. SentTypeOK'
  BY <1>3, <1>4, <1>8, ZenonT(20) DEF SentTypeOK
<1>10. ASSUME NEW k \in FlowKey, NEW r \in ReverseKey, sent'[k][r] < IdleTimeout
       PROVE  \E s \in Live' :
                /\ heap'[s].key = k
                /\ Translation(heap'[s]) = r
                /\ heap'[s].idle <= sent'[k][r]
  <2>1. sent[k][r] < IdleTimeout
    BY <1>6, <1>8, <1>10, ZenonT(20)
  <2>2. PICK s \in Live : /\ heap[s].key = k
                         /\ Translation(heap[s]) = r
                         /\ heap[s].idle <= sent[k][r]
    BY <2>1, ZenonT(20) DEF Inv, SentBacked
  <2>3. heap[s].idle \in 0 .. IdleTimeout
    BY LiveFacts, ZenonT(20) DEF Inv, TableInv
  <2>4. cap(heap[s].idle) <= cap(sent[k][r])
    BY <1>5, <1>8, <2>2, <2>3, ZenonT(20)
  <2>5. heap'[s].idle <= sent'[k][r]
    BY <1>7, <1>8, <2>4, ZenonT(20)
  <2> QED
    BY <1>7, <2>2, <2>5, ZenonT(20)
<1>11. SentBacked'
  BY <1>10, ZenonT(20) DEF SentBacked
<1> QED
  BY <1>1, <1>2, <1>9, <1>11 DEF Inv

(* The invariant holds when the worker starts. *)
LEMMA HistoryInit == Init => Inv
<1> SUFFICES ASSUME Init
             PROVE  Inv
  OBVIOUS
<1>1. TableInv
  BY InitInv DEF Init
<1>2. UpstreamTypeOK
  BY UpstreamTableAssumption, EmptySeq DEF Init, UpstreamInit, UpstreamTypeOK, Policy
<1>3. sent = [k \in FlowKey |-> [r \in ReverseKey |-> IdleTimeout]]
  BY DEF Init
<1>4. SentTypeOK
  BY <1>3, RangeFacts DEF SentTypeOK
<1>5. \A k \in FlowKey, r \in ReverseKey : ~(sent[k][r] < IdleTimeout)
  BY <1>3, RangeFacts
<1>6. SentBacked
  BY <1>5, ZenonT(20) DEF SentBacked
<1> QED
  BY <1>1, <1>2, <1>4, <1>6 DEF Inv

(* A translated packet: its flow has a session, old or new. *)
LEMMA ForwardInv ==
  ASSUME Inv, NEW k \in FlowKey, Forward(k)
  PROVE  Inv'
<1>1. CASE ForwardHit(k)
  <2> DEFINE s == forward_[k]
  <2>1. s \in Live /\ heap[s].key = k /\ Touch(s) /\ UNCHANGED upstreamVars
    BY <1>1, ZenonT(20) DEF ForwardHit, Inv, TableInv, MapsAgree
  <2> HIDE DEF s
  <2>2. TableInv' /\ Kept
    BY <2>1, TouchInv, TouchKeeps, ZenonT(20) DEF Inv
  <2>3. /\ s \in Live'
        /\ heap'[s].key = k
        /\ heap'[s].idle = 0
        /\ forward_' = forward_
    BY <2>1, TouchEffect, ZenonT(20) DEF Inv
  <2>4. UpstreamTypeOK'
    BY <2>1 DEF Inv, UpstreamTypeOK, upstreamVars
  <2>5. forward_'[k] = s
    BY <2>3, ZenonT(20) DEF s
  <2>6. sent' = [sent EXCEPT ![k][Translation(heap'[forward_'[k]])] = 0]
    BY ZenonT(20) DEF Forward
  <2> QED
    BY <2>2, <2>3, <2>4, <2>5, <2>6, TranslateInv, ZenonT(20)
<1>2. ASSUME NEW u \in Endpoint, ForwardNew(k, u)
      PROVE  Inv'
  <2>1. Pick(k, u) /\ Create(k, u)
    BY <1>2 DEF ForwardNew
  <2>2. TableInv' /\ Kept
    BY <2>1, CreateInv, CreateKeeps, ZenonT(20) DEF Inv
  <2>3. /\ forward_'[k] \in Live'
        /\ heap'[forward_'[k]].key = k
        /\ heap'[forward_'[k]].idle = 0
    BY <2>1, CreateEffect, ZenonT(20) DEF Inv
  <2>4. UpstreamTypeOK'
    BY <2>1, PickKeepsTypes, ZenonT(20) DEF Inv
  <2>5. sent' = [sent EXCEPT ![k][Translation(heap'[forward_'[k]])] = 0]
    BY ZenonT(20) DEF Forward
  <2> QED
    BY <2>2, <2>3, <2>4, <2>5, TranslateInv, ZenonT(20)
<1> QED
  BY <1>1, <1>2, ZenonT(20) DEF Forward, HandleForward

(* A dropped packet changes at most the round-robin counter. *)
LEMMA DroppedInv ==
  ASSUME Inv, Dropped
  PROVE  Inv'
<1>1. UNCHANGED tableVars /\ UNCHANGED sent
  BY ZenonT(20) DEF Dropped, ForwardDrop, CreateFails, ReverseDrop, l4Vars
<1>2. UpstreamTypeOK'
  <2>1. ASSUME NEW k \in FlowKey, NEW u, Pick(k, u)
        PROVE  UpstreamTypeOK'
    BY <2>1, PickKeepsTypes, ZenonT(20) DEF Inv
  <2>2. ASSUME UNCHANGED upstreamVars
        PROVE  UpstreamTypeOK'
    BY <2>2 DEF Inv, UpstreamTypeOK, upstreamVars
  <2> QED
    BY <2>1, <2>2, ZenonT(20) DEF Dropped, ForwardDrop, PickFails, ReverseDrop, l4Vars
<1> QED
  BY <1>1, <1>2, SameTable, QuietInv, ZenonT(20) DEF Inv

(* The invariant is inductive. *)
LEMMA HistoryNext == Inv /\ [Next]_vars => Inv'
<1> SUFFICES ASSUME Inv, [Next]_vars
             PROVE  Inv'
  OBVIOUS
<1>0. ASSUME UNCHANGED upstreamVars
      PROVE  UpstreamTypeOK'
  BY <1>0 DEF Inv, UpstreamTypeOK, upstreamVars
<1>1. ASSUME NEW k \in FlowKey, Forward(k)
      PROVE  Inv'
  BY <1>1, ForwardInv, ZenonT(20)
<1>2. CASE Dropped
  BY <1>2, DroppedInv, ZenonT(20)
<1>3. ASSUME NEW r \in ReverseKey, Reply(r)
      PROVE  Inv'
  <2>1. /\ reverse_[r] \in Live
        /\ Touch(reverse_[r])
        /\ UNCHANGED upstreamVars
        /\ UNCHANGED sent
    BY <1>3, ZenonT(20) DEF Reply, HandleReverse, Inv, TableInv, MapsAgree
  <2>2. TableInv' /\ Kept
    BY <2>1, TouchInv, TouchKeeps, ZenonT(20) DEF Inv
  <2> QED
    BY <1>0, <2>1, <2>2, QuietInv, ZenonT(20)
<1>4. CASE Expire
  <2>1. UNCHANGED upstreamVars /\ UNCHANGED sent /\ (ExpireBegin \/ ExpireLoop)
    BY <1>4, ZenonT(20) DEF Expire
  <2>2. TableInv'
    BY <2>1, NextInv, ZenonT(20) DEF Inv, TableNext
  <2>3. Kept
    BY <2>1, ExpireKeeps, ZenonT(20) DEF Inv
  <2> QED
    BY <1>0, <2>1, <2>2, <2>3, QuietInv, ZenonT(20)
<1>5. ASSUME NEW c \in Config, Publish(c)
      PROVE  Inv'
  <2>1. UNCHANGED tableVars /\ UNCHANGED sent
    BY <1>5, ZenonT(20) DEF Publish
  <2>2. UpstreamTypeOK'
    BY <1>5, ForwarderAssumption DEF Publish, Set, Inv, UpstreamTypeOK
  <2> QED
    BY <2>1, <2>2, SameTable, QuietInv, ZenonT(20) DEF Inv
<1>6. ASSUME NEW d \in 1 .. IdleTimeout, Elapse(d)
      PROVE  Inv'
  <2>1. d \in Nat
    BY RangeFacts
  <2> QED
    BY <1>6, <2>1, ElapseInv, ZenonT(20)
<1>7. CASE UNCHANGED vars
  <2>1. UNCHANGED tableVars /\ UNCHANGED upstreamVars /\ UNCHANGED sent
    BY <1>7, ZenonT(20) DEF vars
  <2> QED
    BY <1>0, <2>1, SameTable, QuietInv, ZenonT(20) DEF Inv
<1> QED
  BY <1>1, <1>2, <1>3, <1>4, <1>5, <1>6, <1>7, ZenonT(20) DEF Next

-----------------------------------------------------------------------------
(* Theorems *)

(* The variables keep their types. *)
THEOREM HistoryTyped == Spec => []TypeOK
<1>1. Inv => TypeOK
  BY DEF Inv, TableInv, TypeOK
<1> QED
  BY <1>1, HistoryInit, HistoryNext, PTL DEF Spec

(* The session of a remembered translation is live and at least as fresh. *)
THEOREM HistoryBacked == Spec => []SentBacked
<1>1. Inv => SentBacked
  BY DEF Inv
<1> QED
  BY <1>1, HistoryInit, HistoryNext, PTL DEF Spec

(* A reply that arrives within the idle timeout of the packet it answers   *)
(* is given to the flow that sent the packet.                              *)
THEOREM RepliesReachOwner == Spec => []ReplyToOwner
<1>1. ASSUME Inv
      PROVE  ReplyToOwner
  <2> SUFFICES ASSUME NEW k \in FlowKey, NEW r \in ReverseKey,
                      sent[k][r] < IdleTimeout
               PROVE  reverse_[r] # nullptr /\ heap[reverse_[r]].key = k
    BY DEF ReplyToOwner
  <2>1. PICK s \in Live : heap[s].key = k /\ Translation(heap[s]) = r
    BY <1>1, ZenonT(20) DEF Inv, SentBacked
  <2>2. reverse_[r] = s /\ s \in Ptr
    BY <1>1, <2>1, ZenonT(20) DEF Inv, TableInv, MapsAgree, Translation, Live
  <2> QED
    BY <2>1, <2>2, NullFacts, ZenonT(20)
<1> QED
  BY <1>1, HistoryInit, HistoryNext, PTL DEF Spec

(* A flow that is never idle for the timeout keeps one upstream and one    *)
(* SNAT port through every change of the published list and policy.        *)
THEOREM FlowsAreSticky == Spec => []StickyFlow
<1>1. ASSUME Inv
      PROVE  StickyFlow
  <2> SUFFICES ASSUME NEW k \in FlowKey, NEW q \in ReverseKey, NEW r \in ReverseKey,
                      sent[k][q] < IdleTimeout, sent[k][r] < IdleTimeout
               PROVE  q = r
    BY ZenonT(20) DEF StickyFlow
  <2>1. PICK s \in Live : heap[s].key = k /\ Translation(heap[s]) = q
    BY <1>1, ZenonT(20) DEF Inv, SentBacked
  <2>2. PICK t \in Live : heap[t].key = k /\ Translation(heap[t]) = r
    BY <1>1, ZenonT(20) DEF Inv, SentBacked
  <2>3. forward_[k] = s /\ forward_[k] = t
    BY <1>1, <2>1, <2>2, ZenonT(20) DEF Inv, TableInv, MapsAgree
  <2> QED
    BY <2>1, <2>2, <2>3
<1> QED
  BY <1>1, HistoryInit, HistoryNext, PTL DEF Spec
=============================================================================
