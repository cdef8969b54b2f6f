---------------------------- MODULE GatewayProofs ----------------------------
(***************************************************************************)
(* Proofs about the packets of the worker, for every set of flows, next    *)
(* hops and mbufs and every size of bursts and queues: its variables keep  *)
(* their types and bounds, no mbuf is in two places and none is lost, what *)
(* is sent to an upstream is owned by a session, and packets that wait for *)
(* one next hop do not overtake one another.                               *)
(***************************************************************************)
EXTENDS ForwarderProofs, ArpPendingProofs

(* How long a prover may try a step. *)
USE SMTT(20), ZenonT(20), Z3T(20)

-----------------------------------------------------------------------------
(* What the batch and the queues carry *)

(* What is known of the addresses. *)
LEMMA AddressFacts ==
  /\ \A k \in FlowKey : KeyIp[k] \in Ip
  /\ \A u \in Endpoint : EndpointIp[u] \in Ip /\ (EndpointIp[u] = NoIp => u \in Unset)
  /\ GatewayIp \in Ip /\ VipIp \in Ip
  /\ Source \subseteq Ip
BY GatewayAssumption

(* The headers that may be transmitted when the sessions are those of h: a *)
(* packet to an upstream is owned by the session that translated it.       *)
Sendable(h) ==
  {x \in Header : x.dir = "fwd" =>
     \E s \in Ptr : h[s] # nullptr /\ h[s].key = x.key /\ Translation(h[s]) = x.to}

(* The packets that may be held: until it expires, a packet to an upstream *)
(* is owned by a session that was used no earlier than the packet.         *)
Holdable(h) ==
  {e \in Waiting(Header) :
     /\ e.hdr # Probe
     /\ e.hdr.dir = "fwd" /\ e.age < PendingTimeout =>
          \E s \in Ptr : /\ h[s] # nullptr
                         /\ h[s].key = e.hdr.key
                         /\ Translation(h[s]) = e.hdr.to
                         /\ h[s].idle <= e.age}

(* What is held may be sent while it is not expired, and a probe always. *)
LEMMA CarriedFit ==
  ASSUME NEW h
  PROVE  /\ Fit(Sendable(h), Holdable(h))
         /\ Probe \in Header /\ Probe \in Sendable(h)
<1>1. Probe \in Header /\ Probe.dir = "arp"
  BY DEF Probe, Header
<1>2. Probe \in Sendable(h)
  BY <1>1 DEF Sendable
<1>3. ASSUME NEW e \in Holdable(h), e.age < PendingTimeout
      PROVE  e.hdr \in Sendable(h)
  <2>1. e \in Waiting(Header) /\ e.hdr \in Header
    BY <1>3 DEF Holdable, Waiting
  <2>2. e.hdr.dir = "fwd" =>
          \E s \in Ptr : h[s] # nullptr /\ h[s].key = e.hdr.key /\ Translation(h[s]) = e.hdr.to
    BY <1>3 DEF Holdable
  <2> QED
    BY <2>1, <2>2 DEF Sendable
<1>4. \A e \in Holdable(h) : e.hdr # Probe
  BY DEF Holdable
<1> QED
  BY <1>1, <1>2, <1>3, <1>4 DEF Fit

(* Both stay so while the sessions live on and are not older. *)
LEMMA CarriedOutlives ==
  ASSUME NEW h, NEW g, Outlives(h, g)
  PROVE  Sendable(h) \subseteq Sendable(g) /\ Holdable(h) \subseteq Holdable(g)
<1>1. Sendable(h) \subseteq Sendable(g)
  BY DEF Sendable, Outlives
<1>2. ASSUME NEW e \in Holdable(h)
      PROVE  e \in Holdable(g)
  <2>1. e \in Waiting(Header) /\ e.hdr # Probe
    BY DEF Holdable
  <2>2. ASSUME e.hdr.dir = "fwd", e.age < PendingTimeout
        PROVE  \E s \in Ptr : /\ g[s] # nullptr
                              /\ g[s].key = e.hdr.key
                              /\ Translation(g[s]) = e.hdr.to
                              /\ g[s].idle <= e.age
    <3>1. PICK s \in Ptr : /\ h[s] # nullptr
                           /\ h[s].key = e.hdr.key
                           /\ Translation(h[s]) = e.hdr.to
                           /\ h[s].idle <= e.age
      BY <2>2 DEF Holdable
    <3>2. /\ g[s] # nullptr
          /\ g[s].key = e.hdr.key
          /\ Translation(g[s]) = e.hdr.to
          /\ h[s].idle \in Nat /\ g[s].idle \in Nat /\ g[s].idle <= h[s].idle
      BY <3>1 DEF Outlives
    <3>3. e.age \in Nat
      BY <2>1, PendingFacts DEF Waiting
    <3>4. g[s].idle <= e.age
      BY <3>1, <3>2, <3>3
    <3> QED
      BY <3>2, <3>4
  <2> QED
    BY <2>1, <2>2 DEF Holdable
<1> QED
  BY <1>1, <1>2

(* A packet translated with a session in use may be sent and held. *)
LEMMA CarriedNew ==
  ASSUME NEW h, NEW m \in Mbuf, NEW hdr \in Header, hdr # Probe,
         hdr.dir = "fwd" =>
           \E s \in Ptr : /\ h[s] # nullptr
                          /\ h[s].key = hdr.key
                          /\ Translation(h[s]) = hdr.to
                          /\ h[s].idle = 0
  PROVE  hdr \in Sendable(h) /\ [m |-> m, hdr |-> hdr, age |-> 0] \in Holdable(h)
<1>1. hdr \in Sendable(h)
  BY DEF Sendable
<1> DEFINE e == [m |-> m, hdr |-> hdr, age |-> 0]
<1>2. e \in Waiting(Header) /\ e.hdr = hdr /\ e.age = 0
  BY PendingFacts DEF Waiting
<1>3. \A n : n = 0 => n <= 0
  OBVIOUS
<1> HIDE DEF e
<1>4. e \in Holdable(h)
  BY <1>2, <1>3 DEF Holdable
<1> QED
  BY <1>1, <1>4 DEF e

(* Io is what its parts become. *)
LEMMA BecomesIo ==
  ASSUME NEW io \in IoType(Header), Becomes(io)
  PROVE  Io' = io
BY DEF Becomes, Io, IoType
-----------------------------------------------------------------------------
(* The mbufs and the transmit batch *)

(* enqueue_pending loses the mbuf of a reply to the client 0.0.0.0. *)
ClientsAddressed == \A k \in FlowKey : KeyIp[k] # NoIp

(* The mbufs received, to be freed, and in the batch, the queues and       *)
(* outside are apart, and all there are.                                   *)
Owned(q, D, io) == Apart(q, D, io) /\ (ClientsAddressed => Complete(q, D, io))

(* The invariant of the packets. *)
IoInv ==
  /\ Sound(Io, Header, Sendable(heap), Holdable(heap))
  /\ Owned(rx, drop, Io)
  /\ pc # "burst" => rx = <<>> /\ tx = <<>> /\ drop = {}

GatewayInv == ControlInv /\ IoInv

(* What the handlers find: the packet is nowhere else yet, and what may be *)
(* sent and held with the sessions before may be with those after.         *)
LEMMA HandleFacts ==
  ASSUME IoInv, Served, NEW m \in Mbuf, Handle(m)
  PROVE  /\ Sound(Io, Header, Sendable(heap'), Holdable(heap'))
         /\ Apart(rx, drop, Io) /\ (ClientsAddressed => Complete(rx, drop, Io))
         /\ rx # <<>> /\ m = Head(rx) /\ rx' = Tail(rx) /\ pc' = "burst"
         /\ ~Somewhere(Io, m)
         /\ InOrder(Io, Io)
<1>1. /\ Sound(Io, Header, Sendable(heap), Holdable(heap))
      /\ Apart(rx, drop, Io) /\ (ClientsAddressed => Complete(rx, drop, Io))
  BY DEF IoInv, Owned
<1>2. rx # <<>> /\ m = Head(rx) /\ rx' = Tail(rx) /\ pc' = "burst"
  BY DEF Handle
<1>3. Outlives(heap, heap')
  BY DEF Served
<1>4. Sound(Io, Header, Sendable(heap'), Holdable(heap'))
  BY <1>1, <1>3, CarriedOutlives, SoundGrows
<1>5. ~Somewhere(Io, m)
  BY <1>1, <1>2, HeadFacts
<1>6. InOrder(Io, Io)
  BY <1>1, SameBatchInOrder
<1> QED
  BY <1>1, <1>2, <1>4, <1>5, <1>6

(* The end of a handler: what it left of the packets is an invariant state. *)
LEMMA HandleLeaves ==
  ASSUME NEW io, Sound(io, Header, Sendable(heap'), Holdable(heap')), Becomes(io),
         Owned(rx', drop', io), pc' = "burst"
  PROVE  IoInv' /\ Io' = io
<1>1. Io' = io
  BY BecomesIo DEF Sound
<1> QED
  BY <1>1 DEF IoInv

(* A packet that is dropped flushes the queue of an address. *)
LEMMA DropStep ==
  ASSUME ReadyKeeps, IoInv, Served, NEW m \in Mbuf, Handle(m), NEW ip \in Ip,
         Dropping(m, FlushPending(Io, ip))
  PROVE  IoInv' /\ InOrder(Io, Io')
<1> DEFINE r == FlushPending(Io, ip)
<1>1. /\ Sound(Io, Header, Sendable(heap'), Holdable(heap'))
      /\ Apart(rx, drop, Io) /\ (ClientsAddressed => Complete(rx, drop, Io))
      /\ rx # <<>> /\ m = Head(rx) /\ rx' = Tail(rx) /\ pc' = "burst"
  BY HandleFacts
<1>2. Fit(Sendable(heap'), Holdable(heap'))
  BY CarriedFit
<1>3. /\ Sound(r, Header, Sendable(heap'), Holdable(heap'))
      /\ \A x : Somewhere(r, x) <=> Somewhere(Io, x)
      /\ InOrder(Io, r)
  BY <1>1, <1>2, FlushSound, ZenonT(20)
<1>4. drop' = drop \cup {m} /\ Becomes(r)
  BY DEF Dropping
<1> HIDE DEF r
<1>5. Owned(rx', drop', r)
  BY <1>1, <1>3, <1>4, DropApart DEF Owned
<1> QED
  BY <1>1, <1>3, <1>4, <1>5, HandleLeaves, ZenonT(20)

(* A translated packet is transmitted or held. *)
LEMMA RouteStep ==
  ASSUME ReadyKeeps, IoInv, Served, NEW m \in Mbuf, Handle(m), NEW src \in Ip, NEW hop \in Ip,
         hop = NoIp => ~ClientsAddressed,
         NEW hdr \in Header, hdr \in Sendable(heap'),
         [m |-> m, hdr |-> hdr, age |-> 0] \in Holdable(heap'),
         NEW r \in Route(FlushPending(Io, src), hop, m, hdr),
         Becomes(r), UNCHANGED drop
  PROVE  IoInv' /\ InOrder(Io, Io')
<1>1. /\ Sound(Io, Header, Sendable(heap'), Holdable(heap'))
      /\ Apart(rx, drop, Io) /\ (ClientsAddressed => Complete(rx, drop, Io))
      /\ rx # <<>> /\ m = Head(rx) /\ rx' = Tail(rx) /\ pc' = "burst"
      /\ ~Somewhere(Io, m)
  BY HandleFacts
<1>2. /\ Fit(Sendable(heap'), Holdable(heap'))
      /\ Probe \in Header /\ Probe \in Sendable(heap')
  BY CarriedFit
<1>3. /\ Sound(r, Header, Sendable(heap'), Holdable(heap'))
      /\ \A x : Somewhere(r, x) => Somewhere(Io, x) \/ x = m
      /\ \A x : Somewhere(Io, x) => Somewhere(r, x)
      /\ hop # NoIp => Somewhere(r, m)
      /\ InOrder(Io, r)
  BY <1>1, <1>2, FlushRouteSound
<1>4. Owned(rx', drop', r)
  BY <1>1, <1>3, MoveApart DEF Owned
<1> QED
  BY <1>1, <1>3, <1>4, HandleLeaves

(* An ARP request is answered in its own mbuf. *)
LEMMA AnswerStep ==
  ASSUME IoInv, Served, NEW m \in Mbuf, Handle(m),
         Becomes(Transmit(Io, m, [dir |-> "arp"])), UNCHANGED drop
  PROVE  IoInv' /\ InOrder(Io, Io')
<1> DEFINE r == Transmit(Io, m, Probe)
<1>1. /\ Sound(Io, Header, Sendable(heap'), Holdable(heap'))
      /\ Apart(rx, drop, Io) /\ (ClientsAddressed => Complete(rx, drop, Io))
      /\ rx # <<>> /\ m = Head(rx) /\ rx' = Tail(rx) /\ pc' = "burst"
      /\ ~Somewhere(Io, m) /\ InOrder(Io, Io)
  BY HandleFacts
<1>2. Probe \in Header /\ Probe \in Sendable(heap') /\ Fit(Sendable(heap'), Holdable(heap'))
  BY CarriedFit
<1>3. /\ Sound(r, Header, Sendable(heap'), Holdable(heap'))
      /\ \A x : Somewhere(r, x) <=> Somewhere(Io, x) \/ x = m
      /\ Adds(Io, r, m)
  BY <1>1, <1>2, TransmitSound
<1>4. Becomes(r)
  BY DEF Probe
<1>5. \A p \in Ip : \A i \in 1 .. Len(Io.pending[p]) :
        Io.pending[p][i].m # m /\ Io.pending[p][i].hdr # Probe
  BY <1>1, <1>2, ZenonT(20) DEF Somewhere, IsHeld, Sound, Carries, Fit
<1> HIDE DEF r
<1>6. InOrder(Io, r)
  BY <1>1, <1>3, <1>5, AddsInOrder, ZenonT(20)
<1>7. Owned(rx', drop', r)
  BY <1>1, <1>3, MoveApart DEF Owned
<1> QED
  BY <1>1, <1>3, <1>4, <1>6, <1>7, HandleLeaves
(* The packet loop: a datagram for the VIP. *)
LEMMA ToVipStep ==
  ASSUME ReadyKeeps, ControlInv, IoInv, NEW m \in Mbuf, NEW k \in FlowKey, HandleToVip(m, k)
  PROVE  Served /\ IoInv' /\ InOrder(Io, Io')
<1>1. TableInv /\ UpstreamTypeOK /\ Addressed /\ Handle(m) /\ KeyIp[k] \in Ip
  BY AddressFacts, ZenonT(20) DEF ControlInv, HandleToVip
<1>2. CASE ForwardDrop(k) /\ Dropping(m, FlushPending(Io, KeyIp[k]))
  <2>1. Served
    BY <1>1, <1>2, OthersServe
  <2> QED
    BY <1>1, <1>2, <2>1, DropStep
<1> DEFINE s == heap'[forward_'[k]]
           hdr == [dir |-> "fwd", key |-> k, to |-> Translation(s)]
<1>3. ASSUME HandleForward(k), UNCHANGED drop,
             NEW r \in Route(FlushPending(Io, Ipv4Src(hdr)), EndpointIp[s.up], m, hdr),
             Becomes(r)
      PROVE  Served /\ IoInv' /\ InOrder(Io, Io')
  <2>1. /\ Served
        /\ forward_'[k] \in Ptr /\ s # nullptr
        /\ s.key = k
        /\ s.idle = 0
    BY <1>1, <1>3, ForwardServes, ZenonT(20)
  <2>2. s \in Session
    BY <2>1, ZenonT(20) DEF Served, TableInv, TableTypeOK
  <2>3. s.up \in Endpoint /\ s.up \notin Unset /\ Translation(s) \in ReverseKey
    BY <2>1, <2>2, ZenonT(20) DEF Session, Served, Addressed, Live, Translation, ReverseKey
  <2>4. hdr \in Header /\ hdr.dir = "fwd" /\ hdr.key = k /\ hdr.to = Translation(s)
    BY <2>3, ZenonT(20) DEF Header
  <2>5. hdr # Probe
    BY <2>4, ZenonT(20) DEF Probe
  <2>6. EndpointIp[s.up] \in Ip /\ EndpointIp[s.up] # NoIp /\ Ipv4Src(hdr) \in Ip
    BY <2>3, <2>4, AddressFacts, ZenonT(20) DEF Ipv4Src
  <2> HIDE DEF hdr
  <2>7. hdr \in Sendable(heap') /\ [m |-> m, hdr |-> hdr, age |-> 0] \in Holdable(heap')
    BY <2>1, <2>4, <2>5, CarriedNew, ZenonT(20)
  <2> QED
    BY <1>1, <1>3, <2>1, <2>4, <2>6, <2>7, RouteStep, ZenonT(20)
<1> QED
  BY <1>2, <1>3, ZenonT(20) DEF HandleToVip

(* A datagram for the gateway's address. *)
LEMMA ToGatewayStep ==
  ASSUME ReadyKeeps, ControlInv, IoInv, NEW m \in Mbuf, NEW r \in ReverseKey, HandleToGateway(m, r)
  PROVE  Served /\ IoInv' /\ InOrder(Io, Io')
<1>1. /\ TableInv /\ UpstreamTypeOK /\ Addressed /\ Handle(m)
      /\ r[1] \in Endpoint /\ EndpointIp[r[1]] \in Ip
  BY AddressFacts, ZenonT(20) DEF ControlInv, HandleToGateway, ReverseKey
<1>2. CASE ReverseDrop(r) /\ Dropping(m, FlushPending(Io, EndpointIp[r[1]]))
  <2>1. Served
    BY <1>1, <1>2, OthersServe, ZenonT(20)
  <2> QED
    BY <1>1, <1>2, <2>1, DropStep, ZenonT(20)
<1> DEFINE k == Restored(heap[reverse_[r]])
           hdr == [dir |-> "rev", key |-> k]
<1>3. ASSUME HandleReverse(r), UNCHANGED drop,
             NEW io \in Route(FlushPending(Io, Ipv4Src(hdr)), KeyIp[k], m, hdr),
             Becomes(io)
      PROVE  Served /\ IoInv' /\ InOrder(Io, Io')
  <2>1. Served
    BY <1>1, <1>3, OthersServe, ZenonT(20)
  <2>2. reverse_[r] \in Live
    BY <1>1, <1>3, ZenonT(20) DEF HandleReverse, TableInv, MapsAgree
  <2>3. k \in FlowKey
    BY <1>1, <2>2, LiveFacts, ZenonT(20) DEF TableInv, Restored
  <2>4. hdr \in Header /\ hdr.dir = "rev"
    BY <2>3, ZenonT(20) DEF Header
  <2>5. hdr # Probe
    BY <2>4, ZenonT(20) DEF Probe
  <2>6. KeyIp[k] \in Ip /\ (KeyIp[k] = NoIp => ~ClientsAddressed) /\ Ipv4Src(hdr) \in Ip
    BY <2>3, <2>4, AddressFacts, ZenonT(20) DEF Ipv4Src, ClientsAddressed
  <2> HIDE DEF hdr, k
  <2>7. hdr \in Sendable(heap') /\ [m |-> m, hdr |-> hdr, age |-> 0] \in Holdable(heap')
    BY <2>4, <2>5, CarriedNew, ZenonT(20)
  <2> QED
    BY <1>1, <1>3, <2>1, <2>4, <2>6, <2>7, RouteStep, ZenonT(20)
<1> QED
  BY <1>2, <1>3, ZenonT(20) DEF HandleToGateway

(* Handling any packet. *)
LEMMA PacketStep ==
  ASSUME ReadyKeeps, ControlInv, IoInv, Packet
  PROVE  Served /\ IoInv' /\ InOrder(Io, Io')
<1>0. TableInv /\ UpstreamTypeOK /\ Addressed /\ Source \subseteq Ip
  BY AddressFacts DEF ControlInv
<1>1. ASSUME NEW m \in Mbuf, HandleArpRequest(m)
      PROVE  Served /\ IoInv' /\ InOrder(Io, Io')
  <2>1. Served
    BY <1>0, <1>1, OthersServe DEF HandleArpRequest, l4Vars
  <2> QED
    BY <1>1, <2>1, AnswerStep DEF HandleArpRequest
<1>2. ASSUME NEW m \in Mbuf, NEW ip \in Source, HandleArpReply(m, ip) \/ HandleStray(m, ip)
      PROVE  Served /\ IoInv' /\ InOrder(Io, Io')
  <2>1. /\ UNCHANGED l4Vars /\ Handle(m) /\ Dropping(m, FlushPending(Io, ip))
        /\ ip \in Ip
    BY <1>0, <1>2 DEF HandleArpReply, HandleStray
  <2>2. Served
    BY <1>0, <2>1, OthersServe
  <2> QED
    BY <2>1, <2>2, DropStep
<1>3. ASSUME NEW m \in Mbuf, HandleOther(m)
      PROVE  Served /\ IoInv' /\ InOrder(Io, Io')
  <2>1. UNCHANGED l4Vars /\ Handle(m) /\ Dropping(m, Io)
    BY <1>3 DEF HandleOther, l4Vars
  <2>2. Served
    BY <1>0, <2>1, OthersServe
  <2>3. FlushPending(Io, NoIp) = Io
    BY DEF FlushPending
  <2> QED
    BY <2>1, <2>2, <2>3, DropStep, PendingFacts
<1> QED
  BY <1>1, <1>2, <1>3, ToVipStep, ToGatewayStep DEF Packet
(* A packet that has not expired keeps its session through expire: the     *)
(* session was used no earlier than the packet, and sessions time out no   *)
(* earlier than held packets.                                              *)
LEMMA ExpireCarries ==
  ASSUME TableInv, TableInv', Kept
  PROVE  Holdable(heap) \subseteq Holdable(heap')
<1> SUFFICES ASSUME NEW e \in Holdable(heap)
             PROVE  e \in Holdable(heap')
  OBVIOUS
<1>1. e \in Waiting(Header) /\ e.hdr # Probe
  BY DEF Holdable
<1>2. /\ e.age \in Nat
      /\ PendingTimeout \in Nat /\ IdleTimeout \in Nat /\ PendingTimeout <= IdleTimeout
  BY <1>1, PendingFacts, GatewayAssumption, TimerFacts DEF Waiting
<1>3. ASSUME e.hdr.dir = "fwd", e.age < PendingTimeout
      PROVE  \E s \in Ptr : /\ heap'[s] # nullptr
                            /\ heap'[s].key = e.hdr.key
                            /\ Translation(heap'[s]) = e.hdr.to
                            /\ heap'[s].idle <= e.age
  <2>1. PICK s \in Ptr : /\ heap[s] # nullptr
                         /\ heap[s].key = e.hdr.key
                         /\ Translation(heap[s]) = e.hdr.to
                         /\ heap[s].idle <= e.age
    BY <1>3 DEF Holdable
  <2>2. s \in Live /\ heap[s].idle \in Nat
    <3>1. s \in Live /\ TableTypeOK
      BY <2>1 DEF TableInv, Live
    <3>2. heap[s].idle \in 0 .. IdleTimeout
      BY <3>1, LiveFacts, ZenonT(20)
    <3> QED
      BY <1>2, <3>1, <3>2
  <2>3. heap[s].idle < IdleTimeout
    BY <1>2, <1>3, <2>1, <2>2
  <2>4. /\ s \in Live'
        /\ heap'[s].key = heap[s].key
        /\ Translation(heap'[s]) = Translation(heap[s])
        /\ heap'[s].idle <= heap[s].idle
    BY <2>2, <2>3 DEF Kept, Translation
  <2>5. heap'[s] # nullptr /\ heap'[s].idle \in Nat
    BY <1>2, <2>4 DEF TableInv, TableTypeOK, Session, Live
  <2>6. heap'[s].idle <= e.age
    BY <1>2, <2>1, <2>2, <2>4, <2>5
  <2> QED
    BY <2>1, <2>4, <2>5, <2>6
<1> QED
  BY <1>1, <1>3 DEF Holdable

(* A held packet and its session grow older together. *)
LEMMA WaitCarries ==
  ASSUME TableInv, NEW d \in Nat, IdleFor(d), NEW e \in Holdable(heap)
  PROVE  [e EXCEPT !.age = Later(e.age, d, PendingTimeout)] \in Holdable(heap')
<1> DEFINE age == Later(e.age, d, PendingTimeout)
           f == [e EXCEPT !.age = age]
<1>1. e \in Waiting(Header) /\ e.hdr # Probe
  BY DEF Holdable
<1>2. e.age \in Nat /\ PendingTimeout \in Nat /\ IdleTimeout \in Nat
  BY <1>1, PendingFacts, TimerFacts DEF Waiting
<1>3. age \in 0 .. PendingTimeout /\ (age < PendingTimeout => age = e.age + d)
  BY <1>2 DEF Later, Min2
<1> HIDE DEF age
<1>4. f \in Waiting(Header) /\ f.hdr = e.hdr /\ f.age = age
  BY <1>1, <1>3 DEF Waiting
<1> HIDE DEF f
<1>5. ASSUME f.hdr.dir = "fwd", f.age < PendingTimeout
      PROVE  \E s \in Ptr : /\ heap'[s] # nullptr
                            /\ heap'[s].key = f.hdr.key
                            /\ Translation(heap'[s]) = f.hdr.to
                            /\ heap'[s].idle <= f.age
  <2>1. f.age = e.age + d /\ e.age < PendingTimeout
    BY <1>2, <1>3, <1>4, <1>5
  <2>2. PICK s \in Ptr : /\ heap[s] # nullptr
                         /\ heap[s].key = e.hdr.key
                         /\ Translation(heap[s]) = e.hdr.to
                         /\ heap[s].idle <= e.age
    BY <1>4, <1>5, <2>1 DEF Holdable
  <2>3. s \in Live /\ heap[s].idle \in Nat
    BY <1>2, <2>2 DEF TableInv, TableTypeOK, Session, Live
  <2>4. /\ s \in Live'
        /\ heap'[s].key = heap[s].key
        /\ Translation(heap'[s]) = Translation(heap[s])
        /\ heap'[s].idle = IF heap[s].idle + d < IdleTimeout
                             THEN heap[s].idle + d ELSE IdleTimeout
    BY <2>3, IdleForEffect DEF Translation
  <2>5. heap'[s].idle <= f.age
    BY <1>2, <2>1, <2>2, <2>3, <2>4
  <2> QED
    BY <1>4, <2>2, <2>4, <2>5 DEF Live
<1>6. f \in Holdable(heap')
  BY <1>1, <1>4, <1>5 DEF Holdable
<1> QED
  BY <1>6 DEF f, age

(* A step that leaves the packets alone. *)
LEMMA QuietStep ==
  ASSUME IoInv, UNCHANGED ioVars, pc' = "burst" => pc = "burst",
         pc = "burst" => pc' = "burst" /\ UNCHANGED heap,
         Holdable(heap) \subseteq Holdable(heap')
  PROVE  IoInv' /\ InOrder(Io, Io')
<1>1. Io' = Io /\ rx' = rx /\ drop' = drop /\ tx' = tx /\ Io.tx = tx
  BY DEF Io, ioVars
<1>2. Sound(Io, Header, Sendable(heap), Holdable(heap))
  BY DEF IoInv
<1>3. Sendable(heap) \subseteq Sendable(heap') \/ Io.tx = <<>>
  BY <1>1 DEF IoInv
<1>4. Sound(Io, Header, Sendable(heap'), Holdable(heap'))
  BY <1>2, <1>3, SoundGrows
<1>5. InOrder(Io, Io')
  BY <1>1, <1>2, SameBatchInOrder
<1> QED
  BY <1>1, <1>4, <1>5, ZenonT(20) DEF IoInv
(* The clock advances. *)
LEMMA TopStep ==
  ASSUME ControlInv, IoInv, NEW d \in 0 .. MaxStep, Top(d)
  PROVE  IoInv' /\ InOrder(Io, Io')
<1> DEFINE r == Waited(Io, d)
<1>1. /\ pc = "top" /\ pc' = "sessions" /\ IdleFor(d) /\ Becomes(r)
      /\ rx' = rx /\ drop' = drop /\ d \in Nat /\ TableInv
  BY TimerFacts DEF Top, ControlInv
<1>2. /\ Sound(Io, Header, Sendable(heap), Holdable(heap))
      /\ Owned(rx, drop, Io) /\ rx = <<>> /\ Io.tx = <<>> /\ drop = {}
  BY <1>1 DEF IoInv, Io
<1>3. Ages(Holdable(heap), Holdable(heap'), d)
  BY <1>1, WaitCarries DEF Ages
<1>4. /\ Sound(r, Header, Sendable(heap'), Holdable(heap'))
      /\ \A x : Somewhere(r, x) <=> Somewhere(Io, x)
      /\ r.tx = <<>>
  BY <1>1, <1>2, <1>3, WaitSound, ZenonT(20)
<1> HIDE DEF r
<1>5. Io' = r /\ tx' = <<>>
  BY <1>1, <1>4, BecomesIo, ZenonT(20) DEF Sound, Becomes
<1>6. Owned(rx', drop', r)
  BY <1>1, <1>2, <1>4, SamePlacesApart DEF Owned
<1>7. InOrder(Io, r)
  BY <1>2, <1>4, SameBatchInOrder, ZenonT(20)
<1> QED
  BY <1>1, <1>2, <1>4, <1>5, <1>6, <1>7, ZenonT(20) DEF IoInv

(* expire_pending frees what was held too long. *)
LEMMA ExpireArpStep ==
  ASSUME ReadyKeeps, IoInv, ExpireArp
  PROVE  IoInv' /\ InOrder(Io, Io')
<1>1. /\ pc = "arp" /\ pc' = "poll" /\ heap' = heap /\ rx' = rx /\ drop' = drop
      /\ Becomes(ExpirePending(Io)) \/ Becomes(Io)
  BY DEF ExpireArp, l4Vars, tableVars
<1>2. /\ Sound(Io, Header, Sendable(heap), Holdable(heap))
      /\ Owned(rx, drop, Io) /\ rx = <<>> /\ Io.tx = <<>> /\ drop = {}
  BY <1>1 DEF IoInv, Io
<1>3. CASE Becomes(Io)
  <2>1. UNCHANGED ioVars
    BY <1>1, <1>3 DEF Becomes, Io, ioVars
  <2> QED
    BY <1>1, <2>1, QuietStep
<1>4. CASE Becomes(ExpirePending(Io))
  <2> DEFINE r == ExpirePending(Io)
  <2>1. /\ Sound(r, Header, Sendable(heap), Holdable(heap))
        /\ \A x : Somewhere(r, x) <=> Somewhere(Io, x)
    BY <1>2, ExpirePendingSound, ZenonT(20)
  <2>2. Io' = r
    BY <1>4, <2>1, BecomesIo DEF Sound
  <2>3. r.tx = Io.tx /\ tx' = <<>>
    BY <1>2, <1>4 DEF ExpirePending, Io, Becomes
  <2> HIDE DEF r
  <2>4. Owned(rx', drop', r)
    BY <1>1, <1>2, <2>1, SamePlacesApart DEF Owned
  <2>5. InOrder(Io, r)
    BY <1>2, <2>3, SameBatchInOrder, ZenonT(20)
  <2> QED
    BY <1>1, <1>2, <2>1, <2>2, <2>3, <2>4, <2>5, ZenonT(20) DEF IoInv
<1> QED
  BY <1>1, <1>3, <1>4

(* recv_burst hands mbufs over. *)
LEMMA RecvStep ==
  ASSUME IoInv, NEW b \in Bursts, Recv(b)
  PROVE  IoInv' /\ InOrder(Io, Io')
<1> DEFINE r == [Io EXCEPT !.outside = @ \ {b[i] : i \in 1 .. Len(b)}]
<1>1. /\ pc = "recv" /\ heap' = heap /\ rx' = b /\ drop' = drop /\ tx' = tx
      /\ pc' = IF b = <<>> THEN "top" ELSE "burst"
  BY DEF Recv, l4Vars, tableVars
<1>2. /\ Sound(Io, Header, Sendable(heap), Holdable(heap))
      /\ Owned(<<>>, {}, Io) /\ tx = <<>> /\ drop = {}
  BY <1>1 DEF IoInv
<1>3. PICK n \in 0 .. Burst : b \in [1 .. n -> outside]
  BY DEF Bursts
<1>4. Io.outside = outside /\ outside \subseteq Mbuf /\ n \in Nat
  <2>1. Io \in IoType(Header) /\ Io.outside = outside
    BY <1>2 DEF Io, Sound
  <2>2. Io.outside \in SUBSET Mbuf
    BY <2>1, IoFacts
  <2> QED
    BY <1>3, <2>1, <2>2, PendingFacts
<1>5. /\ b \in Seq(Mbuf)
      /\ \A i \in 1 .. Len(b) : b[i] \in Io.outside
      /\ \A i, j \in 1 .. Len(b) : b[i] = b[j] => i = j
  <2>1. Len(b) = n /\ b \in [1 .. n -> Mbuf]
    BY <1>3, <1>4
  <2>2. b \in Seq(Mbuf)
    BY <1>4, <2>1
  <2>3. \A i, j \in 1 .. Len(b) : b[i] = b[j] => i = j
    BY DEF Bursts
  <2> QED
    BY <1>3, <1>4, <2>1, <2>2, <2>3
<1>6. /\ Sound(r, Header, Sendable(heap), Holdable(heap))
      /\ Apart(b, {}, r)
      /\ Complete(<<>>, {}, Io) => Complete(b, {}, r)
  BY <1>2, <1>5, RecvApart
<1>7. /\ r.tx = Io.tx /\ r.tx = tx /\ r.pending = arp_pending_
      /\ r.probed = arp_probe_last_ms_
      /\ r.outside = outside \ {b[i] : i \in 1 .. Len(b)}
  BY DEF Io
<1> HIDE DEF r
<1>8. Io' = r
  BY <1>6, <1>7, BecomesIo, ZenonT(20) DEF Recv, Becomes, Sound
<1>9. InOrder(Io, r)
  BY <1>2, <1>7, SameBatchInOrder
<1> QED
  BY <1>1, <1>2, <1>6, <1>8, <1>9 DEF IoInv, Owned

(* The batch and the dropped mbufs are handed back. *)
LEMMA SendStep ==
  ASSUME IoInv, SendBurst
  PROVE  IoInv' /\ InOrder(Io, Io')
<1> DEFINE r == HandedBack(Io, drop)
<1>1. /\ heap' = heap /\ rx = <<>> /\ rx' = rx /\ drop' = {} /\ tx' = <<>> /\ pc' = "top"
  BY DEF SendBurst, l4Vars, tableVars
<1>2. Sound(Io, Header, Sendable(heap), Holdable(heap)) /\ Owned(<<>>, drop, Io)
  BY <1>1 DEF IoInv
<1>3. /\ r.tx = <<>> /\ r.pending = arp_pending_ /\ r.probed = arp_probe_last_ms_
      /\ r.outside = outside \cup Mbufs(tx) \cup drop
  BY DEF Io, HandedBack
<1>4. /\ Sound(r, Header, Sendable(heap), Holdable(heap))
      /\ Apart(<<>>, {}, r)
      /\ Complete(<<>>, drop, Io) => Complete(<<>>, {}, r)
  <2>1. Apart(<<>>, drop, Io)
    BY <1>2 DEF Owned
  <2> QED
    BY <1>2, <2>1, SendApart
<1> HIDE DEF r
<1>5. Io' = r
  BY <1>3, <1>4, BecomesIo, ZenonT(20) DEF SendBurst, Becomes, Sound
<1>6. InOrder(Io, r)
  BY <1>2, <1>3, SameBatchInOrder, ZenonT(20)
<1> QED
  BY <1>1, <1>2, <1>4, <1>5, <1>6 DEF IoInv, Owned
-----------------------------------------------------------------------------
(* The invariant of the worker *)

(* The worker starts with all mbufs outside. *)
LEMMA GatewayInvInit == GatewayInit => GatewayInv
<1> SUFFICES ASSUME GatewayInit
             PROVE  GatewayInv
  OBVIOUS
<1>1. ControlInv
  <2>1. TableInv /\ NeighborInv
    BY InitInv, NeighborInvInit DEF GatewayInit
  <2>2. UpstreamTypeOK
    <3>1. rr_counter_ = 0 /\ \E c \in Config : nodes_ = c.endpoints /\ policy_ = c.policy
      BY DEF GatewayInit
    <3> QED
      BY <3>1, ForwarderAssumption, UpstreamTableAssumption DEF UpstreamTypeOK
  <2>3. Addressed /\ cursor = 0
    BY DEF GatewayInit, TableInit, Addressed, Live
  <2>4. pc = "top" /\ since_expire \in 0 .. ExpireInterval /\ since_poll \in 0 .. PollInterval
    <3>1. pc = "top" /\ since_expire = 0 /\ since_poll = 0
      BY DEF GatewayInit
    <3> QED
      BY <3>1, GatewayAssumption
  <2> QED
    BY <2>1, <2>2, <2>3, <2>4 DEF ControlInv, Stage
<1>2. /\ Io.tx = <<>> /\ Io.pending = [ip \in Ip |-> <<>>] /\ Io.outside = Mbuf
      /\ Io.probed = [ip \in Ip |-> nullptr]
      /\ Io = [tx |-> Io.tx, pending |-> Io.pending, probed |-> Io.probed, outside |-> Io.outside]
  BY DEF GatewayInit, Io
<1>3. rx = <<>> /\ tx = <<>> /\ drop = {}
  BY DEF GatewayInit
<1>4. Sound(Io, Header, Sendable(heap), Holdable(heap)) /\ Owned(<<>>, {}, Io)
  BY <1>2, StartSound DEF Owned
<1> QED
  BY <1>1, <1>3, <1>4 DEF GatewayInv, IoInv

(* Every step of the worker preserves the invariant, and no packet that is *)
(* held overtakes another.                                                 *)
LEMMA GatewayInvNext ==
  ASSUME ReadyKeeps, GatewayInv, [GatewayNext]_gatewayVars
  PROVE  GatewayInv' /\ InOrder(Io, Io')
<1>0. ControlInv /\ IoInv /\ TableInv
  BY DEF GatewayInv, ControlInv
<1>1. Packet => Served /\ IoInv' /\ InOrder(Io, Io')
  BY <1>0, PacketStep
<1>2. ControlInv' /\ TableInv'
  BY <1>0, <1>1, ControlNext DEF ControlInv
<1>3. ASSUME Sessions \/ Expiring
      PROVE  IoInv' /\ InOrder(Io, Io')
  <2>1. /\ UNCHANGED ioVars /\ pc \in {"sessions", "expiring"} /\ pc' \in {"expiring", "arp"}
        /\ ExpireBegin \/ ExpireLoop \/ UNCHANGED tableVars
    BY <1>3 DEF Sessions, Expiring
  <2>2. Kept
    BY <1>0, <2>1, ExpireKeeps, SameTable
  <2>3. Holdable(heap) \subseteq Holdable(heap')
    BY <1>0, <1>2, <2>2, ExpireCarries
  <2> QED
    BY <1>0, <2>1, <2>3, QuietStep
<1>4. ASSUME Poll \/ UNCHANGED gatewayVars
      PROVE  IoInv' /\ InOrder(Io, Io')
  <2>1. UNCHANGED ioVars /\ UNCHANGED heap /\ (pc = "burst" <=> pc' = "burst")
    BY <1>4 DEF Poll, gatewayVars, l4Vars, tableVars
  <2> QED
    BY <1>0, <2>1, QuietStep
<1>5. IoInv' /\ InOrder(Io, Io')
  BY <1>0, <1>1, <1>3, <1>4, TopStep, ExpireArpStep, RecvStep, SendStep DEF GatewayNext, Overrun
<1> QED
  BY <1>2, <1>5 DEF GatewayInv

-----------------------------------------------------------------------------
(* What the invariant implies *)

(* The variables of the worker have their types. *)
LEMMA InvTypes == GatewayInv => GatewayTypeOK
<1> SUFFICES ASSUME GatewayInv
             PROVE  GatewayTypeOK
  OBVIOUS
<1>1. /\ TableTypeOK /\ UpstreamTypeOK /\ NeighborTypeOK /\ pc \in Stage
      /\ cursor # 0 <=> pc = "expiring"
      /\ since_expire \in 0 .. ExpireInterval /\ since_arp \in 0 .. ArpExpireInterval
      /\ since_poll \in 0 .. PollInterval
  BY DEF GatewayInv, ControlInv, TableInv, NeighborInv
<1>2. Io \in IoType(Header) /\ Bounded(Io) /\ Apart(rx, drop, Io)
  BY DEF GatewayInv, IoInv, Sound, Owned
<1>3. /\ Io.tx = tx /\ Io.pending = arp_pending_ /\ Io.probed = arp_probe_last_ms_
      /\ Io.outside = outside
  BY DEF Io
<1>4. /\ outside \subseteq Mbuf /\ tx \in Seq(Sent(Header))
      /\ arp_pending_ \in [Ip -> Seq(Waiting(Header))]
      /\ arp_probe_last_ms_ \in [Ip -> (0 .. ProbeInterval) \cup {nullptr}]
  BY <1>2, <1>3, IoFacts, ZenonT(20)
<1>5. rx \in Seq(Mbuf) /\ drop \subseteq Mbuf
  BY <1>2 DEF Apart
<1>6. \A ip \in Ip : Len(arp_pending_[ip]) <= PendingMax
  BY <1>2, <1>3 DEF Bounded
<1> QED
  BY <1>1, <1>4, <1>5, <1>6, ZenonT(20) DEF GatewayTypeOK, Held, Sent, Waiting

(* An mbuf is queued once at most, and lost only to a client with address  *)
(* 0.0.0.0.                                                                *)
LEMMA InvPlaces ==
  ASSUME GatewayInv, NEW m \in Mbuf
  PROVE  /\ AtMostOnce(Queued(m), drop, outside, m)
         /\ Nowhere(Queued(m), drop, outside, m) => \E k \in FlowKey : KeyIp[k] = NoIp
<1>1. Tidy(Io) /\ Apart(rx, drop, Io) /\ (ClientsAddressed => Complete(rx, drop, Io))
  BY DEF GatewayInv, IoInv, Sound, Owned
<1>2. Io.tx = tx /\ Io.pending = arp_pending_ /\ Io.outside = outside
  BY DEF Io
<1>3. ~ClientsAddressed => \E k \in FlowKey : KeyIp[k] = NoIp
  BY ZenonT(20) DEF ClientsAddressed
<1>4. Queued(m) = Places(rx, Io.tx, Io.pending, m)
  <2>1. Queued(m) = Places(rx, tx, arp_pending_, m)
    BY ZenonT(20) DEF Places, Queued
  <2> QED
    BY <1>2, <2>1
<1>5. /\ AtMostOnce(Queued(m), drop, Io.outside, m)
      /\ Nowhere(Queued(m), drop, Io.outside, m) => ~Complete(rx, drop, Io)
  BY <1>1, <1>4, OnePlace
<1> QED
  BY <1>1, <1>2, <1>3, <1>5

(* What is about to be transmitted belongs to a session that exists. *)
LEMMA InvTxOwned == GatewayInv => TxOwned
<1> SUFFICES ASSUME GatewayInv, NEW i \in 1 .. Len(tx), tx[i].hdr.dir = "fwd"
             PROVE  /\ reverse_[tx[i].hdr.to] # nullptr
                    /\ heap[reverse_[tx[i].hdr.to]].key = tx[i].hdr.key
  BY DEF TxOwned
<1>1. Carries(Io, Sendable(heap), Holdable(heap)) /\ Io.tx = tx /\ MapsAgree
  BY ZenonT(20) DEF GatewayInv, IoInv, Sound, Io, ControlInv, TableInv
<1>2. tx[i].hdr \in Sendable(heap)
  BY <1>1 DEF Carries
<1>3. PICK s \in Ptr : /\ heap[s] # nullptr
                       /\ heap[s].key = tx[i].hdr.key
                       /\ Translation(heap[s]) = tx[i].hdr.to
  BY <1>2 DEF Sendable
<1>4. reverse_[<<heap[s].up, heap[s].snat>>] = s
  BY <1>1, <1>3, ZenonT(20) DEF MapsAgree, Live
<1>5. s # nullptr
  BY SessionTableAssumption
<1> QED
  BY <1>3, <1>4, <1>5 DEF Translation

(* A step that lets no held packet overtake another is one of HeldFifo. *)
LEMMA InvHeldFifo ==
  ASSUME ReadyKeeps, GatewayInv, [GatewayNext]_gatewayVars
  PROVE  [HeldInOrder]_gatewayVars
<1> SUFFICES ASSUME GatewayInv, [GatewayNext]_gatewayVars
             PROVE  HeldInOrder
  OBVIOUS
<1>1. InOrder(Io, Io')
  BY GatewayInvNext
<1>2. /\ Io.pending = arp_pending_ /\ Io'.tx = tx' /\ Io'.pending = arp_pending_'
  BY DEF Io
<1>3. ASSUME NEW p \in Ip, NEW i \in 1 .. Len(arp_pending_[p]),
             NEW j \in 1 .. Len(arp_pending_[p]), i < j,
             NEW b \in 1 .. Len(tx'),
             tx'[b].m = arp_pending_[p][j].m, tx'[b].hdr = arp_pending_[p][j].hdr
      PROVE  /\ \A n \in 1 .. Len(arp_pending_'[p]) :
                  arp_pending_'[p][n].m # arp_pending_[p][i].m
             /\ \A a \in 1 .. Len(tx') :
                  /\ tx'[a].m = arp_pending_[p][i].m
                  /\ tx'[a].hdr = arp_pending_[p][i].hdr
                  => a < b
  BY <1>1, <1>2, <1>3, ZenonT(20) DEF InOrder, InBatch
<1>4. ASSUME NEW p \in Ip, NEW i \in 1 .. Len(arp_pending_[p]),
             NEW j \in 1 .. Len(arp_pending_[p]), i < j, SentAt(arp_pending_[p][j]) # {}
      PROVE  /\ arp_pending_[p][i].m \notin Mbufs(arp_pending_'[p])
             /\ \A a \in SentAt(arp_pending_[p][i]), b \in SentAt(arp_pending_[p][j]) : a < b
  <2>1. PICK b \in 1 .. Len(tx') :
          tx'[b].m = arp_pending_[p][j].m /\ tx'[b].hdr = arp_pending_[p][j].hdr
    BY <1>4 DEF SentAt
  <2>2. arp_pending_[p][i].m \notin Mbufs(arp_pending_'[p])
    BY <1>3, <1>4, <2>1, ZenonT(20) DEF Mbufs
  <2>3. \A a \in SentAt(arp_pending_[p][i]), c \in SentAt(arp_pending_[p][j]) : a < c
    BY <1>3, <1>4, ZenonT(20) DEF SentAt
  <2> QED
    BY <2>2, <2>3
<1> QED
  BY <1>4, ZenonT(20) DEF HeldInOrder

-----------------------------------------------------------------------------
(* Counting: from here on the theorems on finite sets are at hand *)

INSTANCE FiniteSetTheorems

(* The subsequence of q at the positions S lists the elements of q at      *)
(* these positions, in order: f maps its positions to theirs.              *)
Lists(r, q, S, f) ==
  /\ f \in [1 .. Len(r) -> S]
  /\ \A a, b \in 1 .. Len(r) : a < b => f[a] < f[b]
  /\ \A i \in S : \E a \in 1 .. Len(r) : f[a] = i
  /\ \A a \in 1 .. Len(r) : r[a] = q[f[a]]

(* Counting the smaller elements numbers a finite set of positions. *)
LEMMA RankFacts ==
  ASSUME NEW n \in Nat, NEW S \in SUBSET (1 .. n)
  PROVE  LET rank(i) == Cardinality({j \in S : j < i})
         IN /\ IsFiniteSet(S) /\ Cardinality(S) \in Nat /\ Cardinality(S) <= n
            /\ \A i \in S : rank(i) \in 0 .. (Cardinality(S) - 1)
            /\ \A i, k \in S : i < k => rank(i) < rank(k)
            /\ \A c \in 0 .. (Cardinality(S) - 1) : \E i \in S : rank(i) = c
<1> DEFINE below(i) == {j \in S : j < i}
           rank(i) == Cardinality(below(i))
<1>1. IsFiniteSet(S) /\ Cardinality(S) \in Nat /\ Cardinality(S) <= n
  <2>1. IsFiniteSet(1 .. n) /\ Cardinality(1 .. n) = n
    BY FS_Interval
  <2> QED
    BY <2>1, FS_Subset, FS_CardinalityType, ZenonT(20)
<1>2. \A i : IsFiniteSet(below(i)) /\ rank(i) \in Nat
  BY <1>1, FS_Subset, FS_CardinalityType
<1>3. ASSUME NEW i \in S, NEW B \in SUBSET S, IsFiniteSet(B), i \in B,
             \A j \in below(i) : j \in B
      PROVE  rank(i) < Cardinality(B)
  <2>0. \A j \in below(i) : j # i
    OBVIOUS
  <2>1. below(i) \in SUBSET (B \ {i})
    BY <1>3, <2>0, ZenonT(20)
  <2>2. IsFiniteSet(B \ {i}) /\ Cardinality(B \ {i}) = Cardinality(B) - 1
    BY <1>3, FS_RemoveElement
  <2>3. rank(i) <= Cardinality(B \ {i})
    <3> HIDE DEF below
    <3> QED
      BY <2>1, <2>2, FS_Subset
  <2>4. Cardinality(B) \in Nat
    BY <1>3, FS_CardinalityType
  <2> QED
    BY <1>2, <2>2, <2>3, <2>4
<1>4. \A i \in S : rank(i) \in 0 .. (Cardinality(S) - 1)
  <2>1. \A i \in S : rank(i) < Cardinality(S)
    BY <1>1, <1>3
  <2>2. \A i \in S : rank(i) \in Nat
    BY <1>2
  <2> HIDE DEF rank
  <2> QED
    BY <1>1, <2>1, <2>2
<1>5. ASSUME NEW i \in S, NEW k \in S, i < k
      PROVE  rank(i) < rank(k)
  <2>1. below(k) \in SUBSET S /\ i \in below(k) /\ \A j \in below(i) : j \in below(k)
    BY <1>5
  <2>2. IsFiniteSet(below(k))
    BY <1>2
  <2>3. rank(i) < Cardinality(below(k))
    <3> HIDE DEF below
    <3> QED
      BY <1>3, <2>1, <2>2
  <2> QED
    BY <2>3
<1>6. ASSUME NEW c \in 0 .. (Cardinality(S) - 1), \A i \in S : rank(i) # c
      PROVE  FALSE
  <2> DEFINE C == 0 .. (Cardinality(S) - 1)
             f == [i \in S |-> rank(i)]
  <2>1. IsFiniteSet(C) /\ Cardinality(C) = Cardinality(S)
    BY <1>1, FS_Interval
  <2>2. IsFiniteSet(C \ {c}) /\ Cardinality(C \ {c}) = Cardinality(C) - 1
    BY <2>1, FS_RemoveElement, ZenonT(20)
  <2>3. f \in [S -> C \ {c}]
    <3> HIDE DEF rank
    <3> QED
      BY <1>4, <1>6
  <2>4. Cardinality(C \ {c}) < Cardinality(S)
    BY <1>1, <2>1, <2>2
  <2> HIDE DEF C, f
  <2>5. PICK x, y \in S : x # y /\ f[x] = f[y]
    BY <1>1, <2>2, <2>3, <2>4, FS_PigeonHole, ZenonT(20)
  <2>6. rank(x) = rank(y)
    BY <2>5 DEF f
  <2>7. rank(x) \in Nat /\ rank(y) \in Nat /\ (x < y \/ y < x)
    BY <1>2, <2>5
  <2> HIDE DEF rank
  <2> QED
    BY <1>5, <2>6, <2>7
<1> HIDE DEF rank
<1>7. \A c \in 0 .. (Cardinality(S) - 1) : \E i \in S : rank(i) = c
  BY <1>6
<1> USE DEF rank
<1> QED
  BY <1>1, <1>4, <1>5, <1>7, ZenonT(20)

(* What Subsequence returns. *)
LEMMA SubsequenceFacts ==
  ASSUME NEW T, NEW q \in Seq(T), NEW S \in SUBSET (1 .. Len(q))
  PROVE  /\ Subsequence(q, S) \in Seq(T)
         /\ Len(Subsequence(q, S)) <= Len(q)
         /\ \E f : Lists(Subsequence(q, S), q, S, f)
<1> DEFINE rank(i) == Cardinality({j \in S : j < i})
           C == Cardinality(S)
           nth(a) == CHOOSE i \in S : rank(i) = a - 1
           f == [a \in 1 .. C |-> nth(a)]
           r == Subsequence(q, S)
<1>1. Len(q) \in Nat /\ \A i \in 1 .. Len(q) : q[i] \in T
  BY LenProperties, ElementOfSeq
<1>0. \A i \in S : i \in Nat
  BY <1>1
<1>2. /\ C \in Nat /\ C <= Len(q)
      /\ \A i \in S : rank(i) \in 0 .. (C - 1)
      /\ \A i, k \in S : i < k => rank(i) < rank(k)
      /\ \A c \in 0 .. (C - 1) : \E i \in S : rank(i) = c
  BY <1>1, RankFacts, ZenonT(20)
<1>3. r = [a \in 1 .. C |-> q[nth(a)]]
  BY DEF Subsequence
<1> HIDE DEF rank, C, r
<1>4. \A a \in 1 .. C : f[a] \in S /\ rank(f[a]) = a - 1
  <2>1. \A a \in 1 .. C : a - 1 \in 0 .. (C - 1)
    BY <1>2
  <2>2. \A a \in 1 .. C : \E i \in S : rank(i) = a - 1
    BY <1>2, <2>1
  <2> QED
    BY <2>2
<1>5. \A a \in 1 .. C : f[a] \in 1 .. Len(q) /\ r[a] = q[f[a]]
  BY <1>3, <1>4, ZenonT(20)
<1>6. r \in Seq(T) /\ Len(r) = C
  <2>1. r \in [1 .. C -> T]
    BY <1>1, <1>3, <1>4, <1>5
  <2>2. r \in Seq(T)
    BY <1>2, <2>1, SeqDef
  <2> QED
    BY <1>2, <2>1, <2>2
<1>7. \A a, b \in 1 .. C : a < b => f[a] < f[b]
  <2> SUFFICES ASSUME NEW a \in 1 .. C, NEW b \in 1 .. C, a < b, ~(f[a] < f[b])
               PROVE  FALSE
    BY <1>4
  <2>1. f[a] \in S /\ f[b] \in S /\ rank(f[a]) = a - 1 /\ rank(f[b]) = b - 1
    BY <1>4
  <2> HIDE DEF f
  <2>2. f[b] < f[a] \/ f[a] = f[b]
    <3>1. f[a] \in Nat /\ f[b] \in Nat
      BY <1>0, <2>1, ZenonT(20)
    <3> QED
      BY <3>1
  <2>3. rank(f[b]) < rank(f[a]) \/ rank(f[a]) = rank(f[b])
    BY <1>2, <2>1, <2>2, ZenonT(20)
  <2> QED
    BY <1>2, <2>1, <2>3
<1>8. ASSUME NEW i \in S
      PROVE  \E a \in 1 .. C : f[a] = i
  <2>1. rank(i) \in 0 .. (C - 1)
    BY <1>2
  <2>2. rank(i) + 1 \in 1 .. C /\ (rank(i) + 1) - 1 = rank(i)
    BY <1>2, <2>1
  <2> DEFINE a == rank(i) + 1
  <2>3. f[a] \in S /\ rank(f[a]) = rank(i)
    BY <1>4, <2>2
  <2> HIDE DEF f, a
  <2>4. ~(f[a] < i) /\ ~(i < f[a])
    <3>1. ~(rank(f[a]) < rank(i)) /\ ~(rank(i) < rank(f[a]))
      BY <2>1, <2>3
    <3> QED
      BY <1>2, <2>3, <3>1, ZenonT(20)
  <2>5. f[a] = i
    <3>1. f[a] \in Nat /\ i \in Nat
      BY <1>0, <2>3, ZenonT(20)
    <3> QED
      BY <2>4, <3>1
  <2> QED
    BY <2>2, <2>5 DEF a
<1>9. f \in [1 .. C -> S]
  BY <1>4, ZenonT(20)
<1> HIDE DEF f
<1>10. Lists(r, q, S, f)
  BY <1>5, <1>6, <1>7, <1>8, <1>9 DEF Lists
<1> QED
  BY <1>2, <1>6, <1>10 DEF r

(* flush_pending keeps the packets that have not expired, in their order. *)
LEMMA ReadyFacts == ReadyKeeps
<1> SUFFICES ASSUME NEW H, NEW q \in Seq(Waiting(H))
             PROVE  /\ Ready(q) \in Seq(Waiting(H))
                    /\ Len(Ready(q)) \in Nat /\ Len(Ready(q)) <= Len(q)
                    /\ \E f : Keeps(Ready(q), q, f)
  BY DEF ReadyKeeps
<1> DEFINE S == (1 .. Len(q)) \ Expired(q)
<1>1. S \in SUBSET (1 .. Len(q))
  OBVIOUS
<1>2. Len(q) \in Nat /\ \A i \in 1 .. Len(q) : q[i] \in Waiting(H)
  BY LenProperties, ElementOfSeq
<1>3. \A i \in S : i \in 1 .. Len(q) /\ q[i].age < PendingTimeout
  <2>1. \A i \in 1 .. Len(q) : q[i].age \in Int
    BY <1>2, PendingFacts DEF Waiting
  <2> QED
    BY <2>1, PendingFacts DEF Expired
<1>4. \A i \in 1 .. Len(q) : i \in S \/ i \in Expired(q)
  OBVIOUS
<1>5. Ready(q) = Subsequence(q, S)
  BY DEF Ready
<1> HIDE DEF S
<1> DEFINE r == Ready(q)
<1>6. /\ r \in Seq(Waiting(H)) /\ Len(r) <= Len(q)
      /\ \E f : Lists(r, q, S, f)
  BY <1>1, <1>5, SubsequenceFacts
<1>7. PICK f : Lists(r, q, S, f)
  BY <1>6
<1> HIDE DEF r
<1>8. Keeps(r, q, f)
  BY <1>3, <1>4, <1>7, ZenonT(20) DEF Lists, Keeps
<1>9. Len(r) \in Nat
  BY <1>6, LenProperties
<1> QED
  BY <1>6, <1>8, <1>9 DEF r

-----------------------------------------------------------------------------
(* The theorems *)

(* The invariant holds in every state of the worker. *)
LEMMA GatewayInvariant == GatewaySpec => []GatewayInv
<1>1. GatewayInv /\ [GatewayNext]_gatewayVars => GatewayInv'
  BY ReadyFacts, GatewayInvNext
<1> QED
  BY <1>1, GatewayInvInit, PTL DEF GatewaySpec

(* The worker is type correct: in particular no queue of held packets is   *)
(* longer than PendingMax, whatever is received and learned in whichever   *)
(* order, and packets are never handled while expire walks the sessions.   *)
THEOREM GatewayTypes == GatewaySpec => []GatewayTypeOK
<1>1. GatewayInv => GatewayTypeOK
  BY InvTypes
<1> QED
  BY <1>1, GatewayInvariant, PTL

(* No mbuf is ever in two places, and none is lost unless a client has     *)
(* address 0.0.0.0, for every number of mbufs and queues, every burst size *)
(* and every order of packets, timers and ARP answers.                     *)
THEOREM GatewayMbufOwnership == GatewaySpec => []MbufOwnership
<1>1. GatewayInv => MbufOwnership
  <2> SUFFICES ASSUME GatewayInv, NEW m \in Mbuf
               PROVE  LET owners == Cardinality(Queued(m)) + (IF m \in drop THEN 1 ELSE 0)
                                      + (IF m \in outside THEN 1 ELSE 0)
                      IN owners \in {0, 1} /\ (owners = 0 => \E k \in FlowKey : KeyIp[k] = NoIp)
    BY DEF MbufOwnership
  <2>1. CASE Queued(m) = {}
    <3>1. Cardinality(Queued(m)) = 0
      BY <2>1, FS_EmptySet
    <3>2. /\ m \notin drop \/ m \notin outside
          /\ m \notin drop /\ m \notin outside => \E k \in FlowKey : KeyIp[k] = NoIp
      BY <2>1, InvPlaces DEF AtMostOnce, Nowhere
    <3> QED
      BY <3>1, <3>2
  <2>2. CASE Queued(m) # {}
    <3>1. PICK a : Queued(m) = {a} /\ m \notin drop /\ m \notin outside
      BY <2>2, InvPlaces DEF AtMostOnce
    <3>2. Cardinality(Queued(m)) = 1
      BY <3>1, FS_Singleton
    <3> QED
      BY <3>1, <3>2
  <2> QED
    BY <2>1, <2>2
<1> QED
  BY <1>1, GatewayInvariant, PTL

(* A packet to an upstream is transmitted only while the session that      *)
(* translated it exists, however long it was held and whichever sessions   *)
(* expired meanwhile: because packets are not held for longer than a       *)
(* session may be idle.                                                    *)
THEOREM GatewayTxOwned == GatewaySpec => []TxOwned
<1>1. GatewayInv => TxOwned
  BY InvTxOwned
<1> QED
  BY <1>1, GatewayInvariant, PTL

(* Packets held for one next hop never overtake one another, for every     *)
(* length of the queues and the batch.                                     *)
THEOREM GatewayHeldFifo == GatewaySpec => HeldFifo
<1>1. GatewayInv /\ [GatewayNext]_gatewayVars => [HeldInOrder]_gatewayVars
  BY ReadyFacts, InvHeldFifo
<1> QED
  BY <1>1, GatewayInvariant, PTL DEF GatewaySpec, HeldFifo

=============================================================================
