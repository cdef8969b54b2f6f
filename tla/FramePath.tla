------------------------------ MODULE FramePath ------------------------------
(***************************************************************************)
(* What the worker does to the bytes of a frame: VioletGW::handle          *)
(* (src/vgw.cpp) with the ARP handler (src/arp.cpp) and the translations   *)
(* of the forwarder (src/forward.cpp).  One frame is followed from the NIC *)
(* until it is dropped or transmitted, also when it is held for a MAC in   *)
(* between, and then the upstream's answer to it on its way back.          *)
(*                                                                         *)
(* Which session a flow gets, and when a MAC is known, are decided in      *)
(* modules Forwarder and Gateway; here both are chosen freely.             *)
(***************************************************************************)
EXTENDS Packet

CONSTANTS
  nullptr,
  Received,     \* frames that arrive
  VipIp, VipPort,
  Mac,
  GatewayIp, GatewayMac,
  Upstream,     \* [ip, port] of the upstreams
  SnatPort,     \* ports that alloc_snat_port may return
  MacOf(_),     \* the MAC of a next hop
  ZeroMac,
  Option        \* verify_checksum, recompute_udp_checksum, and DPDK's version

ASSUME FramePathAssumption ==
  /\ {VipIp, GatewayIp} \subseteq Address
  /\ VipIp # GatewayIp
  /\ VipPort \in Word /\ SnatPort \subseteq Word
  /\ Upstream \subseteq [ip : Address, port : Word]
  /\ Option \subseteq [verify : BOOLEAN, recompute : BOOLEAN, fixesZero : BOOLEAN]
  /\ GatewayMac \in Mac /\ \A ip \in {f.ip.src : f \in Received \cap Ipv4Frames(Mac)}
                                  \cup {u.ip : u \in Upstream} : MacOf(ip) \in Mac
  /\ Received \subseteq Ipv4Frames(Mac) \cup ArpFrames(Mac) \cup OtherFrames(Mac)
  /\ \A f \in Received \cap Ipv4Frames(Mac) : Covered(f)

VARIABLES
  stage,    \* "rx", held on the way out or back, or how handling ended
  frame,    \* the bytes now
  rcvd,     \* the bytes as they were received
  request,  \* history: the client's frame that the session was created for
  session,
  hop,      \* the address whose queue holds the frame
  learned,  \* what was put in the neighbor table
  option

frameVars == <<stage, frame, rcvd, request, session, hop, learned, option>>

Held == {"held_forward", "held_reverse"}
Done == {"drop", "tx_forward", "tx_reverse", "tx_arp"}

FrameTypeOK ==
  /\ stage \in {"rx"} \cup Held \cup Done
  /\ frame \in Ipv4Frames(Mac) \cup ArpFrames(Mac) \cup OtherFrames(Mac)
  /\ \A e \in learned : e.ip \in Address \ {NoAddress}
  /\ option \in Option

FrameInit ==
  /\ \E f \in Received, o \in Option : frame = f /\ rcvd = f /\ option = o
  /\ stage = "rx"
  /\ request = nullptr /\ session = nullptr /\ hop = NoAddress /\ learned = {}

-----------------------------------------------------------------------------
(* ARP *)

IsProxyTarget(ip) == ip \in {GatewayIp, VipIp}

MakeReplyOverwrites(f, reply_ip) ==
  LET g1 == [f EXCEPT !.eth_dst = f.eth_src]
      g2 == [g1 EXCEPT !.eth_src = GatewayMac]
      g3 == [g2 EXCEPT !.arp.op = 2]
      g4 == [g3 EXCEPT !.arp.sha = GatewayMac]
      g5 == [g4 EXCEPT !.arp.tha = g4.arp.sha]
      g6 == [g5 EXCEPT !.arp.spa = reply_ip]
      g7 == [g6 EXCEPT !.arp.tpa = g5.arp.spa]
  IN [g7 EXCEPT !.dlen = EthHdrLen + ArpHdrLen]

(* make_reply overwrites the request, one field after the other: each      *)
(* field is read from the bytes as they are by then.                       *)
MakeReply(f, reply_ip) ==
  LET g1 == [f EXCEPT !.eth_dst = f.eth_src]
      g2 == [g1 EXCEPT !.eth_src = GatewayMac]
      g3 == [g2 EXCEPT !.arp.op = 2]
      g4 == [g3 EXCEPT !.arp.tha = g3.arp.sha]
      g5 == [g4 EXCEPT !.arp.sha = GatewayMac]
      g6 == [g5 EXCEPT !.arp.spa = reply_ip]
      g7 == [g6 EXCEPT !.arp.tpa = g5.arp.spa]
  IN [g7 EXCEPT !.dlen = EthHdrLen + ArpHdrLen]

HandleReplyAny(f) == {[ip |-> f.arp.spa, mac |-> f.arp.sha]}

(* handle_reply: what is learned. *)
HandleReply(f) ==
  IF f.arp.spa = NoAddress \/ f.arp.sha = ZeroMac THEN {}
  ELSE {[ip |-> f.arp.spa, mac |-> f.arp.sha]}

ArpRequest(f) == ParseArp(f) = "ok" /\ f.arp.op = 1 /\ IsProxyTarget(f.arp.tpa)
ArpReply(f) == ParseArp(f) = "ok" /\ f.arp.op = 2

HandleArp ==
  /\ stage = "rx"
  /\ Ethertype(frame) = "arp"
  /\ IF ArpRequest(frame)
       THEN stage' = "tx_arp" /\ frame' = MakeReply(frame, frame.arp.tpa)
       ELSE stage' = "drop" /\ UNCHANGED frame
  /\ learned' = IF ArpReply(frame) THEN HandleReply(frame) ELSE {}
  /\ UNCHANGED <<rcvd, request, session, hop, option>>

HandleOther ==
  /\ stage = "rx"
  /\ Ethertype(frame) \notin {"arp", "ipv4"}
  /\ stage' = "drop"
  /\ UNCHANGED <<frame, rcvd, request, session, hop, learned, option>>

-----------------------------------------------------------------------------
(* Translation *)

FinishL4Checksum(f) ==
  LET g == RefreshIpv4Checksum(f)
  IN IF option.recompute THEN RefreshUdpChecksum(g, option.fixesZero)
     ELSE ClearUdpChecksum(g)

ApplyForwardNat(f, s) ==
  FinishL4Checksum([f EXCEPT
    !.ip.src = GatewayIp, !.ip.dst = s.upstream_ip,
    !.udp.sport = s.snat_port, !.udp.dport = s.upstream_port])

ApplyReverseNatToSnat(f, s) ==
  FinishL4Checksum([f EXCEPT
    !.ip.src = s.vip_ip, !.ip.dst = s.client_ip,
    !.udp.sport = s.vip_port])

ApplyReverseNat(f, s) ==
  FinishL4Checksum([f EXCEPT
    !.ip.src = s.vip_ip, !.ip.dst = s.client_ip,
    !.udp.sport = s.vip_port, !.udp.dport = s.client_port])

(* The session that create() makes for the flow of frame f. *)
NewSession(f, up, snat) ==
  [client_ip |-> f.ip.src, client_port |-> f.udp.sport,
   vip_ip |-> f.ip.dst, vip_port |-> f.udp.dport,
   upstream_ip |-> up.ip, upstream_port |-> up.port, snat_port |-> snat]

(* lookup_reverse finds session s for frame f. *)
ReverseOf(f, s) ==
  /\ s # nullptr
  /\ f.ip.src = s.upstream_ip /\ f.udp.sport = s.upstream_port
  /\ f.udp.dport = s.snat_port

SetL2DstOnly(f, mac) == [f EXCEPT !.eth_dst = mac]

SetL2(f, mac) == [f EXCEPT !.eth_src = GatewayMac, !.eth_dst = mac]

(* The end of handle_forward and handle_reverse: g is the translated       *)
(* packet, and ip its next hop.  Without a MAC the packet goes to the      *)
(* queue of that address.                                                  *)
Resolve(g, ip, sent, held) ==
  \/ stage' = sent /\ frame' = SetL2(g, MacOf(ip)) /\ UNCHANGED hop
  \/ stage' = held /\ frame' = g /\ hop' = ip

Parsed(f) == ParseUdpIpv4(f, option.verify, option.fixesZero) = "ok"
ToVip(f) == f.ip.dst = VipIp /\ f.udp.dport = VipPort

Learn == learned' = PassiveLearnIpv4(frame)

HandleIpv4 ==
  /\ stage = "rx"
  /\ Ethertype(frame) = "ipv4"
  /\ UNCHANGED <<rcvd, option>>

HandleForward(up, snat) ==
  /\ HandleIpv4
  /\ Parsed(frame) /\ ToVip(frame)
  /\ session' = NewSession(frame, up, snat)
  /\ request' = frame
  /\ Resolve(ApplyForwardNat(frame, session'), session'.upstream_ip,
             "tx_forward", "held_forward")
  /\ Learn

HandleReverse ==
  /\ HandleIpv4
  /\ Parsed(frame) /\ ~ToVip(frame) /\ frame.ip.dst = GatewayIp
  /\ ReverseOf(frame, session)
  /\ Resolve(ApplyReverseNat(frame, session), session.client_ip,
             "tx_reverse", "held_reverse")
  /\ Learn
  /\ UNCHANGED <<request, session>>

(* Neither of the two: also a packet for the VIP when there is no upstream *)
(* or no port for it.                                                      *)
Drop ==
  /\ HandleIpv4
  /\ \/ ~Parsed(frame)
     \/ ToVip(frame)
     \/ ~(frame.ip.dst = GatewayIp /\ ReverseOf(frame, session))
  /\ stage' = "drop"
  /\ UNCHANGED <<frame, request, session, hop>>
  /\ Learn

(* finish_l2 on a held frame, once the MAC of the queue's address is       *)
(* known; enqueue_pending puts nothing in a queue of 0.0.0.0.              *)
FinishL2 ==
  /\ stage \in Held
  /\ hop # NoAddress
  /\ ParseUdpIpv4(frame, FALSE, option.fixesZero) = "ok"
  /\ frame' = SetL2(frame, MacOf(hop))
  /\ stage' = IF stage = "held_forward" THEN "tx_forward" ELSE "tx_reverse"
  /\ UNCHANGED <<rcvd, request, session, hop, learned, option>>

(* Frame f sent back to where it came from. *)
Answer(f) ==
  RefreshIpv4Checksum([f EXCEPT
    !.eth_src = f.eth_dst, !.eth_dst = f.eth_src,
    !.ip.src = f.ip.dst, !.ip.dst = f.ip.src,
    !.udp.sport = f.udp.dport, !.udp.dport = f.udp.sport])

(* The upstream answers, with or without a UDP checksum. *)
UpstreamAnswers ==
  /\ stage = "tx_forward"
  /\ \E g \in {ClearUdpChecksum(Answer(frame)), RefreshUdpChecksum(Answer(frame), TRUE)} :
       frame' = g /\ rcvd' = g
  /\ stage' = "rx"
  /\ learned' = {}
  /\ UNCHANGED <<request, session, hop, option>>

FrameNext ==
  \/ HandleArp
  \/ HandleOther
  \/ \E up \in Upstream, snat \in SnatPort : HandleForward(up, snat)
  \/ HandleReverse
  \/ Drop
  \/ FinishL2
  \/ UpstreamAnswers

FrameSpec == FrameInit /\ [][FrameNext]_frameVars

-----------------------------------------------------------------------------
(* Properties *)

(* With verify_checksum the parser accepts exactly the datagrams whose     *)
(* checksums are right.  An IPv4 checksum of 0xffff, the other             *)
(* representation of 0, is left open: the parser compares for equality.    *)
VerifyExact ==
  /\ rcvd.etype = "ipv4" /\ Datagram(rcvd) /\ ExactLength(rcvd)
  /\ option.verify /\ rcvd.ip.cksum # MaxWord
  => (ParseUdpIpv4(rcvd, TRUE, option.fixesZero) = "ok" <=> IpValid(rcvd) /\ UdpValid(rcvd))

Translated == stage \in Held \cup {"tx_forward", "tx_reverse"}

(* Whatever the length fields say, also when the parser's 16-bit sum of    *)
(* them wraps around: every header field that is rewritten in a frame, on  *)
(* arrival or after the frame was held, lies in the received segment.      *)
HeadersInside ==
  /\ Translated => EthHdrLen + 4 * frame.ip.ihl + UdpHdrLen <= rcvd.dlen
  /\ stage = "tx_arp" => EthHdrLen + ArpHdrLen <= rcvd.dlen

(* A translated packet is one that its receiver accepts: both checksums    *)
(* are right for the addresses and ports it leaves with, a recomputed UDP  *)
(* checksum does not read "none", and finish_l2 can still parse the packet *)
(* when it was held.                                                       *)
ReceiverAccepts ==
  Translated /\ ExactLength(frame) =>
    /\ ParseUdpIpv4(frame, FALSE, option.fixesZero) = "ok"
    /\ IpValid(frame)
    /\ UdpValid(frame)
    /\ option.recompute <=> frame.udp.cksum # 0

(* The client gets the upstream's answer as if the VIP had answered its    *)
(* own packet: addresses and ports are those of its request, swapped.      *)
RoundTrip ==
  stage = "tx_reverse" =>
    /\ frame.ip.src = request.ip.dst /\ frame.udp.sport = request.udp.dport
    /\ frame.ip.dst = request.ip.src /\ frame.udp.dport = request.udp.sport

(* A translated packet leaves with the gateway's MAC as its source, for    *)
(* the MAC of the next hop, whether it was held for that MAC or not, and   *)
(* with everything that is not an address, a port or a checksum as it was  *)
(* received.                                                               *)
TxAddressed ==
  stage \in {"tx_forward", "tx_reverse"} =>
    /\ frame.eth_src = GatewayMac
    /\ frame.eth_dst = MacOf(IF stage = "tx_forward" THEN session.upstream_ip
                             ELSE session.client_ip)
    /\ <<frame.dlen, frame.ip.tlen, frame.ip.rest, frame.udp.len, frame.body>>
         = <<rcvd.dlen, rcvd.ip.tlen, rcvd.ip.rest, rcvd.udp.len, rcvd.body>>

(* A request for the VIP or the gateway is answered to the asker: the      *)
(* reply, written over the request, binds the asked address to the         *)
(* gateway's MAC and names the asker as it named itself.                   *)
ArpAnswered ==
  stage = "tx_arp" =>
    /\ frame.arp.op = 2
    /\ frame.arp.spa = rcvd.arp.tpa /\ frame.arp.sha = GatewayMac
    /\ frame.arp.tpa = rcvd.arp.spa /\ frame.arp.tha = rcvd.arp.sha
    /\ frame.eth_dst = rcvd.eth_src /\ frame.eth_src = GatewayMac
    /\ frame.arp.spa \in {VipIp, GatewayIp}

(* "Passes payload length from the UDP length field." (packet.hpp:65): a   *)
(* recomputed UDP checksum is right for the datagram that the UDP length   *)
(* describes.                                                              *)
UdpLengthChecksummed ==
  Translated /\ option.recompute => UdpValid(frame)
=============================================================================
