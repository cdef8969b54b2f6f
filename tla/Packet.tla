-------------------------------- MODULE Packet --------------------------------
(***************************************************************************)
(* The packet parser and the checksums (src/packet.cpp).  A frame is a     *)
(* record: the length of its first segment, its Ethernet header and, by    *)
(* EtherType, an ARP or an IPv4 part.  An address is a pair of 16-bit      *)
(* words, since the checksums are sums of words.  Header words that no     *)
(* handler changes are one sum, ip.rest, and body[k] is the sum of the     *)
(* first k words that follow the UDP header.                               *)
(*                                                                         *)
(* What the NIC wrote past the end of a short frame is whatever its record *)
(* says: the handlers must look at dlen first.                             *)
(***************************************************************************)
EXTENDS Integers, Sequences

MaxWord == 65535
Word == 0 .. MaxWord
Address == Word \X Word
NoAddress == <<0, 0>>

EthHdrLen == 14
MinIpHdrLen == 20
UdpHdrLen == 8
ArpHdrLen == 28
ProtoUdp == 17

Ipv4Header ==
  [version : 0 .. 15, ihl : 0 .. 15, mf : BOOLEAN, offset : Word, proto : Word,
   tlen : Word, rest : Nat, src : Address, dst : Address, cksum : Word]
UdpHeader == [sport : Word, dport : Word, len : Word, cksum : Word]
ArpHeader(Mac) ==
  [formatOk : BOOLEAN, op : Word, sha : Mac, spa : Address, tha : Mac, tpa : Address]

Ipv4Frames(Mac) ==
  [dlen : Word, etype : {"ipv4"}, eth_src : Mac, eth_dst : Mac,
   ip : Ipv4Header, udp : UdpHeader, body : Seq(Nat)]
ArpFrames(Mac) ==
  [dlen : Word, etype : {"arp"}, eth_src : Mac, eth_dst : Mac, arp : ArpHeader(Mac)]
OtherFrames(Mac) ==
  [dlen : Word, etype : {"other"}, eth_src : Mac, eth_dst : Mac]

ParseStatus == {"ok", "too_short", "not_ipv4", "not_udp", "fragmented",
                "bad_ip_checksum", "bad_udp_checksum"}

(* headers_fit: need is a uint16_t, so the caller's sum is reduced. *)
HeadersFit(f, need) == f.dlen >= need % 65536

Ethertype(f) == IF HeadersFit(f, EthHdrLen) THEN f.etype ELSE "none"

ihl(f) == 4 * f.ip.ihl

-----------------------------------------------------------------------------
(* One's complement sums of 16-bit words *)

(* A sum with its carries added back in. *)
Folded(sum) == IF sum = 0 THEN 0 ELSE ((sum - 1) % 65535) + 1

Words(a) == a[1] + a[2]

(* rte_ipv4_cksum, the checksum field being zero. *)
IpCksum(ip) ==
  65535 - Folded(ip.rest + ip.tlen + Words(ip.src) + Words(ip.dst))

BodySum(body, k) == IF k = 0 THEN 0 ELSE body[k]

(* The words of a UDP packet with its pseudo header, n bytes long. *)
UdpSum(f, n) ==
  Words(f.ip.src) + Words(f.ip.dst) + ProtoUdp + n
    + f.udp.sport + f.udp.dport + f.udp.len
    + BodySum(f.body, (n - UdpHdrLen) \div 2)

(* rte_ipv4_udptcp_cksum, the checksum field being zero.  It takes the     *)
(* length from the IPv4 header.  Whether it replaces 0 by 0xffff itself    *)
(* depends on the version of DPDK.                                         *)
UdpCksum(f, dpdkFixesZero) ==
  LET c == 65535 - Folded(UdpSum(f, f.ip.tlen - ihl(f)))
  IN IF c = 0 /\ dpdkFixesZero THEN 65535 ELSE c

UdpChecksumOk(f, dpdkFixesZero) ==
  LET saved == f.udp.cksum
      calc == UdpCksum(f, dpdkFixesZero)
  IN saved = 0 \/ saved = calc \/ (saved = 65535 /\ calc = 0)

RefreshIpv4Checksum(f) == [f EXCEPT !.ip.cksum = IpCksum(f.ip)]

RefreshUdpKeepsZero(f, dpdkFixesZero) ==
  [f EXCEPT !.udp.cksum = UdpCksum(f, dpdkFixesZero)]

(* refresh_udp_checksum: 0 would mean that there is no checksum. *)
RefreshUdpChecksum(f, dpdkFixesZero) ==
  LET c == UdpCksum(f, dpdkFixesZero)
  IN [f EXCEPT !.udp.cksum = IF c = 0 THEN 65535 ELSE c]

ClearUdpChecksum(f) == [f EXCEPT !.udp.cksum = 0]

-----------------------------------------------------------------------------
(* Parsers *)

ParseUdpSumOnly(f, verify_cksum, dpdkFixesZero) ==
  IF \/ ~HeadersFit(f, EthHdrLen + MinIpHdrLen + UdpHdrLen)
     \/ f.etype # "ipv4" \/ f.ip.version # 4 \/ ihl(f) < MinIpHdrLen
     \/ f.ip.mf \/ f.ip.offset # 0 \/ f.ip.proto # ProtoUdp
     \/ f.udp.len < UdpHdrLen
     \/ ~HeadersFit(f, EthHdrLen + ihl(f) + f.udp.len)
    THEN "too_short"
  ELSE IF verify_cksum /\ f.ip.cksum # IpCksum(f.ip) THEN "bad_ip_checksum"
  ELSE IF verify_cksum /\ ~UdpChecksumOk(f, dpdkFixesZero) THEN "bad_udp_checksum"
  ELSE "ok"

ParseUdpIgnoresIp(f, verify_cksum, dpdkFixesZero) ==
  IF \/ ParseUdpSumOnly(f, FALSE, dpdkFixesZero) # "ok"
     \/ ~HeadersFit(f, EthHdrLen + ihl(f) + UdpHdrLen)
    THEN "too_short"
  ELSE IF verify_cksum /\ ~UdpChecksumOk(f, dpdkFixesZero) THEN "bad_udp_checksum"
  ELSE "ok"

ParseUdpIpv4(f, verify_cksum, dpdkFixesZero) ==
  IF ~HeadersFit(f, EthHdrLen + MinIpHdrLen + UdpHdrLen) THEN "too_short"
  ELSE IF f.etype # "ipv4" THEN "not_ipv4"
  ELSE IF f.ip.version # 4 \/ ihl(f) < MinIpHdrLen THEN "not_ipv4"
  ELSE IF ~HeadersFit(f, EthHdrLen + ihl(f) + UdpHdrLen) THEN "too_short"
  ELSE IF f.ip.mf \/ f.ip.offset # 0 THEN "fragmented"
  ELSE IF f.ip.proto # ProtoUdp THEN "not_udp"
  ELSE IF f.udp.len < UdpHdrLen THEN "too_short"
  ELSE IF ~HeadersFit(f, EthHdrLen + ihl(f) + f.udp.len) THEN "too_short"
  ELSE IF verify_cksum /\ f.ip.cksum # IpCksum(f.ip) THEN "bad_ip_checksum"
  ELSE IF verify_cksum /\ ~UdpChecksumOk(f, dpdkFixesZero) THEN "bad_udp_checksum"
  ELSE "ok"

(* parse_arp; formatOk is the test of the four fields that say "IPv4 over  *)
(* Ethernet".                                                              *)
ParseArp(f) ==
  IF ~HeadersFit(f, EthHdrLen + ArpHdrLen) THEN "too_short"
  ELSE IF f.etype # "arp" THEN "not_ipv4"
  ELSE IF ~f.arp.formatOk THEN "too_short"
  ELSE "ok"

(* passive_learn_ipv4: what is learned from a frame. *)
PassiveLearnIpv4(f) ==
  IF /\ HeadersFit(f, EthHdrLen + MinIpHdrLen)
     /\ f.etype = "ipv4"
     /\ f.ip.src # NoAddress
     /\ f.ip.src[1] \div 256 < 224
    THEN {[ip |-> f.ip.src, mac |-> f.eth_src]}
    ELSE {}

-----------------------------------------------------------------------------
(* Reference definitions *)

(* The frame holds a complete UDP datagram in an IPv4 packet that is not a *)
(* fragment.                                                               *)
Datagram(f) ==
  LET end == EthHdrLen + 4 * f.ip.ihl + f.udp.len
  IN /\ f.etype = "ipv4"
     /\ f.dlen >= EthHdrLen + MinIpHdrLen + UdpHdrLen
     /\ f.ip.version = 4 /\ f.ip.ihl >= 5
     /\ ~f.ip.mf /\ f.ip.offset = 0
     /\ f.ip.proto = 17
     /\ f.udp.len >= 8
     /\ end <= f.dlen

(* The IPv4 length leaves room for the UDP header, and body goes as far. *)
Covered(f) ==
  /\ f.ip.tlen - 4 * f.ip.ihl >= UdpHdrLen
  /\ (f.ip.tlen - 4 * f.ip.ihl - UdpHdrLen) \div 2 <= Len(f.body)

(* The IPv4 packet is its header and the datagram, nothing else. *)
ExactLength(f) == f.ip.tlen = 4 * f.ip.ihl + f.udp.len

(* RFC 791: the header's words, with the checksum, sum to all ones. *)
IpValid(f) ==
  Folded(f.ip.rest + f.ip.tlen + Words(f.ip.src) + Words(f.ip.dst) + f.ip.cksum) = 65535

(* RFC 768: no checksum, or the words up to the UDP length sum to all ones. *)
UdpValid(f) ==
  f.udp.cksum = 0 \/ Folded(UdpSum(f, f.udp.len) + f.udp.cksum) = 65535
===============================================================================
