----------------------------- MODULE MCFramePath -----------------------------
(* Instances of FramePath for TLC: 10.0.0.x clients, the VIP               *)
(* 192.168.1.100, the gateway 192.168.1.10, an upstream 192.168.1.20.      *)
EXTENDS FramePath

MCVipIp == <<49320, 356>>
MCGatewayIp == <<49320, 266>>
MCUpstream == {[ip |-> <<49320, 276>>, port |-> 9000]}
Client == <<2560, 5>>
MCMacOf(ip) == CASE ip = Client -> "client" [] ip = <<49320, 276>> -> "upstream" [] OTHER -> "else"
MCMac == {"peer", "gw", "zero", "client", "upstream", "else"}

Ip4(version, hl, mf, offset, proto, tlen, src, dst) ==
  LET ip == [version |-> version, ihl |-> hl, mf |-> mf, offset |-> offset,
             proto |-> proto, tlen |-> tlen, rest |-> 17921,
             src |-> src, dst |-> dst, cksum |-> 0]
  IN [ip EXCEPT !.cksum = IpCksum(ip)]

Ipv4Frame(dlen, ip, udp, body) ==
  [dlen |-> dlen, etype |-> "ipv4", eth_src |-> "peer", eth_dst |-> "gw",
   ip |-> ip, udp |-> udp, body |-> body]

(* Every combination of the lengths and fields that the parser looks at,   *)
(* at and around their limits.                                             *)
Shapes ==
  {Ipv4Frame(dlen, Ip4(version, hl, mf, offset, proto, 4 * hl + 12, Client, MCVipIp),
             [sport |-> 7, dport |-> 8000, len |-> len, cksum |-> 0], <<1, 3>>) :
     dlen \in {13, 14, 33, 34, 41, 42, 46, 47, 82, 65535},
     version \in {4, 6}, hl \in {4, 5, 6, 15},
     mf \in BOOLEAN, offset \in {0, 1}, proto \in {6, 17},
     len \in {7, 8, 12, 13, 65461, 65462, 65501, 65502}}

(* A datagram of one word, with what follows it in the segment: nothing    *)
(* more in the IPv4 packet, or one more word.                              *)
OneWord(w, more, src, sport, dst, dport) ==
  Ipv4Frame(46, Ip4(4, 5, FALSE, 0, 17, 30 + 2 * more, src, dst),
            [sport |-> sport, dport |-> dport, len |-> 10, cksum |-> 0], <<w, w + 9>>)

(* The words that make the UDP checksum 0 on one of the legs, and others. *)
Payloads ==
  LET leg(src, sport, dst, dport) ==
        UdpCksum(OneWord(0, 0, src, sport, dst, dport), FALSE)
      zero == {leg(Client, 7, MCVipIp, 8000),
               leg(MCGatewayIp, 40000, <<49320, 276>>, 9000),
               leg(<<49320, 276>>, 9000, MCGatewayIp, 40000),
               leg(MCVipIp, 8000, Client, 7)}
  IN {0, 1, 65534, 65535} \cup UNION {{w - 1, w, w + 1} : w \in zero}

Datagrams(words, surplus) ==
  {OneWord(w, more, src, 7, dst, dport) :
     w \in words, more \in surplus, src \in {Client, NoAddress, <<57344, 1>>},
     dst \in {MCVipIp, MCGatewayIp}, dport \in {8000, 40000}}

(* The checksums are missing, right or wrong. *)
Checksummed(f) ==
  {f, RefreshUdpChecksum(f, TRUE), [f EXCEPT !.udp.cksum = 65535],
   [f EXCEPT !.ip.cksum = (@ + 1) % 65536],
   [RefreshUdpChecksum(f, TRUE) EXCEPT !.udp.cksum = (@ + 1) % 65536]}

Arps ==
  {[dlen |-> dlen, etype |-> "arp", eth_src |-> "peer", eth_dst |-> "gw",
    arp |-> [formatOk |-> ok, op |-> op, sha |-> sha, spa |-> spa,
             tha |-> "zero", tpa |-> tpa]] :
     dlen \in {13, 41, 42, 60}, ok \in BOOLEAN, op \in {1, 2, 3},
     sha \in {"peer", "zero"}, spa \in {Client, NoAddress},
     tpa \in {MCVipIp, MCGatewayIp, Client}}

Others == {[dlen |-> dlen, etype |-> "other", eth_src |-> "peer", eth_dst |-> "gw"] :
             dlen \in {13, 60}}

MCReceived ==
  Shapes \cup Arps \cup Others
    \cup UNION {Checksummed(f) : f \in Datagrams(Payloads, {0})}

(* Datagrams that end before their IPv4 packet does. *)
MCSurplus == {f \in Datagrams({1}, {0, 1}) : f.ip.src = Client}

MCOption == [verify : BOOLEAN, recompute : BOOLEAN, fixesZero : BOOLEAN]
MCRecompute == [verify : {FALSE}, recompute : {TRUE}, fixesZero : BOOLEAN]
=============================================================================
