--------------------------- MODULE FramePathProofs ---------------------------
(***************************************************************************)
(* What the frame path does to every frame, for every set of frames that   *)
(* may arrive and every address, port and option.                          *)
(***************************************************************************)
EXTENDS FramePath, TLAPS

-----------------------------------------------------------------------------
(* One's complement sums *)

(* What the type of a 16-bit number says. *)
LEMMA WordRange ==
  \A n : n \in Word <=> n \in Int /\ 0 <= n /\ n <= 65535
<1>1. MaxWord = 65535
  BY DEF MaxWord
<1>2. MaxWord \in Int
  BY <1>1
<1>3. \A n : n \in Word <=> n \in Int /\ 0 <= n /\ n <= MaxWord
  BY <1>2 DEF Word
<1> QED
  BY <1>1, <1>3

(* A remainder lies below its divisor. *)
LEMMA ModRange ==
  ASSUME NEW n \in Int
  PROVE  n % 65535 \in Int /\ 0 <= n % 65535 /\ n % 65535 <= 65534
OBVIOUS

(* A folded sum is a word, and is 0 only for the sum 0. *)
LEMMA FoldedWord ==
  ASSUME NEW s \in Nat
  PROVE  /\ Folded(s) \in Int /\ 0 <= Folded(s) /\ Folded(s) <= 65535
         /\ s > 0 => Folded(s) > 0
<1> DEFINE r == (s - 1) % 65535
<1>1. r \in Int /\ 0 <= r /\ r <= 65534
  BY ModRange, s - 1 \in Int
<1>2. Folded(s) = IF s = 0 THEN 0 ELSE r + 1
  BY DEF Folded
<1> HIDE DEF r
<1> QED
  BY <1>1, <1>2

(* A sum and its complement, the value that the checksum functions store,  *)
(* fold to all ones.                                                       *)
LEMMA ComplementValid ==
  ASSUME NEW s \in Nat
  PROVE  Folded(s + (65535 - Folded(s))) = 65535
BY DEF Folded

(* Apart from 0 and 0xffff, only the complement completes a sum. *)
LEMMA ComplementUnique ==
  ASSUME NEW s \in Nat, NEW c \in Nat, 0 < c, c < 65535, Folded(s + c) = 65535
  PROVE  c = 65535 - Folded(s)
BY DEF Folded

(* 0 and 0xffff complete the same sums. *)
LEMMA ZeroOrOnes ==
  ASSUME NEW s \in Nat \ {0}
  PROVE  /\ Folded(s + 65535) = 65535 <=> Folded(s) = 65535
         /\ Folded(s + 0) = 65535 <=> Folded(s) = 65535
BY DEF Folded

-----------------------------------------------------------------------------
(* The parser *)

IpTotal(ip) == ip.rest + ip.tlen + Words(ip.src) + Words(ip.dst)

(* The numbers in an IPv4 frame. *)
LEMMA Numbers ==
  ASSUME NEW f \in Ipv4Frames(Mac)
  PROVE  /\ f.etype = "ipv4" /\ f.dlen \in Nat /\ f.ip.ihl \in Nat /\ f.ip.ihl <= 15
         /\ f.ip.tlen \in Nat /\ f.ip.rest \in Nat
         /\ f.udp.len \in Nat /\ f.udp.sport \in Nat /\ f.udp.dport \in Nat
         /\ f.ip.cksum \in Nat /\ f.ip.cksum <= 65535
         /\ f.udp.cksum \in Nat /\ f.udp.cksum <= 65535
         /\ f.dlen <= 65535
         /\ f.ip.src \in Address /\ f.ip.dst \in Address
         /\ f.body \in Seq(Nat)
<1>1. f.ip \in Ipv4Header /\ f.udp \in UdpHeader /\ f.dlen \in Word
  BY DEF Ipv4Frames
<1>2. f.etype = "ipv4" /\ f.body \in Seq(Nat)
  BY DEF Ipv4Frames
<1>3. /\ f.ip.ihl \in 0 .. 15 /\ f.ip.rest \in Nat
      /\ f.ip.tlen \in Word /\ f.ip.cksum \in Word
      /\ f.ip.src \in Address /\ f.ip.dst \in Address
  BY <1>1 DEF Ipv4Header
<1>4. /\ f.udp.len \in Word /\ f.udp.cksum \in Word
      /\ f.udp.sport \in Word /\ f.udp.dport \in Word
  BY <1>1 DEF UdpHeader
<1>5. f.dlen \in Nat /\ f.dlen <= 65535
  BY <1>1, WordRange
<1>6. f.ip.tlen \in Nat /\ f.ip.cksum \in Nat /\ f.ip.cksum <= 65535
  BY <1>3, WordRange
<1>7. /\ f.udp.len \in Nat /\ f.udp.sport \in Nat /\ f.udp.dport \in Nat
      /\ f.udp.cksum \in Nat /\ f.udp.cksum <= 65535
  BY <1>4, WordRange
<1>8. f.ip.ihl \in Nat /\ f.ip.ihl <= 15
  BY <1>3
<1> QED
  BY <1>2, <1>3, <1>5, <1>6, <1>7, <1>8

(* The two words of an address have a sum. *)
LEMMA WordsNat ==
  ASSUME NEW a \in Address
  PROVE  Words(a) \in Nat
BY WordRange DEF Words, Address

(* The words of an IPv4 header have a sum. *)
LEMMA IpTotalNat ==
  ASSUME NEW f \in Ipv4Frames(Mac)
  PROVE  IpTotal(f.ip) \in Nat
BY Numbers, WordsNat DEF IpTotal

(* The words of a datagram that body covers have a sum, which is not 0:    *)
(* the protocol number is one of them.                                     *)
LEMMA UdpSumNat ==
  ASSUME NEW f \in Ipv4Frames(Mac), NEW n \in Nat,
         n >= UdpHdrLen, (n - UdpHdrLen) \div 2 <= Len(f.body)
  PROVE  UdpSum(f, n) \in Nat \ {0}
<1> DEFINE k == (n - UdpHdrLen) \div 2
<1>1. k \in Nat
  BY DEF UdpHdrLen
<1>2. f.body \in Seq(Nat)
  BY Numbers
<1> HIDE DEF k
<1>3. k <= Len(f.body)
  BY DEF k
<1>4. BodySum(f.body, k) \in Nat
  BY <1>1, <1>2, <1>3 DEF BodySum
<1> DEFINE w1 == Words(f.ip.src)
           w2 == Words(f.ip.dst)
           sport == f.udp.sport
           dport == f.udp.dport
           len == f.udp.len
           rest == BodySum(f.body, k)
<1>5. UdpSum(f, n) = w1 + w2 + ProtoUdp + n + sport + dport + len + rest
  BY DEF UdpSum, k
<1>6. w1 \in Nat /\ w2 \in Nat
  BY Numbers, WordsNat
<1>7. sport \in Nat /\ dport \in Nat /\ len \in Nat
  BY Numbers
<1>8. rest \in Nat
  BY <1>4
<1> HIDE DEF w1, w2, sport, dport, len, rest
<1> QED
  BY <1>5, <1>6, <1>7, <1>8 DEF ProtoUdp

(* parse_udp_ipv4 without checksum verification accepts the datagrams: for *)
(* them the sum of the lengths does not wrap around.                       *)
LEMMA ParserAccepts ==
  ASSUME NEW f \in Ipv4Frames(Mac), NEW z, Datagram(f)
  PROVE  ParseUdpIpv4(f, FALSE, z) = "ok"
<1>1. /\ f.etype = "ipv4" /\ f.dlen \in Nat /\ f.dlen <= 65535 /\ f.udp.len \in Nat
      /\ f.ip.ihl \in Nat /\ f.ip.ihl <= 15
  BY Numbers
<1>2. /\ f.dlen >= 42 /\ f.ip.version = 4 /\ f.ip.ihl >= 5
      /\ ~f.ip.mf /\ f.ip.offset = 0
      /\ f.ip.proto = 17 /\ f.udp.len >= 8
      /\ 14 + 4 * f.ip.ihl + f.udp.len <= f.dlen
  BY <1>1 DEF Datagram, EthHdrLen, MinIpHdrLen, UdpHdrLen
<1>3. HeadersFit(f, EthHdrLen + MinIpHdrLen + UdpHdrLen)
  BY <1>1, <1>2 DEF HeadersFit, EthHdrLen, MinIpHdrLen, UdpHdrLen
<1>4. HeadersFit(f, EthHdrLen + ihl(f) + UdpHdrLen)
  BY <1>1, <1>2 DEF HeadersFit, EthHdrLen, UdpHdrLen, ihl
<1>5. HeadersFit(f, EthHdrLen + ihl(f) + f.udp.len)
  BY <1>1, <1>2 DEF HeadersFit, EthHdrLen, ihl
<1>6. ~(ihl(f) < MinIpHdrLen) /\ ~(f.udp.len < UdpHdrLen)
  BY <1>1, <1>2 DEF ihl, MinIpHdrLen, UdpHdrLen
<1> QED
  BY <1>1, <1>2, <1>3, <1>4, <1>5, <1>6 DEF ParseUdpIpv4, ProtoUdp

(* With verification the parser tests both checksums after all else. *)
LEMMA ParserVerifies ==
  ASSUME NEW f, NEW z
  PROVE  ParseUdpIpv4(f, TRUE, z) = "ok" <=>
           /\ ParseUdpIpv4(f, FALSE, z) = "ok"
           /\ f.ip.cksum = IpCksum(f.ip) /\ UdpChecksumOk(f, z)
<1> HIDE DEF HeadersFit, IpCksum, UdpChecksumOk, ihl
<1> QED
  BY DEF ParseUdpIpv4

(* The IPv4 checksum test is that of RFC 791, but for 0xffff. *)
LEMMA IpTestExact ==
  ASSUME NEW f \in Ipv4Frames(Mac), f.ip.cksum # MaxWord
  PROVE  f.ip.cksum = IpCksum(f.ip) <=> IpValid(f)
<1> DEFINE s == IpTotal(f.ip)
           c == f.ip.cksum
<1>1. s \in Nat
  BY IpTotalNat
<1>2. c \in Nat /\ c < 65535
  BY Numbers DEF MaxWord
<1>3. IpCksum(f.ip) = 65535 - Folded(s)
  BY DEF IpCksum, IpTotal
<1>4. IpValid(f) <=> Folded(s + c) = 65535
  BY DEF IpValid, IpTotal
<1> HIDE DEF s, c
<1>5. c = 65535 - Folded(s) => Folded(s + c) = 65535
  BY <1>1, ComplementValid
<1>6. CASE c # 0
  <2>1. Folded(s + c) = 65535 => c = 65535 - Folded(s)
    BY <1>1, <1>2, <1>6, ComplementUnique
  <2> QED
    BY <1>3, <1>4, <1>5, <2>1 DEF c
<1>7. CASE c = 0
  <2>1. s + c = s
    BY <1>1, <1>7
  <2>2. Folded(s + c) = 65535 => c = 65535 - Folded(s)
    BY <2>1, <1>7
  <2> QED
    BY <1>3, <1>4, <1>5, <2>2 DEF c
<1> QED
  BY <1>6, <1>7

(* udp_checksum_ok is the test of RFC 768, when the IPv4 length and the    *)
(* UDP length agree.                                                       *)
LEMMA UdpTestExact ==
  ASSUME NEW f \in Ipv4Frames(Mac), NEW z \in BOOLEAN, Covered(f), ExactLength(f)
  PROVE  UdpChecksumOk(f, z) <=> UdpValid(f)
<1> DEFINE s == UdpSum(f, f.udp.len)
           c == f.udp.cksum
           F == Folded(s)
<1>1. s \in Nat \ {0}
  <2>1. f.udp.len \in Nat /\ f.ip.tlen - 4 * f.ip.ihl = f.udp.len
    BY Numbers DEF ExactLength
  <2> QED
    BY <2>1, UdpSumNat DEF Covered
<1>2. c \in Nat /\ c <= 65535
  BY Numbers
<1>3. f.ip.tlen - ihl(f) = f.udp.len
  BY Numbers DEF ExactLength, ihl
<1>4. UdpCksum(f, z) = IF 65535 - F = 0 /\ z THEN 65535 ELSE 65535 - F
  BY <1>3 DEF UdpCksum
<1>5. UdpChecksumOk(f, z) <=>
        \/ c = 0 \/ c = UdpCksum(f, z) \/ (c = 65535 /\ UdpCksum(f, z) = 0)
  BY DEF UdpChecksumOk
<1>6. UdpValid(f) <=> c = 0 \/ Folded(s + c) = 65535
  BY DEF UdpValid
<1> HIDE DEF s, c
<1>7. F \in Nat /\ 0 < F /\ F <= 65535
  BY <1>1, FoldedWord
<1>8. CASE c = 0
  BY <1>5, <1>6, <1>8
<1>9. CASE c = 65535
  <2>1. Folded(s + c) = 65535 <=> F = 65535
    BY <1>1, <1>9, ZeroOrOnes
  <2> HIDE DEF F
  <2> QED
    BY <1>4, <1>5, <1>6, <1>7, <1>9, <2>1
<1>10. CASE c # 0 /\ c # 65535
  <2>1. Folded(s + c) = 65535 => c = 65535 - F
    BY <1>1, <1>2, <1>10, ComplementUnique
  <2>2. c = 65535 - F => Folded(s + c) = 65535
    BY <1>1, ComplementValid
  <2> HIDE DEF F
  <2> QED
    BY <1>4, <1>5, <1>6, <1>7, <1>10, <2>1, <2>2
<1> QED
  BY <1>8, <1>9, <1>10

(* parse_udp_ipv4 with checksum verification accepts the datagrams whose   *)
(* checksums are right.                                                    *)
LEMMA VerifierExact ==
  ASSUME NEW f \in Ipv4Frames(Mac), NEW z \in BOOLEAN, Covered(f),
         Datagram(f), ExactLength(f), f.ip.cksum # MaxWord
  PROVE  ParseUdpIpv4(f, TRUE, z) = "ok" <=> IpValid(f) /\ UdpValid(f)
<1>1. ParseUdpIpv4(f, FALSE, z) = "ok"
  BY ParserAccepts
<1>2. f.ip.cksum = IpCksum(f.ip) <=> IpValid(f)
  BY IpTestExact
<1>3. UdpChecksumOk(f, z) <=> UdpValid(f)
  BY UdpTestExact
<1>4. ParseUdpIpv4(f, TRUE, z) = "ok" <=>
        /\ ParseUdpIpv4(f, FALSE, z) = "ok"
        /\ f.ip.cksum = IpCksum(f.ip) /\ UdpChecksumOk(f, z)
  BY ParserVerifies
<1> QED
  BY <1>1, <1>2, <1>3, <1>4

-----------------------------------------------------------------------------
(* Rewriting a frame *)

(* What no translation changes. *)
SameShape(h, f) ==
  /\ h.dlen = f.dlen /\ h.body = f.body /\ h.udp.len = f.udp.len
  /\ h.ip.version = f.ip.version /\ h.ip.ihl = f.ip.ihl
  /\ h.ip.mf = f.ip.mf /\ h.ip.offset = f.ip.offset /\ h.ip.proto = f.ip.proto
  /\ h.ip.tlen = f.ip.tlen /\ h.ip.rest = f.ip.rest

SameEnds(h, f) ==
  /\ h.eth_src = f.eth_src /\ h.eth_dst = f.eth_dst
  /\ h.ip.src = f.ip.src /\ h.ip.dst = f.ip.dst
  /\ h.udp.sport = f.udp.sport /\ h.udp.dport = f.udp.dport

(* Storing a word as the IPv4 checksum changes nothing else. *)
LEMMA StoreIpCksum ==
  ASSUME NEW f \in Ipv4Frames(Mac), NEW c \in Word
  PROVE  LET h == [f EXCEPT !.ip.cksum = c]
         IN /\ h \in Ipv4Frames(Mac) /\ SameShape(h, f) /\ SameEnds(h, f)
            /\ h.ip.cksum = c /\ h.udp.cksum = f.udp.cksum
<1> DEFINE h == [f EXCEPT !.ip.cksum = c]
<1>1. f.ip \in Ipv4Header
  BY DEF Ipv4Frames
<1>2. h.ip = [f.ip EXCEPT !.cksum = c]
  BY DEF Ipv4Frames
<1>3. /\ h.ip \in Ipv4Header /\ h.ip.cksum = c
      /\ h.ip.src = f.ip.src /\ h.ip.dst = f.ip.dst
      /\ h.ip.version = f.ip.version /\ h.ip.ihl = f.ip.ihl
      /\ h.ip.mf = f.ip.mf /\ h.ip.offset = f.ip.offset /\ h.ip.proto = f.ip.proto
      /\ h.ip.tlen = f.ip.tlen /\ h.ip.rest = f.ip.rest
  BY <1>1, <1>2 DEF Ipv4Header
<1>4. /\ h.dlen = f.dlen /\ h.body = f.body /\ h.udp = f.udp
      /\ h.eth_src = f.eth_src /\ h.eth_dst = f.eth_dst
  BY DEF Ipv4Frames
<1>5. h \in Ipv4Frames(Mac)
  BY SMTT(20), <1>3 DEF Ipv4Frames
<1> QED
  BY <1>3, <1>4, <1>5 DEF SameShape, SameEnds

(* Storing a word as the UDP checksum changes nothing else. *)
LEMMA StoreUdpCksum ==
  ASSUME NEW f \in Ipv4Frames(Mac), NEW c \in Word
  PROVE  LET h == [f EXCEPT !.udp.cksum = c]
         IN /\ h \in Ipv4Frames(Mac) /\ SameShape(h, f) /\ SameEnds(h, f)
            /\ h.udp.cksum = c /\ h.ip.cksum = f.ip.cksum
<1> DEFINE h == [f EXCEPT !.udp.cksum = c]
<1>1. f.udp \in UdpHeader
  BY DEF Ipv4Frames
<1>2. h.udp = [f.udp EXCEPT !.cksum = c]
  BY DEF Ipv4Frames
<1>3. /\ h.udp \in UdpHeader /\ h.udp.cksum = c
      /\ h.udp.sport = f.udp.sport /\ h.udp.dport = f.udp.dport
      /\ h.udp.len = f.udp.len
  BY <1>1, <1>2 DEF UdpHeader
<1>4. /\ h.dlen = f.dlen /\ h.body = f.body /\ h.ip = f.ip
      /\ h.eth_src = f.eth_src /\ h.eth_dst = f.eth_dst
  BY DEF Ipv4Frames
<1>5. h \in Ipv4Frames(Mac)
  BY SMTT(20), <1>3 DEF Ipv4Frames
<1> QED
  BY <1>3, <1>4, <1>5 DEF SameShape, SameEnds

(* The sums depend on the shape and on the ends of a frame only. *)
LEMMA SameSums ==
  ASSUME NEW f, NEW h, SameShape(h, f), SameEnds(h, f)
  PROVE  /\ IpTotal(h.ip) = IpTotal(f.ip)
         /\ \A n : UdpSum(h, n) = UdpSum(f, n)
         /\ Covered(h) <=> Covered(f)
         /\ ExactLength(h) <=> ExactLength(f)
BY DEF SameShape, SameEnds, IpTotal, UdpSum, Covered, ExactLength

(* refresh_ipv4_checksum leaves a right checksum. *)
LEMMA IpRefreshed ==
  ASSUME NEW f \in Ipv4Frames(Mac)
  PROVE  LET h == RefreshIpv4Checksum(f)
         IN /\ h \in Ipv4Frames(Mac) /\ SameShape(h, f) /\ SameEnds(h, f)
            /\ IpValid(h)
<1> DEFINE s == IpTotal(f.ip)
           c == IpCksum(f.ip)
           h == [f EXCEPT !.ip.cksum = c]
<1>1. s \in Nat
  BY IpTotalNat
<1>2. c = 65535 - Folded(s)
  BY DEF IpCksum, IpTotal
<1>3. c \in Word
  BY <1>1, <1>2, FoldedWord, WordRange
<1> HIDE DEF c
<1>4. /\ h \in Ipv4Frames(Mac) /\ SameShape(h, f) /\ SameEnds(h, f)
      /\ h.ip.cksum = c
  BY <1>3, StoreIpCksum
<1>5. RefreshIpv4Checksum(f) = h
  BY DEF RefreshIpv4Checksum, c
<1> HIDE DEF h
<1>6. IpTotal(h.ip) = s
  BY <1>4, SameSums
<1>7. IpValid(h) <=> Folded(IpTotal(h.ip) + h.ip.cksum) = 65535
  BY DEF IpValid, IpTotal
<1> HIDE DEF s
<1>8. Folded(s + c) = 65535
  BY <1>1, <1>2, ComplementValid
<1> QED
  BY <1>4, <1>5, <1>6, <1>7, <1>8

(* refresh_udp_checksum leaves a checksum that is there and, when the      *)
(* lengths agree, right.                                                   *)
LEMMA UdpRefreshed ==
  ASSUME NEW f \in Ipv4Frames(Mac), NEW z \in BOOLEAN, Covered(f)
  PROVE  LET h == RefreshUdpChecksum(f, z)
         IN /\ h \in Ipv4Frames(Mac) /\ SameShape(h, f) /\ SameEnds(h, f)
            /\ h.ip.cksum = f.ip.cksum /\ h.udp.cksum # 0
            /\ ExactLength(f) => UdpValid(h)
<1> DEFINE n == f.ip.tlen - ihl(f)
           s == UdpSum(f, n)
           F == Folded(s)
           c == IF F = 65535 THEN 65535 ELSE 65535 - F
           h == [f EXCEPT !.udp.cksum = c]
<1>1. n \in Nat /\ n >= UdpHdrLen /\ (n - UdpHdrLen) \div 2 <= Len(f.body)
  BY SMTT(20), Numbers DEF Covered, ihl, UdpHdrLen
<1>2. s \in Nat \ {0}
  <2> HIDE DEF n
  <2> QED
    BY <1>1, UdpSumNat
<1>3. F \in Nat /\ 0 < F /\ F <= 65535
  <2> HIDE DEF s
  <2> QED
    BY <1>2, FoldedWord
<1>4. UdpCksum(f, z) = IF 65535 - F = 0 /\ z THEN 65535 ELSE 65535 - F
  BY DEF UdpCksum
<1>5. RefreshUdpChecksum(f, z) = h
  <2> HIDE DEF F
  <2>1. (IF UdpCksum(f, z) = 0 THEN 65535 ELSE UdpCksum(f, z)) = c
    BY <1>3, <1>4
  <2> QED
    BY <2>1 DEF RefreshUdpChecksum
<1>6. c \in Nat /\ 0 < c /\ c <= 65535
  <2> HIDE DEF F
  <2> QED
    BY <1>3
<1>7. c \in Word
  <2> HIDE DEF c
  <2> QED
    BY <1>6, WordRange
<1>8. Folded(s + c) = 65535
  <2> HIDE DEF s
  <2>1. CASE F = 65535
    BY <1>2, <2>1, ZeroOrOnes
  <2>2. CASE F # 65535
    BY <1>2, <2>2, ComplementValid
  <2> QED
    BY <2>1, <2>2
<1> HIDE DEF c
<1>9. /\ h \in Ipv4Frames(Mac) /\ SameShape(h, f) /\ SameEnds(h, f)
      /\ h.udp.cksum = c /\ h.ip.cksum = f.ip.cksum
  BY <1>7, StoreUdpCksum
<1> HIDE DEF h
<1>10. ASSUME ExactLength(f) PROVE UdpValid(h)
  <2>1. h.udp.len = n
    BY <1>9, <1>10, Numbers DEF SameShape, ExactLength, ihl
  <2> HIDE DEF n
  <2>2. UdpSum(h, h.udp.len) = s
    BY <1>9, <2>1, SameSums
  <2> HIDE DEF s
  <2> QED
    BY <1>8, <1>9, <2>2 DEF UdpValid
<1> QED
  BY <1>5, <1>6, <1>9, <1>10

Booleans == [verify : BOOLEAN, recompute : BOOLEAN, fixesZero : BOOLEAN]

(* Frame h is frame f with other addresses and ports, and checksums that a *)
(* receiver accepts.                                                       *)
Finished(h, f) ==
  /\ h \in Ipv4Frames(Mac) /\ SameShape(h, f)
  /\ IpValid(h)
  /\ ExactLength(h) => UdpValid(h)
  /\ option.recompute <=> h.udp.cksum # 0

(* finish_l4_checksum makes the checksums right and changes nothing else. *)
LEMMA L4Finished ==
  ASSUME NEW f \in Ipv4Frames(Mac), Covered(f), option \in Booleans
  PROVE  Finished(FinishL4Checksum(f), f) /\ SameEnds(FinishL4Checksum(f), f)
<1> DEFINE g == RefreshIpv4Checksum(f)
           h == FinishL4Checksum(f)
<1>1. g \in Ipv4Frames(Mac) /\ SameShape(g, f) /\ SameEnds(g, f) /\ IpValid(g)
  BY IpRefreshed
<1>2. h = IF option.recompute THEN RefreshUdpChecksum(g, option.fixesZero)
          ELSE ClearUdpChecksum(g)
  BY DEF FinishL4Checksum
<1>3. option.recompute \in BOOLEAN /\ option.fixesZero \in BOOLEAN
  BY DEF Booleans
<1> HIDE DEF g, h
<1>4. Covered(g) /\ (ExactLength(g) <=> ExactLength(f))
  BY <1>1, SameSums
<1>5. /\ h \in Ipv4Frames(Mac) /\ SameShape(h, g) /\ SameEnds(h, g)
      /\ h.ip.cksum = g.ip.cksum
      /\ option.recompute <=> h.udp.cksum # 0
      /\ ExactLength(g) => UdpValid(h)
  <2>1. CASE option.recompute
    <3>1. h = RefreshUdpChecksum(g, option.fixesZero)
      BY <1>2, <2>1
    <3> QED
      BY <1>1, <1>3, <1>4, <2>1, <3>1, UdpRefreshed
  <2>2. CASE ~option.recompute
    <3>1. h = [g EXCEPT !.udp.cksum = 0]
      BY <1>2, <2>2 DEF ClearUdpChecksum
    <3>2. 0 \in Word
      BY WordRange
    <3> QED
      BY <1>1, <2>2, <3>1, <3>2, StoreUdpCksum DEF UdpValid
  <2> QED
    BY <2>1, <2>2
<1>6. SameShape(h, f) /\ SameEnds(h, f)
  BY <1>1, <1>5 DEF SameShape, SameEnds
<1>7. ExactLength(h) <=> ExactLength(g)
  BY <1>5, SameSums
<1>8. IpValid(h)
  BY <1>1, <1>5 DEF IpValid, SameShape, SameEnds
<1> QED
  BY <1>5, <1>6, <1>7, <1>8 DEF Finished, h

Readdressed(ip, a, b) == [ip EXCEPT !.src = a, !.dst = b]
Renumbered(udp, p, q) == [udp EXCEPT !.sport = p, !.dport = q]

(* Rewriting the addresses of a header changes nothing else. *)
LEMMA IpRewritten ==
  ASSUME NEW ip \in Ipv4Header, NEW a \in Address, NEW b \in Address
  PROVE  LET h == Readdressed(ip, a, b)
         IN /\ h \in Ipv4Header /\ h.src = a /\ h.dst = b
            /\ h.version = ip.version /\ h.ihl = ip.ihl
            /\ h.mf = ip.mf /\ h.offset = ip.offset /\ h.proto = ip.proto
            /\ h.tlen = ip.tlen /\ h.rest = ip.rest
BY DEF Ipv4Header, Readdressed

Store(f, ip, udp) == [f EXCEPT !.ip = ip, !.udp = udp]
Rewrite(f, a, b, p, q) ==
  [f EXCEPT !.ip.src = a, !.ip.dst = b, !.udp.sport = p, !.udp.dport = q]

(* Rewriting fields of the headers is storing rewritten headers. *)
LEMMA RewriteParts ==
  ASSUME NEW f \in Ipv4Frames(Mac), NEW a, NEW b, NEW p, NEW q
  PROVE  Rewrite(f, a, b, p, q) = Store(f, Readdressed(f.ip, a, b), Renumbered(f.udp, p, q))
BY Zenon DEF Ipv4Frames, Rewrite, Store, Readdressed, Renumbered

(* Rewriting addresses and ports changes nothing else. *)
LEMMA Rewritten ==
  ASSUME NEW f \in Ipv4Frames(Mac),
         NEW a \in Address, NEW b \in Address, NEW p \in Word, NEW q \in Word
  PROVE  LET h == Rewrite(f, a, b, p, q)
         IN /\ h \in Ipv4Frames(Mac) /\ SameShape(h, f)
            /\ h.ip.src = a /\ h.ip.dst = b /\ h.udp.sport = p /\ h.udp.dport = q
            /\ h.eth_src = f.eth_src /\ h.eth_dst = f.eth_dst
<1> DEFINE ip2 == Readdressed(f.ip, a, b)
           udp2 == Renumbered(f.udp, p, q)
           h == Store(f, ip2, udp2)
<1>1. f.ip \in Ipv4Header /\ f.udp \in UdpHeader
  BY DEF Ipv4Frames
<1>2. Rewrite(f, a, b, p, q) = h
  BY RewriteParts
<1>3. /\ ip2 \in Ipv4Header /\ ip2.src = a /\ ip2.dst = b
      /\ ip2.version = f.ip.version /\ ip2.ihl = f.ip.ihl
      /\ ip2.mf = f.ip.mf /\ ip2.offset = f.ip.offset /\ ip2.proto = f.ip.proto
      /\ ip2.tlen = f.ip.tlen /\ ip2.rest = f.ip.rest
  BY <1>1, IpRewritten
<1>4. /\ udp2 \in UdpHeader /\ udp2.sport = p /\ udp2.dport = q
      /\ udp2.len = f.udp.len
  BY <1>1 DEF UdpHeader, Renumbered
<1> HIDE DEF ip2, udp2
<1>5. /\ h.dlen = f.dlen /\ h.body = f.body /\ h.ip = ip2 /\ h.udp = udp2
      /\ h.eth_src = f.eth_src /\ h.eth_dst = f.eth_dst
  BY DEF Ipv4Frames, Store
<1>6. h \in Ipv4Frames(Mac)
  BY <1>3, <1>4 DEF Ipv4Frames, Store
<1> HIDE DEF h
<1>7. SameShape(h, f)
  BY <1>3, <1>4, <1>5 DEF SameShape
<1> QED
  BY <1>2, <1>3, <1>4, <1>5, <1>6, <1>7

SessionSet ==
  [client_ip : Address, client_port : Word, vip_ip : Address, vip_port : Word,
   upstream_ip : Address, upstream_port : Word, snat_port : Word]

ForwardEnds(h, s) ==
  /\ h.ip.src = GatewayIp /\ h.ip.dst = s.upstream_ip
  /\ h.udp.sport = s.snat_port /\ h.udp.dport = s.upstream_port

ReverseEnds(h, s) ==
  /\ h.ip.src = s.vip_ip /\ h.ip.dst = s.client_ip
  /\ h.udp.sport = s.vip_port /\ h.udp.dport = s.client_port

(* apply_forward_nat. *)
LEMMA ForwardNat ==
  ASSUME NEW f \in Ipv4Frames(Mac), NEW s \in SessionSet, Covered(f),
         option \in Booleans
  PROVE  Finished(ApplyForwardNat(f, s), f) /\ ForwardEnds(ApplyForwardNat(f, s), s)
<1> DEFINE g == Rewrite(f, GatewayIp, s.upstream_ip, s.snat_port, s.upstream_port)
           h == FinishL4Checksum(g)
<1>1. /\ GatewayIp \in Address /\ s.upstream_ip \in Address
      /\ s.snat_port \in Word /\ s.upstream_port \in Word
  BY FramePathAssumption DEF SessionSet
<1>2. /\ g \in Ipv4Frames(Mac) /\ SameShape(g, f) /\ ForwardEnds(g, s)
  BY SMTT(20), <1>1, Rewritten DEF ForwardEnds
<1>3. ApplyForwardNat(f, s) = h
  BY DEF ApplyForwardNat, Rewrite
<1> HIDE DEF g
<1>4. Covered(g)
  BY <1>2 DEF Covered, SameShape
<1>5. Finished(h, g) /\ SameEnds(h, g)
  BY <1>2, <1>4, L4Finished
<1> HIDE DEF h
<1>6. Finished(h, f) /\ ForwardEnds(h, s)
  BY <1>2, <1>5 DEF Finished, SameShape, SameEnds, ForwardEnds
<1> QED
  BY <1>3, <1>6

(* apply_reverse_nat. *)
LEMMA ReverseNat ==
  ASSUME NEW f \in Ipv4Frames(Mac), NEW s \in SessionSet, Covered(f),
         option \in Booleans
  PROVE  Finished(ApplyReverseNat(f, s), f) /\ ReverseEnds(ApplyReverseNat(f, s), s)
<1> DEFINE g == Rewrite(f, s.vip_ip, s.client_ip, s.vip_port, s.client_port)
           h == FinishL4Checksum(g)
<1>1. /\ s.vip_ip \in Address /\ s.client_ip \in Address
      /\ s.vip_port \in Word /\ s.client_port \in Word
  BY DEF SessionSet
<1>2. /\ g \in Ipv4Frames(Mac) /\ SameShape(g, f) /\ ReverseEnds(g, s)
  BY SMTT(20), <1>1, Rewritten DEF ReverseEnds
<1>3. ApplyReverseNat(f, s) = h
  BY DEF ApplyReverseNat, Rewrite
<1> HIDE DEF g
<1>4. Covered(g)
  BY <1>2 DEF Covered, SameShape
<1>5. Finished(h, g) /\ SameEnds(h, g)
  BY <1>2, <1>4, L4Finished
<1> HIDE DEF h
<1>6. Finished(h, f) /\ ReverseEnds(h, s)
  BY <1>2, <1>5 DEF Finished, SameShape, SameEnds, ReverseEnds
<1> QED
  BY <1>3, <1>6

(* set_l2 changes the Ethernet addresses only. *)
LEMMA L2Set ==
  ASSUME NEW f \in Ipv4Frames(Mac), NEW mac \in Mac
  PROVE  LET h == SetL2(f, mac)
         IN /\ h \in Ipv4Frames(Mac) /\ h.eth_src = GatewayMac /\ h.eth_dst = mac
            /\ h.dlen = f.dlen /\ h.ip = f.ip /\ h.udp = f.udp /\ h.body = f.body
<1>1. GatewayMac \in Mac
  BY FramePathAssumption
<1> QED
  BY <1>1 DEF SetL2, Ipv4Frames

(* A finished frame stays so when its Ethernet addresses are set. *)
LEMMA L2Finished ==
  ASSUME NEW f, NEW g \in Ipv4Frames(Mac), NEW mac \in Mac, Finished(g, f)
  PROVE  Finished(SetL2(g, mac), f)
<1> DEFINE h == SetL2(g, mac)
<1>1. /\ h \in Ipv4Frames(Mac)
      /\ h.dlen = g.dlen /\ h.ip = g.ip /\ h.udp = g.udp /\ h.body = g.body
  BY L2Set
<1> HIDE DEF h
<1>2. SameShape(h, f)
  BY <1>1 DEF Finished, SameShape
<1>3. IpValid(h) <=> IpValid(g)
  BY <1>1 DEF IpValid
<1>4. (ExactLength(h) <=> ExactLength(g)) /\ (UdpValid(h) <=> UdpValid(g))
  BY <1>1 DEF ExactLength, UdpValid, UdpSum
<1>5. Finished(h, f)
  BY <1>1, <1>2, <1>3, <1>4 DEF Finished
<1> QED
  BY <1>5 DEF h

PlainParse(f, z) == ParseUdpIpv4(f, FALSE, z)

(* The result of a parse without verification depends on the shape only. *)
LEMMA ParseShape ==
  ASSUME NEW f \in Ipv4Frames(Mac), NEW h \in Ipv4Frames(Mac), NEW y, NEW z,
         SameShape(h, f)
  PROVE  PlainParse(h, y) = PlainParse(f, z)
<1>1. h.etype = f.etype
  BY DEF Ipv4Frames
<1>2. \A n : HeadersFit(h, n) <=> HeadersFit(f, n)
  BY DEF HeadersFit, SameShape
<1>3. ihl(h) = ihl(f)
  BY DEF ihl, SameShape
<1> QED
  BY <1>1, <1>2, <1>3 DEF PlainParse, ParseUdpIpv4, SameShape

(* The parser accepts the frame, its checksums aside. *)
Accepted(f) == \A z : PlainParse(f, z) = "ok"

(* Acceptance depends on the shape only. *)
LEMMA AcceptedShape ==
  ASSUME NEW f \in Ipv4Frames(Mac), NEW h \in Ipv4Frames(Mac), SameShape(h, f), Accepted(f)
  PROVE  Accepted(h)
BY ParseShape DEF Accepted

(* The headers of an accepted frame lie in its segment, whether or not the *)
(* sum with the UDP length wraps around: they are tested by themselves.    *)
LEMMA AcceptedHeaders ==
  ASSUME NEW f \in Ipv4Frames(Mac), Accepted(f)
  PROVE  EthHdrLen + 4 * f.ip.ihl + UdpHdrLen <= f.dlen
<1>1. ParseUdpIpv4(f, FALSE, FALSE) = "ok"
  BY DEF Accepted, PlainParse
<1>2. HeadersFit(f, EthHdrLen + ihl(f) + UdpHdrLen)
  BY <1>1 DEF ParseUdpIpv4
<1>3. f.dlen \in Nat /\ f.ip.ihl \in Nat /\ f.ip.ihl <= 15
  BY Numbers
<1> QED
  BY <1>2, <1>3 DEF HeadersFit, ihl, EthHdrLen, UdpHdrLen

Back(f) == [f EXCEPT !.eth_src = f.eth_dst, !.eth_dst = f.eth_src]

(* The answer to a frame, before its checksums. *)
LEMMA BackParts ==
  ASSUME NEW f \in Ipv4Frames(Mac)
  PROVE  Answer(f) = RefreshIpv4Checksum(
           Rewrite(Back(f), f.ip.dst, f.ip.src, f.udp.dport, f.udp.sport))
BY Zenon DEF Ipv4Frames, Answer, Back, Rewrite

(* The answer to a frame has its shape and goes to its source. *)
LEMMA Answered ==
  ASSUME NEW f \in Ipv4Frames(Mac), Covered(f),
         NEW g \in {ClearUdpChecksum(Answer(f)), RefreshUdpChecksum(Answer(f), TRUE)}
  PROVE  g \in Ipv4Frames(Mac) /\ Covered(g) /\ g.ip.dst = f.ip.src
<1> DEFINE e == Back(f)
           h == Rewrite(e, f.ip.dst, f.ip.src, f.udp.dport, f.udp.sport)
           a == Answer(f)
<1>1. e \in Ipv4Frames(Mac) /\ SameShape(e, f)
  BY DEF Ipv4Frames, Back, SameShape
<1>2. f.ip.src \in Address /\ f.ip.dst \in Address
  BY Numbers
<1>3. f.udp.sport \in Word /\ f.udp.dport \in Word
  BY DEF Ipv4Frames, UdpHeader
<1>4. a = RefreshIpv4Checksum(h)
  BY BackParts
<1> HIDE DEF e
<1>5. h \in Ipv4Frames(Mac) /\ SameShape(h, e) /\ h.ip.dst = f.ip.src
  BY SMTT(20), <1>1, <1>2, <1>3, Rewritten
<1> HIDE DEF h
<1>6. a \in Ipv4Frames(Mac) /\ SameShape(a, h) /\ SameEnds(a, h)
  BY <1>4, <1>5, IpRefreshed
<1> HIDE DEF a
<1>7. Covered(a) /\ a.ip.dst = f.ip.src
  BY <1>1, <1>5, <1>6 DEF Covered, SameShape, SameEnds
<1>8. g \in Ipv4Frames(Mac) /\ SameShape(g, a) /\ SameEnds(g, a)
  <2>1. CASE g = ClearUdpChecksum(a)
    <3>1. 0 \in Word
      BY WordRange
    <3> QED
      BY <1>6, <2>1, <3>1, StoreUdpCksum DEF ClearUdpChecksum
  <2>2. CASE g = RefreshUdpChecksum(a, TRUE)
    BY <1>6, <1>7, <2>2, UdpRefreshed
  <2> QED
    BY <2>1, <2>2 DEF a
<1> QED
  BY <1>7, <1>8 DEF Covered, SameShape, SameEnds

-----------------------------------------------------------------------------
(* The inductive invariant *)

AnyFrame == Ipv4Frames(Mac) \cup ArpFrames(Mac) \cup OtherFrames(Mac)

(* The session is that of the client's request, and both of its next hops  *)
(* have a MAC.                                                             *)
Bound ==
  /\ session \in SessionSet
  /\ session.vip_ip = VipIp /\ session.vip_port = VipPort
  /\ request.ip.dst = VipIp /\ request.udp.dport = VipPort
  /\ request.ip.src = session.client_ip /\ request.udp.sport = session.client_port
  /\ MacOf(session.client_ip) \in Mac /\ MacOf(session.upstream_ip) \in Mac

(* The frame is what was received, translated one way or the other. *)
SentOn ==
  /\ Bound
  /\ rcvd \in Ipv4Frames(Mac) /\ Accepted(rcvd)
  /\ Finished(frame, rcvd)
  /\ \/ stage \in {"held_forward", "tx_forward"} /\ ForwardEnds(frame, session)
     \/ stage \in {"held_reverse", "tx_reverse"} /\ ReverseEnds(frame, session)

OnWire == frame.eth_src = GatewayMac /\ frame.eth_dst = MacOf(frame.ip.dst)

(* A frame to be handled came from outside, or is an answer to the gateway. *)
Arrived ==
  /\ frame = rcvd /\ learned = {}
  /\ rcvd \in Received \/ (rcvd \in Ipv4Frames(Mac) /\ rcvd.ip.dst = GatewayIp)

FrameInv ==
  /\ FrameTypeOK
  /\ rcvd \in AnyFrame
  /\ rcvd \in Ipv4Frames(Mac) => Covered(rcvd)
  /\ stage = "rx" => Arrived
  /\ session # nullptr => Bound
  /\ Translated => SentOn
  /\ stage \in Held => hop = frame.ip.dst
  /\ stage \in {"tx_forward", "tx_reverse"} => OnWire
  /\ stage = "tx_arp" => EthHdrLen + ArpHdrLen <= rcvd.dlen
  /\ ArpAnswered

(* The type of a frame is its EtherType. *)
LEMMA ByType ==
  ASSUME NEW f \in AnyFrame
  PROVE  /\ f.etype = "ipv4" => f \in Ipv4Frames(Mac)
         /\ f.etype = "arp" => f \in ArpFrames(Mac)
         /\ f \in Ipv4Frames(Mac) => f.etype = "ipv4"
BY DEF AnyFrame, Ipv4Frames, ArpFrames, OtherFrames

(* The frames that arrive are frames, and their bodies are covered. *)
LEMMA ReceivedFacts ==
  ASSUME NEW f \in Received
  PROVE  /\ f \in AnyFrame
         /\ f \in Ipv4Frames(Mac) => Covered(f) /\ MacOf(f.ip.src) \in Mac
BY FramePathAssumption DEF AnyFrame

(* The invariant holds when a frame arrives. *)
LEMMA FrameInvInit == FrameInit => FrameInv
<1> SUFFICES ASSUME FrameInit PROVE FrameInv
  OBVIOUS
<1>1. PICK f \in Received, o \in Option : frame = f /\ rcvd = f /\ option = o
  BY DEF FrameInit
<1>2. /\ stage = "rx" /\ session = nullptr /\ learned = {}
  BY DEF FrameInit
<1>3. f \in AnyFrame /\ (f \in Ipv4Frames(Mac) => Covered(f))
  BY ReceivedFacts
<1>4. FrameTypeOK
  BY <1>1, <1>2, <1>3 DEF FrameTypeOK, AnyFrame
<1> QED
  BY <1>1, <1>2, <1>3, <1>4
     DEF FrameInv, Arrived, Translated, Held, ArpAnswered

(* passive_learn_ipv4 learns an address of a host. *)
LEMMA Learns ==
  ASSUME NEW f \in Ipv4Frames(Mac), NEW e \in PassiveLearnIpv4(f)
  PROVE  e.ip \in Address \ {NoAddress}
<1>1. f.ip.src \in Address
  BY Numbers
<1> QED
  BY <1>1 DEF PassiveLearnIpv4

(* An IPv4 frame that handle looks at. *)
LEMMA Ipv4Arrived ==
  ASSUME FrameInv, HandleIpv4
  PROVE  /\ frame \in Ipv4Frames(Mac) /\ frame = rcvd /\ Covered(frame)
         /\ option \in Booleans /\ stage = "rx"
         /\ rcvd' = rcvd /\ option' = option
<1>1. stage = "rx" /\ frame = rcvd /\ rcvd \in AnyFrame
  BY DEF FrameInv, HandleIpv4, Arrived
<1>2. frame.etype = "ipv4"
  BY DEF HandleIpv4, Ethertype
<1>3. frame \in Ipv4Frames(Mac)
  BY <1>1, <1>2, ByType
<1>4. option \in Booleans
  BY FramePathAssumption DEF FrameInv, FrameTypeOK, Booleans
<1> QED
  BY <1>1, <1>3, <1>4 DEF FrameInv, HandleIpv4

(* Learning keeps what the invariant says of it. *)
LEMMA LearnStep ==
  ASSUME FrameInv, HandleIpv4, Learn
  PROVE  \A e \in learned' : e.ip \in Address \ {NoAddress}
<1>1. frame \in Ipv4Frames(Mac)
  BY Ipv4Arrived
<1>2. learned' = PassiveLearnIpv4(frame)
  BY DEF Learn
<1> QED
  BY <1>1, <1>2, Learns

(* The end of handle_forward and handle_reverse leaves the translated      *)
(* frame, with its Ethernet addresses when the MAC is known and else in    *)
(* the queue of its destination.                                           *)
LEMMA ResolveStep ==
  ASSUME NEW g, NEW sent, NEW held, Resolve(g, g.ip.dst, sent, held),
         Finished(g, rcvd), MacOf(g.ip.dst) \in Mac, rcvd' = rcvd, option' = option
  PROVE  /\ Finished(frame, rcvd)'
         /\ frame'.ip = g.ip /\ frame'.udp = g.udp
         /\ (stage' = sent /\ OnWire') \/ (stage' = held /\ hop' = g.ip.dst)
<1>1. g \in Ipv4Frames(Mac)
  BY DEF Finished
<1>2. CASE stage' = sent /\ frame' = SetL2(g, MacOf(g.ip.dst))
  <2>1. Finished(frame', rcvd)
    BY <1>1, <1>2, L2Finished
  <2>2. Finished(frame, rcvd)'
    BY <2>1 DEF Finished
  <2>3. /\ frame'.ip = g.ip /\ frame'.udp = g.udp
        /\ frame'.eth_src = GatewayMac /\ frame'.eth_dst = MacOf(g.ip.dst)
    BY <1>1, <1>2, L2Set
  <2> QED
    BY <1>2, <2>2, <2>3 DEF OnWire
<1>3. CASE stage' = held /\ frame' = g /\ hop' = g.ip.dst
  <2>1. Finished(frame, rcvd)'
    BY <1>3 DEF Finished
  <2> QED
    BY <1>3, <2>1
<1> QED
  BY <1>2, <1>3 DEF Resolve

(* A frame that the parser accepts with the option's verification is       *)
(* accepted without.                                                       *)
LEMMA ParsedPlain ==
  ASSUME NEW f \in Ipv4Frames(Mac), option \in Booleans, Parsed(f)
  PROVE  Accepted(f)
<1>1. PlainParse(f, option.fixesZero) = "ok"
  <2>1. CASE option.verify = TRUE
    <3>1. ParseUdpIpv4(f, TRUE, option.fixesZero) = "ok"
      BY <2>1 DEF Parsed
    <3> QED
      BY <3>1, ParserVerifies DEF PlainParse
  <2>2. CASE option.verify = FALSE
    BY <2>2 DEF Parsed, PlainParse
  <2> QED
    BY <2>1, <2>2 DEF Booleans
<1>2. SameShape(f, f)
  BY DEF SameShape
<1>3. \A z : PlainParse(f, z) = PlainParse(f, option.fixesZero)
  BY <1>2, ParseShape
<1> QED
  BY <1>1, <1>3 DEF Accepted

(* handle_forward keeps the invariant. *)
LEMMA ForwardStep ==
  ASSUME FrameInv, NEW up \in Upstream, NEW snat \in SnatPort, HandleForward(up, snat)
  PROVE  FrameInv'
<1> DEFINE s == session'
           g == ApplyForwardNat(frame, s)
<1>1. /\ HandleIpv4 /\ Parsed(frame) /\ ToVip(frame) /\ Learn
      /\ s = NewSession(frame, up, snat) /\ request' = frame
      /\ Resolve(g, s.upstream_ip, "tx_forward", "held_forward")
  BY DEF HandleForward
<1>2. /\ frame \in Ipv4Frames(Mac) /\ frame = rcvd /\ Covered(frame)
      /\ option \in Booleans /\ rcvd' = rcvd /\ option' = option /\ stage = "rx"
  BY <1>1, Ipv4Arrived
<1>3. /\ frame.ip.dst = VipIp /\ frame.udp.dport = VipPort
  BY <1>1 DEF ToVip
<1>4. MacOf(frame.ip.src) \in Mac
  <2>1. rcvd \in Received
    BY <1>2, <1>3, FramePathAssumption DEF FrameInv, Arrived
  <2> QED
    BY <1>2, <2>1, ReceivedFacts
<1>5. /\ up.ip \in Address /\ up.port \in Word /\ snat \in Word /\ MacOf(up.ip) \in Mac
  BY FramePathAssumption
<1>6. frame.ip.src \in Address /\ frame.ip.dst \in Address
  BY <1>2, Numbers
<1>7. frame.udp.sport \in Word /\ frame.udp.dport \in Word
  BY <1>2 DEF Ipv4Frames, UdpHeader
<1>8. Bound'
  BY <1>1, <1>3, <1>4, <1>5, <1>6, <1>7 DEF Bound, SessionSet, NewSession
<1>9. s \in SessionSet /\ MacOf(s.upstream_ip) \in Mac
  BY <1>8 DEF Bound
<1>10. Finished(g, rcvd) /\ ForwardEnds(g, s)
  BY <1>2, <1>9, ForwardNat
<1> HIDE DEF g
<1>11. g.ip.dst = s.upstream_ip /\ MacOf(g.ip.dst) \in Mac
  BY <1>9, <1>10, SMTT(20) DEF ForwardEnds
<1>12. /\ Finished(frame, rcvd)'
       /\ frame'.ip = g.ip /\ frame'.udp = g.udp
       /\ \/ stage' = "tx_forward" /\ OnWire'
          \/ stage' = "held_forward" /\ hop' = g.ip.dst
  <2>1. Resolve(g, g.ip.dst, "tx_forward", "held_forward")
    BY <1>1, <1>11
  <2> QED
    BY <1>2, <1>10, <1>11, <2>1, ResolveStep
<1>13. ForwardEnds(frame, session)'
  BY <1>10, <1>12 DEF ForwardEnds
<1>14. Accepted(rcvd)
  BY <1>1, <1>2, ParsedPlain
<1>15. SentOn'
  BY <1>2, <1>8, <1>12, <1>13, <1>14 DEF SentOn
<1>16. \A e \in learned' : e.ip \in Address \ {NoAddress}
  BY <1>1, LearnStep
<1>17. FrameTypeOK'
  BY <1>2, <1>12, <1>16 DEF FrameTypeOK, FrameInv, Finished, Held, Done
<1>18. rcvd' \in AnyFrame /\ (rcvd' \in Ipv4Frames(Mac) => Covered(rcvd'))
  BY <1>2 DEF FrameInv
<1>19. ArpAnswered'
  BY <1>12 DEF ArpAnswered
<1> QED
  BY <1>8, <1>12, <1>15, <1>17, <1>18, <1>19, SMTT(20) DEF FrameInv, Held

(* handle_reverse keeps the invariant. *)
LEMMA ReverseStep ==
  ASSUME FrameInv, HandleReverse
  PROVE  FrameInv'
<1> DEFINE g == ApplyReverseNat(frame, session)
<1>1. /\ HandleIpv4 /\ Parsed(frame) /\ Learn /\ session # nullptr
      /\ session' = session /\ request' = request
      /\ Resolve(g, session.client_ip, "tx_reverse", "held_reverse")
  BY DEF HandleReverse, ReverseOf
<1>2. /\ frame \in Ipv4Frames(Mac) /\ frame = rcvd /\ Covered(frame)
      /\ option \in Booleans /\ rcvd' = rcvd /\ option' = option /\ stage = "rx"
  BY <1>1, Ipv4Arrived
<1>3. Bound
  BY <1>1 DEF FrameInv
<1>4. Bound'
  BY <1>1, <1>3 DEF Bound
<1>5. session \in SessionSet /\ MacOf(session.client_ip) \in Mac
  BY <1>3 DEF Bound
<1>6. Finished(g, rcvd) /\ ReverseEnds(g, session)
  BY <1>2, <1>5, ReverseNat
<1> HIDE DEF g
<1>7. g.ip.dst = session.client_ip /\ MacOf(g.ip.dst) \in Mac
  BY <1>5, <1>6 DEF ReverseEnds
<1>8. /\ Finished(frame, rcvd)'
      /\ frame'.ip = g.ip /\ frame'.udp = g.udp
      /\ \/ stage' = "tx_reverse" /\ OnWire'
         \/ stage' = "held_reverse" /\ hop' = g.ip.dst
  <2>1. Resolve(g, g.ip.dst, "tx_reverse", "held_reverse")
    BY <1>1, <1>7
  <2> QED
    BY <1>2, <1>6, <1>7, <2>1, ResolveStep
<1>9. ReverseEnds(frame, session)'
  BY <1>1, <1>6, <1>8 DEF ReverseEnds
<1>10. Accepted(rcvd)
  BY <1>1, <1>2, ParsedPlain
<1>11. SentOn'
  BY <1>2, <1>4, <1>8, <1>9, <1>10 DEF SentOn
<1>12. \A e \in learned' : e.ip \in Address \ {NoAddress}
  BY <1>1, LearnStep
<1>13. FrameTypeOK'
  BY <1>2, <1>8, <1>12 DEF FrameTypeOK, FrameInv, Finished, Held, Done
<1>14. rcvd' \in AnyFrame /\ (rcvd' \in Ipv4Frames(Mac) => Covered(rcvd'))
  BY <1>2 DEF FrameInv
<1>15. ArpAnswered'
  BY <1>8 DEF ArpAnswered
<1> QED
  BY <1>4, <1>8, <1>11, <1>13, <1>14, <1>15, SMTT(20) DEF FrameInv, Held

(* Dropping an IPv4 frame keeps the invariant. *)
LEMMA DropStep ==
  ASSUME FrameInv, Drop
  PROVE  FrameInv'
<1>1. /\ HandleIpv4 /\ Learn /\ stage' = "drop"
      /\ frame' = frame /\ request' = request /\ session' = session
  BY DEF Drop
<1>2. rcvd' = rcvd /\ option' = option
  BY <1>1, Ipv4Arrived
<1>3. \A e \in learned' : e.ip \in Address \ {NoAddress}
  BY <1>1, LearnStep, SMTT(20)
<1>4. FrameTypeOK'
  BY <1>1, <1>2, <1>3 DEF FrameTypeOK, FrameInv, Done
<1>5. Bound <=> Bound'
  BY <1>1, SMTT(20) DEF Bound
<1> QED
  BY <1>1, <1>2, <1>4, <1>5 DEF FrameInv, Translated, Held, ArpAnswered

(* finish_l2 on a held frame keeps the invariant. *)
LEMMA FinishL2Step ==
  ASSUME FrameInv, FinishL2
  PROVE  FrameInv'
<1> DEFINE mac == MacOf(frame.ip.dst)
<1>1. /\ stage \in Held /\ frame' = SetL2(frame, mac)
      /\ stage' = IF stage = "held_forward" THEN "tx_forward" ELSE "tx_reverse"
      /\ rcvd' = rcvd /\ request' = request /\ session' = session
      /\ learned' = learned /\ option' = option
  BY DEF FinishL2, FrameInv
<1>2. SentOn
  BY <1>1 DEF FrameInv, Translated
<1>3. /\ Bound /\ rcvd \in Ipv4Frames(Mac) /\ Accepted(rcvd)
      /\ Finished(frame, rcvd) /\ frame \in Ipv4Frames(Mac)
      /\ \/ stage = "held_forward" /\ ForwardEnds(frame, session)
         \/ stage = "held_reverse" /\ ReverseEnds(frame, session)
  BY <1>1, <1>2 DEF SentOn, Finished, Held
<1>4. mac \in Mac
  BY <1>3 DEF Bound, ForwardEnds, ReverseEnds
<1> HIDE DEF mac
<1>5. Finished(frame', rcvd)
  BY <1>1, <1>3, <1>4, L2Finished
<1>6. /\ frame' \in Ipv4Frames(Mac) /\ frame'.ip = frame.ip /\ frame'.udp = frame.udp
      /\ frame'.eth_src = GatewayMac /\ frame'.eth_dst = mac
  BY <1>1, <1>3, <1>4, L2Set
<1>7. Finished(frame, rcvd)'
  BY <1>1, <1>5 DEF Finished
<1>8. OnWire'
  BY <1>6 DEF OnWire, mac
<1>9. Bound'
  BY <1>1, <1>3 DEF Bound
<1>10. \/ stage' = "tx_forward" /\ ForwardEnds(frame, session)'
       \/ stage' = "tx_reverse" /\ ReverseEnds(frame, session)'
  <2>1. CASE stage = "held_forward" /\ ForwardEnds(frame, session)
    BY <1>1, <1>6, <2>1, SMTT(20) DEF ForwardEnds
  <2>2. CASE stage = "held_reverse" /\ ReverseEnds(frame, session)
    BY <1>1, <1>6, <2>2, SMTT(20) DEF ReverseEnds
  <2> QED
    BY <1>3, <2>1, <2>2
<1>11. SentOn'
  BY <1>1, <1>3, <1>7, <1>9, <1>10 DEF SentOn
<1>12. FrameTypeOK'
  BY <1>1, <1>6, <1>10 DEF FrameTypeOK, FrameInv, Done
<1> QED
  BY <1>1, <1>8, <1>9, <1>10, <1>11, <1>12
     DEF FrameInv, Translated, Held, ArpAnswered

(* The answer of an upstream is again a frame to be handled. *)
LEMMA AnswerStep ==
  ASSUME FrameInv, UpstreamAnswers
  PROVE  FrameInv'
<1>1. /\ stage = "tx_forward" /\ stage' = "rx" /\ learned' = {}
      /\ request' = request /\ session' = session /\ option' = option
  BY DEF UpstreamAnswers
<1>2. PICK g \in {ClearUdpChecksum(Answer(frame)), RefreshUdpChecksum(Answer(frame), TRUE)} :
        frame' = g /\ rcvd' = g
  BY ZenonT(30) DEF UpstreamAnswers
<1>3. SentOn
  BY <1>1, SMTT(20) DEF FrameInv, Translated
<1>4. /\ frame \in Ipv4Frames(Mac) /\ SameShape(frame, rcvd) /\ Bound
      /\ Covered(rcvd) /\ ForwardEnds(frame, session)
  BY <1>1, <1>3, Zenon DEF SentOn, Finished, FrameInv
<1>5. Covered(frame)
  BY <1>4 DEF Covered, SameShape
<1>6. g \in Ipv4Frames(Mac) /\ Covered(g) /\ g.ip.dst = GatewayIp
  BY <1>4, <1>5, Answered DEF ForwardEnds
<1>7. Bound'
  BY <1>1, <1>4 DEF Bound
<1>8. FrameTypeOK'
  BY <1>1, <1>2, <1>6 DEF FrameTypeOK, FrameInv
<1> QED
  BY <1>1, <1>2, <1>6, <1>7, <1>8
     DEF FrameInv, AnyFrame, Arrived, Translated, Held, ArpAnswered

(* Storing the destination of the Ethernet header changes nothing else. *)
LEMMA StoreEthDst ==
  ASSUME NEW f \in ArpFrames(Mac), NEW mac \in Mac
  PROVE  LET h == [f EXCEPT !.eth_dst = mac]
         IN h \in ArpFrames(Mac) /\ h.arp = f.arp /\ h.eth_dst = mac /\ h.eth_src = f.eth_src
BY DEF ArpFrames

(* Storing the source of the Ethernet header changes nothing else. *)
LEMMA StoreEthSrc ==
  ASSUME NEW f \in ArpFrames(Mac), NEW mac \in Mac
  PROVE  LET h == [f EXCEPT !.eth_src = mac]
         IN h \in ArpFrames(Mac) /\ h.arp = f.arp /\ h.eth_src = mac /\ h.eth_dst = f.eth_dst
BY DEF ArpFrames

(* Storing the length of the segment changes nothing else. *)
LEMMA StoreLen ==
  ASSUME NEW f \in ArpFrames(Mac), NEW n \in Word
  PROVE  LET h == [f EXCEPT !.dlen = n]
         IN h \in ArpFrames(Mac) /\ h.arp = f.arp /\ h.eth_src = f.eth_src /\ h.eth_dst = f.eth_dst
BY DEF ArpFrames

(* Storing the ARP header changes nothing else. *)
LEMMA StoreArp ==
  ASSUME NEW f \in ArpFrames(Mac), NEW arp \in ArpHeader(Mac)
  PROVE  LET h == [f EXCEPT !.arp = arp]
         IN h \in ArpFrames(Mac) /\ h.arp = arp /\ h.eth_src = f.eth_src /\ h.eth_dst = f.eth_dst
BY DEF ArpFrames

(* The reply that make_reply writes over a request, field by field. *)
LEMMA ReplyMade ==
  ASSUME NEW f \in ArpFrames(Mac), NEW ip \in Address
  PROVE  LET h == MakeReply(f, ip)
         IN /\ h \in ArpFrames(Mac)
            /\ h.arp.op = 2 /\ h.arp.spa = ip /\ h.arp.sha = GatewayMac
            /\ h.arp.tpa = f.arp.spa /\ h.arp.tha = f.arp.sha
            /\ h.eth_dst = f.eth_src /\ h.eth_src = GatewayMac
<1> DEFINE g1 == [f EXCEPT !.eth_dst = f.eth_src]
           g2 == [g1 EXCEPT !.eth_src = GatewayMac]
           g3 == [g2 EXCEPT !.arp.op = 2]
           g4 == [g3 EXCEPT !.arp.tha = g3.arp.sha]
           g5 == [g4 EXCEPT !.arp.sha = GatewayMac]
           g6 == [g5 EXCEPT !.arp.spa = ip]
           g7 == [g6 EXCEPT !.arp.tpa = g5.arp.spa]
           n == EthHdrLen + ArpHdrLen
           h == [g7 EXCEPT !.dlen = n]
<1>1. 2 \in Word /\ n \in Word /\ GatewayMac \in Mac
  BY WordRange, FramePathAssumption DEF EthHdrLen, ArpHdrLen
<1>2. MakeReply(f, ip) = h
  BY DEF MakeReply
<1> HIDE DEF n
<1>3. f.arp \in ArpHeader(Mac) /\ f.eth_src \in Mac
  BY DEF ArpFrames
<1>4. g1 \in ArpFrames(Mac) /\ g1.arp = f.arp /\ g1.eth_dst = f.eth_src
  BY <1>3, StoreEthDst, Zenon
<1> HIDE DEF g1
<1>5. /\ g2 \in ArpFrames(Mac) /\ g2.arp = f.arp
      /\ g2.eth_src = GatewayMac /\ g2.eth_dst = f.eth_src
  BY <1>1, <1>4, StoreEthSrc, Zenon
<1> HIDE DEF g2
<1>6. /\ g3 \in ArpFrames(Mac) /\ g3.eth_src = GatewayMac /\ g3.eth_dst = f.eth_src
      /\ g3.arp.op = 2 /\ g3.arp.sha = f.arp.sha /\ g3.arp.spa = f.arp.spa
  <2>1. g3 = [g2 EXCEPT !.arp = [g2.arp EXCEPT !.op = 2]]
    OBVIOUS
  <2>2. [g2.arp EXCEPT !.op = 2] \in ArpHeader(Mac)
    BY <1>1, <1>3, <1>5 DEF ArpHeader
  <2>3. /\ g3 \in ArpFrames(Mac) /\ g3.arp = [g2.arp EXCEPT !.op = 2]
        /\ g3.eth_src = g2.eth_src /\ g3.eth_dst = g2.eth_dst
    BY <1>5, <2>1, <2>2, StoreArp, Zenon
  <2> QED
    BY <1>3, <1>5, <2>3 DEF ArpHeader
<1> HIDE DEF g3
<1>7. /\ g4 \in ArpFrames(Mac) /\ g4.eth_src = GatewayMac /\ g4.eth_dst = f.eth_src
      /\ g4.arp.op = 2 /\ g4.arp.tha = f.arp.sha /\ g4.arp.spa = f.arp.spa
  <2>1. g4 = [g3 EXCEPT !.arp = [g3.arp EXCEPT !.tha = g3.arp.sha]]
    OBVIOUS
  <2>2. g3.arp \in ArpHeader(Mac)
    BY <1>6 DEF ArpFrames
  <2>3. g3.arp.sha \in Mac
    BY <2>2 DEF ArpHeader
  <2>4. [g3.arp EXCEPT !.tha = g3.arp.sha] \in ArpHeader(Mac)
    BY <2>2, <2>3 DEF ArpHeader
  <2>5. /\ g4 \in ArpFrames(Mac) /\ g4.arp = [g3.arp EXCEPT !.tha = g3.arp.sha]
        /\ g4.eth_src = g3.eth_src /\ g4.eth_dst = g3.eth_dst
    BY <1>6, <2>1, <2>4, StoreArp, Zenon
  <2> QED
    BY <1>6, <2>2, <2>5 DEF ArpHeader
<1> HIDE DEF g4
<1>8. /\ g5 \in ArpFrames(Mac) /\ g5.eth_src = GatewayMac /\ g5.eth_dst = f.eth_src
      /\ g5.arp.op = 2 /\ g5.arp.tha = f.arp.sha /\ g5.arp.sha = GatewayMac
      /\ g5.arp.spa = f.arp.spa
  <2>1. g5 = [g4 EXCEPT !.arp = [g4.arp EXCEPT !.sha = GatewayMac]]
    OBVIOUS
  <2>2. g4.arp \in ArpHeader(Mac)
    BY <1>7 DEF ArpFrames
  <2>3. GatewayMac \in Mac
    BY <1>1
  <2>4. [g4.arp EXCEPT !.sha = GatewayMac] \in ArpHeader(Mac)
    BY <2>2, <2>3 DEF ArpHeader
  <2>5. /\ g5 \in ArpFrames(Mac) /\ g5.arp = [g4.arp EXCEPT !.sha = GatewayMac]
        /\ g5.eth_src = g4.eth_src /\ g5.eth_dst = g4.eth_dst
    BY <1>7, <2>1, <2>4, StoreArp, Zenon
  <2> QED
    BY <1>7, <2>2, <2>5 DEF ArpHeader
<1> HIDE DEF g5
<1>9. /\ g6 \in ArpFrames(Mac) /\ g6.eth_src = GatewayMac /\ g6.eth_dst = f.eth_src
      /\ g6.arp.op = 2 /\ g6.arp.tha = f.arp.sha /\ g6.arp.sha = GatewayMac
      /\ g6.arp.spa = ip
  <2>1. g6 = [g5 EXCEPT !.arp = [g5.arp EXCEPT !.spa = ip]]
    OBVIOUS
  <2>2. g5.arp \in ArpHeader(Mac)
    BY <1>8 DEF ArpFrames
  <2>3. ip \in Address
    OBVIOUS
  <2>4. [g5.arp EXCEPT !.spa = ip] \in ArpHeader(Mac)
    BY <2>2, <2>3 DEF ArpHeader
  <2>5. /\ g6 \in ArpFrames(Mac) /\ g6.arp = [g5.arp EXCEPT !.spa = ip]
        /\ g6.eth_src = g5.eth_src /\ g6.eth_dst = g5.eth_dst
    BY <1>8, <2>1, <2>4, StoreArp, Zenon
  <2> QED
    BY <1>8, <2>2, <2>5 DEF ArpHeader
<1> HIDE DEF g6
<1>10. /\ g7 \in ArpFrames(Mac) /\ g7.eth_src = GatewayMac /\ g7.eth_dst = f.eth_src
      /\ g7.arp.op = 2 /\ g7.arp.tha = f.arp.sha /\ g7.arp.sha = GatewayMac
      /\ g7.arp.spa = ip /\ g7.arp.tpa = f.arp.spa
  <2>1. g7 = [g6 EXCEPT !.arp = [g6.arp EXCEPT !.tpa = g5.arp.spa]]
    OBVIOUS
  <2>2. g6.arp \in ArpHeader(Mac)
    BY <1>9 DEF ArpFrames
  <2>3. g5.arp.spa \in Address
    BY <1>8 DEF ArpFrames, ArpHeader
  <2>4. [g6.arp EXCEPT !.tpa = g5.arp.spa] \in ArpHeader(Mac)
    BY <2>2, <2>3 DEF ArpHeader
  <2>5. /\ g7 \in ArpFrames(Mac) /\ g7.arp = [g6.arp EXCEPT !.tpa = g5.arp.spa]
        /\ g7.eth_src = g6.eth_src /\ g7.eth_dst = g6.eth_dst
    BY <1>9, <2>1, <2>4, StoreArp, Zenon
  <2> QED
    BY <1>8, <1>9, <2>2, <2>5 DEF ArpHeader
<1> HIDE DEF g7
<1>11. /\ h \in ArpFrames(Mac) /\ h.arp = g7.arp
       /\ h.eth_src = g7.eth_src /\ h.eth_dst = g7.eth_dst
  BY <1>1, <1>10, StoreLen, Zenon
<1> HIDE DEF h
<1> QED
  BY <1>2, <1>10, <1>11

(* The ARP handler keeps the invariant. *)
LEMMA ArpStep ==
  ASSUME FrameInv, HandleArp
  PROVE  FrameInv'
<1>1. /\ stage = "rx" /\ rcvd' = rcvd /\ request' = request
      /\ session' = session /\ option' = option
      /\ learned' = IF ArpReply(frame) THEN HandleReply(frame) ELSE {}
      /\ frame.etype = "arp"
  BY DEF HandleArp, Ethertype
<1>2. frame = rcvd /\ frame \in ArpFrames(Mac) /\ rcvd \in AnyFrame
  BY <1>1, ByType DEF FrameInv, Arrived
<1>3. frame.arp.spa \in Address
  BY <1>2 DEF ArpFrames, ArpHeader
<1>4. \A e \in learned' : e.ip \in Address \ {NoAddress}
  BY <1>1, <1>2, <1>3 DEF HandleReply
<1>5. ArpRequest(frame) => EthHdrLen + ArpHdrLen <= rcvd.dlen
  <2>1. ArpRequest(frame) => HeadersFit(frame, EthHdrLen + ArpHdrLen)
    BY DEF ArpRequest, ParseArp
  <2>2. frame.dlen \in Nat
    BY <1>2, WordRange DEF ArpFrames
  <2> QED
    BY <1>2, <2>1, <2>2 DEF HeadersFit, EthHdrLen, ArpHdrLen
<1>6. Bound <=> Bound'
  BY <1>1 DEF Bound
<1>7. CASE ArpRequest(frame)
  <2>1. stage' = "tx_arp" /\ frame' = MakeReply(frame, frame.arp.tpa)
    BY <1>7 DEF HandleArp
  <2>2. frame.arp.tpa \in {VipIp, GatewayIp} /\ frame.arp.tpa \in Address
    BY <1>7, FramePathAssumption, SMTT(20) DEF ArpRequest, IsProxyTarget
  <2>3. ArpAnswered' /\ frame' \in ArpFrames(Mac)
    BY <1>1, <1>2, <2>1, <2>2, ReplyMade, SMTT(20) DEF ArpAnswered
  <2>4. FrameTypeOK'
    BY <1>1, <1>4, <2>1, <2>3, SMTT(20) DEF FrameTypeOK, FrameInv, Done
  <2> QED
    BY <1>1, <1>2, <1>5, <1>6, <1>7, <2>1, <2>3, <2>4 DEF FrameInv, Translated, Held
<1>8. CASE ~ArpRequest(frame)
  <2>1. stage' = "drop" /\ frame' = frame
    BY <1>8 DEF HandleArp
  <2>2. FrameTypeOK'
    BY <1>1, <1>4, <2>1 DEF FrameTypeOK, FrameInv, Done
  <2> QED
    BY <1>1, <1>2, <1>6, <2>1, <2>2 DEF FrameInv, Translated, Held, ArpAnswered
<1> QED
  BY <1>7, <1>8

(* Every step keeps the invariant. *)
LEMMA FrameInvNext == FrameInv /\ [FrameNext]_frameVars => FrameInv'
<1> SUFFICES ASSUME FrameInv, [FrameNext]_frameVars PROVE FrameInv'
  OBVIOUS
<1>1. CASE HandleArp
  BY <1>1, ArpStep
<1>2. CASE HandleOther
  <2>1. /\ stage' = "drop" /\ frame' = frame /\ rcvd' = rcvd /\ request' = request
        /\ session' = session /\ learned' = learned /\ option' = option
    BY <1>2 DEF HandleOther
  <2>2. Bound <=> Bound'
    BY <2>1 DEF Bound
  <2>3. FrameTypeOK'
    BY <2>1 DEF FrameTypeOK, FrameInv, Done
  <2> QED
    BY <2>1, <2>2, <2>3 DEF FrameInv, Translated, Held, ArpAnswered
<1>3. CASE \E up \in Upstream, snat \in SnatPort : HandleForward(up, snat)
  BY <1>3, ForwardStep
<1>4. CASE HandleReverse
  BY <1>4, ReverseStep
<1>5. CASE Drop
  BY <1>5, DropStep
<1>6. CASE FinishL2
  BY <1>6, FinishL2Step
<1>7. CASE UpstreamAnswers
  BY <1>7, AnswerStep
<1>8. CASE UNCHANGED frameVars
  <2>1. /\ stage' = stage /\ frame' = frame /\ rcvd' = rcvd /\ request' = request
        /\ session' = session /\ hop' = hop /\ learned' = learned /\ option' = option
    BY <1>8 DEF frameVars
  <2>2. FrameTypeOK <=> FrameTypeOK'
    BY <2>1, SMTT(20) DEF FrameTypeOK
  <2>3. (Bound <=> Bound') /\ (Finished(frame, rcvd) <=> Finished(frame, rcvd)')
    BY <2>1, SMTT(20) DEF Bound, Finished
  <2>4. SentOn <=> SentOn'
    BY <2>1, <2>3 DEF SentOn, ForwardEnds, ReverseEnds
  <2>5. (Arrived <=> Arrived') /\ (OnWire <=> OnWire') /\ (Translated <=> Translated')
    BY <2>1 DEF Arrived, OnWire, Translated
  <2>6. ArpAnswered <=> ArpAnswered'
    BY <2>1 DEF ArpAnswered
  <2> QED
    BY <2>1, <2>2, <2>3, <2>4, <2>5, <2>6 DEF FrameInv
<1> QED
  BY <1>1, <1>2, <1>3, <1>4, <1>5, <1>6, <1>7, <1>8 DEF FrameNext

(* The invariant holds always. *)
LEMMA FrameAlways == FrameSpec => []FrameInv
BY FrameInvInit, FrameInvNext, PTL DEF FrameSpec

-----------------------------------------------------------------------------
(* Theorems *)

(* Frames, learned neighbors and stages stay well formed, whatever frames  *)
(* arrive.                                                                 *)
THEOREM FrameTyped == FrameSpec => []FrameTypeOK
<1>1. FrameInv => FrameTypeOK
  BY DEF FrameInv
<1> QED
  BY <1>1, FrameAlways, PTL

(* The header fields that are rewritten lie in the received segment, for   *)
(* every combination of the length fields.                                 *)
THEOREM FrameHeadersInside == FrameSpec => []HeadersInside
<1>1. ASSUME FrameInv PROVE HeadersInside
  <2>1. ASSUME Translated PROVE EthHdrLen + 4 * frame.ip.ihl + UdpHdrLen <= rcvd.dlen
    <3>1. rcvd \in Ipv4Frames(Mac) /\ Accepted(rcvd) /\ frame.ip.ihl = rcvd.ip.ihl
      BY <1>1, <2>1 DEF FrameInv, SentOn, Finished, SameShape
    <3> QED
      BY <3>1, AcceptedHeaders
  <2> QED
    BY <1>1, <2>1 DEF FrameInv, HeadersInside
<1> QED
  BY <1>1, FrameAlways, PTL

(* With verify_checksum, parse_udp_ipv4 accepts exactly the datagrams      *)
(* whose checksums are those of RFC 791 and RFC 768.                       *)
THEOREM FrameVerifyExact == FrameSpec => []VerifyExact
<1>1. ASSUME FrameInv PROVE VerifyExact
  <2>1. rcvd.etype = "ipv4" => rcvd \in Ipv4Frames(Mac) /\ Covered(rcvd)
    BY <1>1, ByType DEF FrameInv
  <2>2. option.fixesZero \in BOOLEAN
    BY <1>1, FramePathAssumption DEF FrameInv, FrameTypeOK
  <2> QED
    BY <2>1, <2>2, VerifierExact DEF VerifyExact
<1> QED
  BY <1>1, FrameAlways, PTL

(* A translated packet is one that its receiver accepts. *)
THEOREM FrameReceiverAccepts == FrameSpec => []ReceiverAccepts
<1>1. ASSUME FrameInv, Translated PROVE ReceiverAccepts
  <2>1. /\ Finished(frame, rcvd) /\ rcvd \in Ipv4Frames(Mac)
        /\ Accepted(rcvd)
    BY <1>1 DEF FrameInv, SentOn
  <2>2. frame \in Ipv4Frames(Mac) /\ rcvd \in Ipv4Frames(Mac) /\ SameShape(frame, rcvd)
    BY <2>1 DEF Finished
  <2>3. Accepted(frame)
    BY <2>1, <2>2, AcceptedShape
  <2>4. ParseUdpIpv4(frame, FALSE, option.fixesZero) = "ok"
    BY <2>3 DEF Accepted, PlainParse
  <2> QED
    BY <2>1, <2>4 DEF Finished, ReceiverAccepts
<1>2. FrameInv => ReceiverAccepts
  BY <1>1, Zenon DEF ReceiverAccepts
<1> QED
  BY <1>2, FrameAlways, PTL

(* The client gets the upstream's answer from the address and port that it *)
(* sent its request to.                                                    *)
THEOREM FrameRoundTrip == FrameSpec => []RoundTrip
<1>1. FrameInv => RoundTrip
  BY DEF FrameInv, Translated, SentOn, Bound, ReverseEnds, RoundTrip
<1> QED
  BY <1>1, FrameAlways, PTL

(* A translated packet leaves for the MAC of its next hop, with everything *)
(* but addresses, ports and checksums as it was received.                  *)
THEOREM FrameTxAddressed == FrameSpec => []TxAddressed
<1>1. FrameInv => TxAddressed
  BY DEF FrameInv, Translated, SentOn, Finished, SameShape, OnWire,
         ForwardEnds, ReverseEnds, TxAddressed
<1> QED
  BY <1>1, FrameAlways, PTL

(* An ARP request for the VIP or the gateway is answered to the asker. *)
THEOREM FrameArpAnswered == FrameSpec => []ArpAnswered
<1>1. FrameInv => ArpAnswered
  BY DEF FrameInv
<1> QED
  BY <1>1, FrameAlways, PTL
=============================================================================
