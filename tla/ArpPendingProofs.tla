-------------------------- MODULE ArpPendingProofs --------------------------
(***************************************************************************)
(* Proofs about the helpers of ArpPending, for every record io: that each  *)
(* keeps an mbuf in one place, loses none, bounds the queues and keeps     *)
(* packets that wait for one next hop in order.                            *)
(***************************************************************************)
EXTENDS ArpPending, SequenceTheorems, TLAPS

(* How long a prover may try a step. *)
USE SMTT(20), ZenonT(20), Z3T(20)

-----------------------------------------------------------------------------
(* The records that the helpers map, for packets with headers in H. *)

Sent(H) == [m : Mbuf, hdr : H]
Waiting(H) == [m : Mbuf, hdr : H, age : 0 .. PendingTimeout]

IoType(H) ==
  [tx : Seq(Sent(H)),
   pending : [Ip -> Seq(Waiting(H))],
   probed : [Ip -> (0 .. ProbeInterval) \cup {nullptr}],
   outside : SUBSET Mbuf]

(* The queues respect ARP_PENDING_MAX_PER_IP. *)
Bounded(io) == \A p \in Ip : Len(io.pending[p]) <= PendingMax

(* No mbuf is in two places. *)
Tidy(io) ==
  /\ \A i, j \in 1 .. Len(io.tx) : io.tx[i].m = io.tx[j].m => i = j
  /\ \A a, b \in Ip : \A i \in 1 .. Len(io.pending[a]), j \in 1 .. Len(io.pending[b]) :
       io.pending[a][i].m = io.pending[b][j].m => a = b /\ i = j
  /\ \A i \in 1 .. Len(io.tx) : io.tx[i].m \notin io.outside
  /\ \A a \in Ip : \A i \in 1 .. Len(io.pending[a]) :
       /\ io.pending[a][i].m \notin io.outside
       /\ \A j \in 1 .. Len(io.tx) : io.tx[j].m # io.pending[a][i].m

(* The mbuf x is in one. *)
InTx(io, x) == \E i \in 1 .. Len(io.tx) : io.tx[i].m = x
IsHeld(io, x) == \E a \in Ip : \E i \in 1 .. Len(io.pending[a]) : io.pending[a][i].m = x
Somewhere(io, x) == x \in io.outside \/ InTx(io, x) \/ IsHeld(io, x)

(* The headers in the batch are in G and the packets held in S. *)
Carries(io, G, S) ==
  /\ \A i \in 1 .. Len(io.tx) : io.tx[i].hdr \in G
  /\ \A a \in Ip : \A i \in 1 .. Len(io.pending[a]) : io.pending[a][i] \in S

(* An mbuf is held once. *)
LEMMA HeldOnce ==
  ASSUME NEW io, Tidy(io), NEW a \in Ip, NEW b \in Ip,
         NEW i \in 1 .. Len(io.pending[a]), NEW j \in 1 .. Len(io.pending[b]),
         io.pending[a][i].m = io.pending[b][j].m
  PROVE  a = b /\ i = j
BY DEF Tidy

(* What is known of the numbers among the constants. *)
LEMMA PendingFacts ==
  /\ NoIp \in Ip
  /\ Burst \in Nat /\ PendingMax \in Nat \ {0}
  /\ PendingTimeout \in Nat \ {0} /\ ProbeInterval \in Nat \ {0}
BY ArpPendingAssumption

(* The parts of a record are as IoType says. *)
LEMMA IoFacts ==
  ASSUME NEW H, NEW io \in IoType(H)
  PROVE  /\ io.tx \in Seq(Sent(H)) /\ Len(io.tx) \in Nat
         /\ \A i \in 1 .. Len(io.tx) : io.tx[i] \in Sent(H)
         /\ io.pending \in [Ip -> Seq(Waiting(H))]
         /\ \A p \in Ip : /\ io.pending[p] \in Seq(Waiting(H))
                          /\ Len(io.pending[p]) \in Nat
                          /\ \A i \in 1 .. Len(io.pending[p]) : io.pending[p][i] \in Waiting(H)
         /\ io.probed \in [Ip -> (0 .. ProbeInterval) \cup {nullptr}]
         /\ io.outside \in SUBSET Mbuf
<1>1. /\ io.tx \in Seq(Sent(H))
      /\ io.pending \in [Ip -> Seq(Waiting(H))]
      /\ io.probed \in [Ip -> (0 .. ProbeInterval) \cup {nullptr}]
      /\ io.outside \in SUBSET Mbuf
  BY DEF IoType
<1>2. \A p \in Ip : io.pending[p] \in Seq(Waiting(H))
  BY <1>1
<1> QED
  BY <1>1, <1>2, LenProperties, ElementOfSeq

(* What the loops over a queue keep: the packets that are not expired, in  *)
(* the order of the queue.                                                 *)
Keeps(r, q, f) ==
  /\ f \in [1 .. Len(r) -> 1 .. Len(q)]
  /\ \A a, b \in 1 .. Len(r) : a < b => f[a] < f[b]
  /\ \A a \in 1 .. Len(r) : r[a] = q[f[a]] /\ q[f[a]].age < PendingTimeout
  /\ \A i \in 1 .. Len(q) :
       i \in Expired(q) \/ \E a \in 1 .. Len(r) : f[a] = i

(* Ready keeps these, for every queue.  The lemmas below assume it by name. *)
(* Its proof counts positions, so it is left to where the theorems on      *)
(* finite sets are at hand: see ReadyFacts in GatewayProofs.               *)
ReadyKeeps ==
  \A H : \A q \in Seq(Waiting(H)) :
    /\ Ready(q) \in Seq(Waiting(H))
    /\ Len(Ready(q)) \in Nat /\ Len(Ready(q)) <= Len(q)
    /\ \E f : Keeps(Ready(q), q, f)

-----------------------------------------------------------------------------
(* flush_pending *)

(* r is io after a flush of the queue of ip that transmits the first n of  *)
(* the packets that are not expired.                                       *)
Flushed(io, r, ip, ready, f, n) ==
  /\ Keeps(ready, io.pending[ip], f)
  /\ n \in 0 .. Len(ready)
  /\ Len(r.tx) = Len(io.tx) + n
  /\ \A i \in 1 .. Len(io.tx) : r.tx[i] = io.tx[i]
  /\ \A a \in 1 .. n : /\ r.tx[Len(io.tx) + a].m = ready[a].m
                       /\ r.tx[Len(io.tx) + a].hdr = ready[a].hdr
  /\ \A p \in Ip : p # ip => r.pending[p] = io.pending[p]
  /\ Len(r.pending[ip]) = Len(ready) - n
  /\ \A i \in 1 .. (Len(ready) - n) : r.pending[ip][i] = ready[n + i]
  /\ r.outside = io.outside \cup TimedOut(io.pending[ip])

(* What flush_pending does: a front part of the packets it keeps is sent,   *)
(* the others go on waiting, and the expired ones are freed.               *)
LEMMA FlushShape ==
  ASSUME ReadyKeeps, NEW H, NEW io \in IoType(H), NEW ip \in Ip, ip # NoIp
  PROVE  /\ FlushPending(io, ip) \in IoType(H)
         /\ Len(Ready(io.pending[ip])) \in Nat
         /\ Len(Ready(io.pending[ip])) <= Len(io.pending[ip])
         /\ \E f, n : Flushed(io, FlushPending(io, ip), ip, Ready(io.pending[ip]), f, n)
<1> DEFINE q == io.pending[ip]
           ready == Ready(q)
           n == IF ~FinishL2(ip) \/ Len(io.tx) >= Burst THEN 0
                ELSE Min2(Len(ready), Burst - Len(io.tx))
           more == [i \in 1 .. n |-> [m |-> ready[i].m, hdr |-> ready[i].hdr]]
           left == SubSeq(ready, n + 1, Len(ready))
           r == FlushPending(io, ip)
<1>1. /\ q \in Seq(Waiting(H)) /\ io.tx \in Seq(Sent(H)) /\ Len(io.tx) \in Nat
      /\ io.pending \in [Ip -> Seq(Waiting(H))] /\ io.outside \in SUBSET Mbuf
      /\ io.probed \in [Ip -> (0 .. ProbeInterval) \cup {nullptr}]
  BY IoFacts
<1>2. /\ ready \in Seq(Waiting(H)) /\ Len(ready) \in Nat /\ Len(ready) <= Len(q)
      /\ \E f : Keeps(ready, q, f)
  BY <1>1 DEF ReadyKeeps
<1>3. n \in 0 .. Len(ready)
  <2> HIDE DEF ready
  <2> QED
    BY <1>1, <1>2, PendingFacts DEF Min2
<1>4. /\ r.tx = io.tx \o more
      /\ r.pending = [io.pending EXCEPT ![ip] = left]
      /\ r.outside = io.outside \cup TimedOut(q)
      /\ r.probed = io.probed
      /\ r = [tx |-> r.tx, pending |-> r.pending, probed |-> r.probed, outside |-> r.outside]
  <2>1. r = [io EXCEPT !.tx = @ \o more, !.pending[ip] = left,
                       !.outside = @ \cup TimedOut(q)]
    BY DEF FlushPending
  <2> HIDE DEF more, left, q, r
  <2> QED
    BY <2>1, ZenonT(20) DEF IoType
<1> HIDE DEF n, ready
<1>5. \A i \in 1 .. Len(ready) : ready[i] \in Waiting(H)
  BY <1>2, ElementOfSeq
<1>6. more \in Seq(Sent(H)) /\ Len(more) = n
  <2>1. \A i \in 1 .. n : [m |-> ready[i].m, hdr |-> ready[i].hdr] \in Sent(H)
    BY <1>3, <1>5 DEF Waiting, Sent
  <2>2. more \in [1 .. n -> Sent(H)] /\ n \in Nat
    BY <1>3, <2>1
  <2>3. more \in Seq(Sent(H))
    BY <2>2, SeqDef
  <2> HIDE DEF more
  <2> QED
    BY <2>2, <2>3, LenProperties
<1>7. /\ left \in Seq(Waiting(H)) /\ Len(left) = Len(ready) - n
      /\ \A i \in 1 .. (Len(ready) - n) : left[i] = ready[n + i]
  BY <1>2, <1>3
<1>8. \A a \in 1 .. n : more[a].m = ready[a].m /\ more[a].hdr = ready[a].hdr
  OBVIOUS
<1> HIDE DEF more, left
<1>9. TimedOut(q) \in SUBSET Mbuf
  <2>1. \A i \in Expired(q) : q[i] \in Waiting(H)
    BY <1>1, ElementOfSeq DEF Expired
  <2> QED
    BY <2>1 DEF TimedOut, Waiting
<1> HIDE DEF q, r
<1>10. r \in IoType(H)
  <2>1. r.tx \in Seq(Sent(H))
    BY <1>1, <1>4, <1>6, ConcatProperties
  <2>2. r.pending \in [Ip -> Seq(Waiting(H))]
    BY <1>1, <1>4, <1>7
  <2>3. r.outside \in SUBSET Mbuf
    BY <1>1, <1>4, <1>9
  <2> QED
    BY <1>1, <1>4, <2>1, <2>2, <2>3, ZenonT(20) DEF IoType
<1>11. PICK f : Keeps(ready, q, f)
  BY <1>2
<1>12. /\ Len(r.tx) = Len(io.tx) + n
       /\ \A i \in 1 .. Len(io.tx) : r.tx[i] = io.tx[i]
       /\ \A a \in 1 .. n : r.tx[Len(io.tx) + a] = more[a]
  <2>1. /\ Len(r.tx) = Len(io.tx) + n
        /\ \A i \in 1 .. (Len(io.tx) + n) :
             r.tx[i] = IF i <= Len(io.tx) THEN io.tx[i] ELSE more[i - Len(io.tx)]
    <3>1. /\ Len(io.tx \o more) = Len(io.tx) + Len(more)
          /\ \A i \in 1 .. (Len(io.tx) + Len(more)) :
               (io.tx \o more)[i] = IF i <= Len(io.tx) THEN io.tx[i]
                                    ELSE more[i - Len(io.tx)]
      BY <1>1, <1>6, ConcatProperties, ZenonT(20)
    <3> QED
      BY <1>4, <1>6, <3>1, ZenonT(20)
  <2>2. \A i \in 1 .. Len(io.tx) : i \in 1 .. (Len(io.tx) + n) /\ i <= Len(io.tx)
    BY <1>1, <1>3
  <2>3. \A a \in 1 .. n : /\ Len(io.tx) + a \in 1 .. (Len(io.tx) + n)
                          /\ ~(Len(io.tx) + a <= Len(io.tx))
                          /\ (Len(io.tx) + a) - Len(io.tx) = a
    BY <1>1, <1>3
  <2>4. ASSUME NEW a \in 1 .. n
        PROVE  r.tx[Len(io.tx) + a] = more[a]
    BY <2>1, <2>3
  <2> QED
    BY <2>1, <2>2, <2>4
<1>13. r.pending[ip] = left /\ \A p \in Ip : p # ip => r.pending[p] = io.pending[p]
  BY <1>1, <1>4
<1>14. Flushed(io, r, ip, ready, f, n)
  BY <1>3, <1>4, <1>7, <1>8, <1>11, <1>12, <1>13, ZenonT(20) DEF Flushed, q
<1> QED
  BY <1>2, <1>10, <1>14 DEF q, r, ready

(* Where the packets come from that are in the batch and in the queue      *)
(* after a flush: from the entry of the queue that f says.                 *)
Origins(io, r, ip, ready, f, n) ==
  /\ \A a \in 1 .. Len(ready) :
       f[a] \in 1 .. Len(io.pending[ip]) /\ f[a] \notin Expired(io.pending[ip])
  /\ \A a, b \in 1 .. Len(ready) : f[a] = f[b] => a = b
  /\ \A a, b \in 1 .. Len(ready) : f[a] < f[b] => a < b
  /\ \A i \in 1 .. Len(r.tx) :
       \/ i \in 1 .. Len(io.tx) /\ r.tx[i] = io.tx[i]
       \/ \E a \in 1 .. Len(ready) :
            /\ a <= n /\ i = Len(io.tx) + a
            /\ r.tx[i].m = io.pending[ip][f[a]].m
            /\ r.tx[i].hdr = io.pending[ip][f[a]].hdr
  /\ \A i \in 1 .. Len(r.pending[ip]) :
       \E a \in 1 .. Len(ready) :
         a > n /\ a = n + i /\ r.pending[ip][i] = io.pending[ip][f[a]]

(* A flush has such origins. *)
LEMMA FlushOrigins ==
  ASSUME NEW H, NEW io \in IoType(H), NEW ip \in Ip, NEW r \in IoType(H),
         NEW ready, Len(ready) \in Nat, NEW f, NEW n,
         Flushed(io, r, ip, ready, f, n)
  PROVE  Origins(io, r, ip, ready, f, n)
<1> DEFINE q == io.pending[ip]
<1>1. /\ Len(io.tx) \in Nat /\ Len(q) \in Nat /\ PendingTimeout \in Nat
      /\ \A i \in 1 .. Len(q) : q[i] \in Waiting(H)
  BY IoFacts, PendingFacts
<1>2. /\ f \in [1 .. Len(ready) -> 1 .. Len(q)]
      /\ \A a, b \in 1 .. Len(ready) : a < b => f[a] < f[b]
      /\ \A a \in 1 .. Len(ready) : ready[a] = q[f[a]] /\ q[f[a]].age < PendingTimeout
      /\ n \in 0 .. Len(ready) /\ n \in Nat
  BY DEF Flushed, Keeps
<1>3. /\ Len(r.tx) = Len(io.tx) + n
      /\ \A i \in 1 .. Len(io.tx) : r.tx[i] = io.tx[i]
      /\ \A a \in 1 .. n : /\ r.tx[Len(io.tx) + a].m = ready[a].m
                           /\ r.tx[Len(io.tx) + a].hdr = ready[a].hdr
      /\ Len(r.pending[ip]) = Len(ready) - n
      /\ \A i \in 1 .. (Len(ready) - n) : r.pending[ip][i] = ready[n + i]
  BY DEF Flushed
<1>4. \A i \in Expired(q) : q[i].age >= PendingTimeout
  BY DEF Expired
<1> HIDE DEF q
<1>5. \A a \in 1 .. Len(ready) : f[a] \in 1 .. Len(q) /\ f[a] \in Nat
  BY <1>1, <1>2
<1>6. \A a \in 1 .. Len(ready) : f[a] \notin Expired(q)
  <2>1. \A a \in 1 .. Len(ready) : q[f[a]].age \in Nat
    BY <1>1, <1>5 DEF Waiting
  <2> QED
    BY <1>1, <1>2, <1>4, <2>1
<1>7. ASSUME NEW a \in 1 .. Len(ready), NEW b \in 1 .. Len(ready)
      PROVE  /\ f[a] = f[b] => a = b
             /\ f[a] < f[b] => a < b
  <2>1. a < b \/ a = b \/ b < a
    OBVIOUS
  <2>2. f[a] \in Nat /\ f[b] \in Nat
    BY <1>5
  <2>3. (a < b => f[a] < f[b]) /\ (b < a => f[b] < f[a])
    BY <1>2
  <2> QED
    BY <2>1, <2>2, <2>3
<1>8. ASSUME NEW i \in 1 .. Len(r.tx), i \notin 1 .. Len(io.tx)
      PROVE  \E a \in 1 .. Len(ready) :
               /\ a <= n /\ i = Len(io.tx) + a
               /\ r.tx[i].m = q[f[a]].m
               /\ r.tx[i].hdr = q[f[a]].hdr
  <2> DEFINE a == i - Len(io.tx)
  <2>1. a \in 1 .. n /\ i = Len(io.tx) + a
    BY <1>1, <1>2, <1>3, <1>8
  <2>2. a \in 1 .. Len(ready) /\ a <= n
    BY <1>2, <2>1
  <2> HIDE DEF a
  <2>3. r.tx[i].m = q[f[a]].m /\ r.tx[i].hdr = q[f[a]].hdr
    BY <1>2, <1>3, <2>1, <2>2, ZenonT(20)
  <2> QED
    BY <2>1, <2>2, <2>3
<1>9. ASSUME NEW i \in 1 .. Len(r.pending[ip])
      PROVE  \E a \in 1 .. Len(ready) :
               a > n /\ a = n + i /\ r.pending[ip][i] = q[f[a]]
  <2>1. n + i \in 1 .. Len(ready) /\ n + i > n /\ i \in 1 .. (Len(ready) - n)
    BY <1>2, <1>3
  <2>2. r.pending[ip][i] = ready[n + i] /\ ready[n + i] = q[f[n + i]]
    BY <1>2, <1>3, <2>1
  <2> QED
    BY <2>1, <2>2
<1>10. \A i \in 1 .. Len(io.tx) : r.tx[i] = io.tx[i]
  BY <1>3
<1> QED
  BY <1>5, <1>6, <1>7, <1>8, <1>9, <1>10 DEF Origins, q

(* flush_pending moves packets from the queue into the batch or frees      *)
(* them: each mbuf stays in one place and none is lost.                    *)
LEMMA FlushMoves ==
  ASSUME ReadyKeeps, NEW H, NEW io \in IoType(H), Tidy(io), NEW ip \in Ip, ip # NoIp
  PROVE  /\ Tidy(FlushPending(io, ip))
         /\ \A x : Somewhere(FlushPending(io, ip), x) <=> Somewhere(io, x)
<1> DEFINE r == FlushPending(io, ip)
           q == io.pending[ip]
           ready == Ready(q)
<1>1. PICK f, n : Flushed(io, r, ip, ready, f, n)
  BY FlushShape
<1>2. r \in IoType(H) /\ Len(ready) \in Nat /\ Len(io.tx) \in Nat
  BY FlushShape, IoFacts
<1> HIDE DEF r, ready
<1>3. /\ \A a \in 1 .. Len(ready) : f[a] \in 1 .. Len(q) /\ f[a] \notin Expired(q)
      /\ \A a, b \in 1 .. Len(ready) : f[a] = f[b] => a = b
      /\ \A i \in 1 .. Len(r.tx) :
           \/ i \in 1 .. Len(io.tx) /\ r.tx[i] = io.tx[i]
           \/ \E a \in 1 .. Len(ready) :
                a <= n /\ i = Len(io.tx) + a /\ r.tx[i].m = q[f[a]].m
      /\ \A i \in 1 .. Len(r.pending[ip]) :
           \E a \in 1 .. Len(ready) :
             a > n /\ a = n + i /\ r.pending[ip][i] = q[f[a]]
  <2>1. Origins(io, r, ip, ready, f, n)
    BY <1>1, <1>2, FlushOrigins
  <2> QED
    BY <2>1 DEF Origins
<1>4. /\ \A p \in Ip : p # ip => r.pending[p] = io.pending[p]
      /\ r.outside = io.outside \cup TimedOut(q)
      /\ n \in 0 .. Len(ready) /\ n \in Nat
      /\ Len(r.pending[ip]) = Len(ready) - n
      /\ \A i \in 1 .. Len(q) : i \in Expired(q) \/ \E a \in 1 .. Len(ready) : f[a] = i
      /\ \A a \in 1 .. Len(ready) : ready[a] = q[f[a]]
      /\ Len(r.tx) = Len(io.tx) + n
      /\ \A i \in 1 .. Len(io.tx) : r.tx[i] = io.tx[i]
      /\ \A a \in 1 .. n : r.tx[Len(io.tx) + a].m = ready[a].m
      /\ \A i \in 1 .. (Len(ready) - n) : r.pending[ip][i] = ready[n + i]
  BY <1>1, <1>2 DEF Flushed, Keeps
<1>5. /\ \A x : x \in TimedOut(q) <=> \E i \in Expired(q) : q[i].m = x
      /\ \A i \in Expired(q) : i \in 1 .. Len(q)
  BY DEF TimedOut, Expired
<1>6. \A i, j \in 1 .. Len(q) : q[i].m = q[j].m => i = j
  BY DEF Tidy
<1>7. \A i \in 1 .. Len(q) : /\ q[i].m \notin io.outside
                             /\ \A j \in 1 .. Len(io.tx) : io.tx[j].m # q[i].m
  BY DEF Tidy
<1> HIDE DEF q
<1>8. ASSUME NEW a \in 1 .. Len(ready), q[f[a]].m \in r.outside
      PROVE  FALSE
  <2>1. f[a] \in 1 .. Len(q) /\ f[a] \notin Expired(q)
    BY <1>3
  <2>2. q[f[a]].m \in TimedOut(q)
    BY <1>4, <1>7, <1>8, <2>1
  <2>3. PICK i \in Expired(q) : q[i].m = q[f[a]].m
    BY <1>5, <2>2
  <2> QED
    BY <1>5, <1>6, <2>1, <2>3
<1>9. \A a, b \in 1 .. Len(ready) : q[f[a]].m = q[f[b]].m => a = b
  BY <1>3, <1>6, ZenonT(20)
<1>10. ASSUME NEW i \in 1 .. Len(r.tx), NEW j \in 1 .. Len(r.tx), r.tx[i].m = r.tx[j].m
       PROVE  i = j
  <2>1. CASE i \in 1 .. Len(io.tx) /\ r.tx[i] = io.tx[i]
    <3>1. CASE j \in 1 .. Len(io.tx) /\ r.tx[j] = io.tx[j]
      BY <1>10, <2>1, <3>1, ZenonT(20) DEF Tidy
    <3>2. ASSUME NEW b \in 1 .. Len(ready), r.tx[j].m = q[f[b]].m
          PROVE  FALSE
      BY <1>3, <1>7, <1>10, <2>1, <3>2
    <3> QED
      BY <1>3, <3>1, <3>2, ZenonT(20)
  <2>2. ASSUME NEW a \in 1 .. Len(ready), i = Len(io.tx) + a, r.tx[i].m = q[f[a]].m
        PROVE  i = j
    <3>1. CASE j \in 1 .. Len(io.tx) /\ r.tx[j] = io.tx[j]
      BY <1>3, <1>7, <1>10, <2>2, <3>1
    <3>2. ASSUME NEW b \in 1 .. Len(ready), j = Len(io.tx) + b, r.tx[j].m = q[f[b]].m
          PROVE  i = j
      BY <1>9, <1>10, <2>2, <3>2
    <3> QED
      BY <1>3, <3>1, <3>2, ZenonT(20)
  <2> QED
    BY <1>3, <2>1, <2>2
<1> DEFINE From(p, i, g) ==
             /\ r.pending[p][i] = io.pending[p][g]
             /\ p # ip => g = i
             /\ p = ip => \E a \in 1 .. Len(ready) : a > n /\ a = n + i /\ g = f[a]
<1>11. ASSUME NEW p \in Ip, NEW i \in 1 .. Len(r.pending[p])
       PROVE  \E g \in 1 .. Len(io.pending[p]) : From(p, i, g)
  <2>1. CASE p = ip
    <3>1. PICK a \in 1 .. Len(ready) :
            a > n /\ a = n + i /\ r.pending[p][i] = q[f[a]]
      BY <1>3, <2>1
    <3> QED
      BY <1>3, <2>1, <3>1, ZenonT(20) DEF q
  <2>2. CASE p # ip
    BY <1>4, <2>2
  <2> QED
    BY <2>1, <2>2
<1> HIDE DEF From
<1>12. ASSUME NEW p \in Ip, NEW i \in 1 .. Len(r.pending[p]),
              NEW s \in Ip, NEW j \in 1 .. Len(r.pending[s]),
              r.pending[p][i].m = r.pending[s][j].m
       PROVE  p = s /\ i = j
  <2>1. PICK g \in 1 .. Len(io.pending[p]) : From(p, i, g)
    BY <1>11
  <2>2. PICK h \in 1 .. Len(io.pending[s]) : From(s, j, h)
    BY <1>11
  <2>3. p = s /\ g = h
    BY <1>12, <2>1, <2>2 DEF Tidy, From
  <2>4. CASE p = ip
    <3>1. PICK a \in 1 .. Len(ready) : a = n + i /\ g = f[a]
      BY <2>1, <2>4 DEF From
    <3>2. PICK b \in 1 .. Len(ready) : b = n + j /\ h = f[b]
      BY <2>2, <2>3, <2>4 DEF From
    <3>3. a = b
      BY <1>3, <2>3, <3>1, <3>2, ZenonT(20)
    <3>4. i \in Int /\ j \in Int
      BY <1>4, <2>3, <2>4
    <3> QED
      BY <1>4, <2>3, <3>1, <3>2, <3>3, <3>4
  <2>5. CASE p # ip
    BY <2>1, <2>2, <2>3, <2>5 DEF From
  <2> QED
    BY <2>4, <2>5
<1>13. ASSUME NEW i \in 1 .. Len(r.tx)
       PROVE  r.tx[i].m \notin r.outside
  <2>1. CASE i \in 1 .. Len(io.tx) /\ r.tx[i] = io.tx[i]
    <3>1. r.tx[i].m \notin io.outside
      BY <2>1 DEF Tidy
    <3>2. r.tx[i].m \notin TimedOut(q)
      BY <1>5, <1>7, <2>1
    <3> QED
      BY <1>4, <3>1, <3>2
  <2> QED
    BY <1>3, <1>8, <2>1
<1>14. ASSUME NEW p \in Ip, NEW i \in 1 .. Len(r.pending[p])
       PROVE  /\ r.pending[p][i].m \notin r.outside
              /\ \A j \in 1 .. Len(r.tx) : r.tx[j].m # r.pending[p][i].m
  <2>1. PICK g \in 1 .. Len(io.pending[p]) : From(p, i, g)
    BY <1>11
  <2>2. CASE p = ip
    <3>1. PICK a \in 1 .. Len(ready) : a > n /\ g = f[a]
      BY <2>1, <2>2 DEF From
    <3>2. r.pending[p][i].m = q[f[a]].m
      BY <2>1, <2>2, <3>1 DEF q, From
    <3>3. ASSUME NEW j \in 1 .. Len(r.tx), r.tx[j].m = q[f[a]].m
          PROVE  FALSE
      <4>1. CASE j \in 1 .. Len(io.tx) /\ r.tx[j] = io.tx[j]
        BY <1>3, <1>7, <3>3, <4>1, ZenonT(20)
      <4>2. ASSUME NEW b \in 1 .. Len(ready), b <= n, r.tx[j].m = q[f[b]].m
            PROVE  FALSE
        <5>1. a = b
          BY <1>9, <3>3, <4>2, ZenonT(20)
        <5> QED
          BY <1>4, <3>1, <4>2, <5>1
      <4> QED
        BY <1>3, <4>1, <4>2
    <3> QED
      BY <1>8, <3>2, <3>3
  <2>3. CASE p # ip
    <3>1. r.pending[p][i] = io.pending[p][i] /\ i \in 1 .. Len(io.pending[p])
      BY <2>1, <2>3 DEF From
    <3>2. \A k \in 1 .. Len(q) : q[k].m # r.pending[p][i].m
      BY <2>3, <3>1 DEF Tidy, q
    <3>3. r.pending[p][i].m \notin r.outside
      <4>1. r.pending[p][i].m \notin io.outside
        BY <3>1 DEF Tidy
      <4>2. r.pending[p][i].m \notin TimedOut(q)
        BY <1>5, <3>2
      <4> QED
        BY <1>4, <4>1, <4>2
    <3>4. ASSUME NEW j \in 1 .. Len(r.tx), r.tx[j].m = r.pending[p][i].m
          PROVE  FALSE
      <4>1. \A b \in 1 .. Len(ready) : r.tx[j].m # q[f[b]].m
        BY <1>3, <3>2, <3>4
      <4>2. j \in 1 .. Len(io.tx) /\ r.tx[j] = io.tx[j]
        BY <1>3, <4>1, ZenonT(20)
      <4> QED
        BY <3>1, <3>4, <4>2 DEF Tidy
    <3> QED
      BY <3>3, <3>4
  <2> QED
    BY <2>2, <2>3
<1>15. Tidy(r)
  <2>1. \A i, j \in 1 .. Len(r.tx) : r.tx[i].m = r.tx[j].m => i = j
    BY <1>10
  <2>2. \A a, b \in Ip : \A i \in 1 .. Len(r.pending[a]), j \in 1 .. Len(r.pending[b]) :
          r.pending[a][i].m = r.pending[b][j].m => a = b /\ i = j
    BY <1>12
  <2> QED
    BY <1>13, <1>14, <2>1, <2>2, ZenonT(20) DEF Tidy
<1>16. ASSUME NEW x, Somewhere(r, x)
       PROVE  Somewhere(io, x)
  <2>0. ASSUME NEW i \in 1 .. Len(q), q[i].m = x
        PROVE  Somewhere(io, x)
    BY <2>0, ZenonT(20) DEF Somewhere, IsHeld, q
  <2>1. CASE x \in r.outside
    BY <1>4, <1>5, <2>0, <2>1, ZenonT(20) DEF Somewhere
  <2>2. ASSUME NEW i \in 1 .. Len(r.tx), r.tx[i].m = x
        PROVE  Somewhere(io, x)
    <3>1. CASE i \in 1 .. Len(io.tx) /\ r.tx[i] = io.tx[i]
      BY <2>2, <3>1, ZenonT(20) DEF Somewhere, InTx
    <3>2. ASSUME NEW a \in 1 .. Len(ready), r.tx[i].m = q[f[a]].m
          PROVE  Somewhere(io, x)
      BY <1>3, <2>0, <2>2, <3>2, ZenonT(20)
    <3> QED
      BY <1>3, <3>1, <3>2
  <2>3. ASSUME NEW p \in Ip, NEW i \in 1 .. Len(r.pending[p]), r.pending[p][i].m = x
        PROVE  Somewhere(io, x)
    <3>1. PICK g \in 1 .. Len(io.pending[p]) : r.pending[p][i] = io.pending[p][g]
      BY <1>11, <2>3 DEF From
    <3> QED
      BY <2>3, <3>1, ZenonT(20) DEF Somewhere, IsHeld
  <2> QED
    BY <1>16, <2>1, <2>2, <2>3, ZenonT(20) DEF Somewhere, InTx, IsHeld
<1>17. ASSUME NEW x, Somewhere(io, x)
       PROVE  Somewhere(r, x)
  <2>1. CASE x \in io.outside
    BY <1>4, <2>1 DEF Somewhere
  <2>2. ASSUME NEW i \in 1 .. Len(io.tx), io.tx[i].m = x
        PROVE  Somewhere(r, x)
    <3>1. i \in 1 .. Len(r.tx) /\ r.tx[i].m = x
      BY <1>2, <1>4, <2>2
    <3> QED
      BY <3>1 DEF Somewhere, InTx
  <2>3. ASSUME NEW p \in Ip, NEW i \in 1 .. Len(io.pending[p]), io.pending[p][i].m = x
        PROVE  Somewhere(r, x)
    <3>1. CASE p # ip
      BY <1>4, <2>3, <3>1 DEF Somewhere, IsHeld
    <3>2. CASE p = ip /\ i \in Expired(q)
      BY <1>4, <1>5, <2>3, <3>2 DEF Somewhere, q
    <3>3. ASSUME p = ip, NEW a \in 1 .. Len(ready), f[a] = i
          PROVE  Somewhere(r, x)
      <4>1. ready[a].m = x
        BY <1>4, <2>3, <3>3 DEF q
      <4>2. CASE a <= n
        <5>1. a \in 1 .. n /\ Len(io.tx) + a \in 1 .. Len(r.tx)
          BY <1>2, <1>4, <4>2
        <5>2. r.tx[Len(io.tx) + a].m = x
          BY <1>4, <4>1, <5>1
        <5> QED
          BY <5>1, <5>2, ZenonT(20) DEF Somewhere, InTx
      <4>3. CASE a > n
        <5> DEFINE j == a - n
        <5>1. j \in 1 .. (Len(ready) - n) /\ n + j = a
          BY <1>2, <1>4, <4>3
        <5> HIDE DEF j
        <5>2. j \in 1 .. Len(r.pending[ip]) /\ r.pending[ip][j].m = x
          BY <1>4, <4>1, <5>1
        <5> QED
          BY <5>2, ZenonT(20) DEF Somewhere, IsHeld
      <4> QED
        BY <1>4, <4>2, <4>3
    <3> QED
      BY <1>4, <2>3, <3>1, <3>2, <3>3 DEF q
  <2> QED
    BY <1>17, <2>1, <2>2, <2>3, ZenonT(20) DEF Somewhere, InTx, IsHeld
<1> QED
  BY <1>15, <1>16, <1>17 DEF r

(* Of two packets that io holds for one next hop, r has the later one in   *)
(* the batch only if it does not hold the earlier one any more, and only   *)
(* behind it.                                                              *)
InBatch(r, x, e) == r.tx[x].m = e.m /\ r.tx[x].hdr = e.hdr

InOrder(io, r) ==
  \A p \in Ip : \A i, j \in 1 .. Len(io.pending[p]) : i < j =>
    \A b \in 1 .. Len(r.tx) : InBatch(r, b, io.pending[p][j]) =>
      /\ \A k \in 1 .. Len(r.pending[p]) : r.pending[p][k].m # io.pending[p][i].m
      /\ \A a \in 1 .. Len(r.tx) : InBatch(r, a, io.pending[p][i]) => a < b

(* flush_pending puts the packets of an address into the batch in order. *)
LEMMA FlushOrder ==
  ASSUME ReadyKeeps, NEW H, NEW io \in IoType(H), Tidy(io), NEW ip \in Ip, ip # NoIp
  PROVE  InOrder(io, FlushPending(io, ip))
<1> DEFINE r == FlushPending(io, ip)
           q == io.pending[ip]
           ready == Ready(q)
<1>1. PICK f, n : Flushed(io, r, ip, ready, f, n)
  BY FlushShape
<1>2. r \in IoType(H) /\ Len(ready) \in Nat /\ Len(io.tx) \in Nat
  BY FlushShape, IoFacts
<1>3. n \in Nat
  BY <1>1 DEF Flushed
<1> HIDE DEF r, ready
<1>4. /\ \A a \in 1 .. Len(ready) : f[a] \in 1 .. Len(q)
      /\ \A a, b \in 1 .. Len(ready) : f[a] < f[b] => a < b
      /\ \A i \in 1 .. Len(r.tx) :
           \/ i \in 1 .. Len(io.tx) /\ r.tx[i] = io.tx[i]
           \/ \E a \in 1 .. Len(ready) :
                a <= n /\ i = Len(io.tx) + a /\ r.tx[i].m = q[f[a]].m
      /\ \A i \in 1 .. Len(r.pending[ip]) :
           \E a \in 1 .. Len(ready) : a > n /\ r.pending[ip][i] = q[f[a]]
  <2>1. Origins(io, r, ip, ready, f, n)
    BY <1>1, <1>2, FlushOrigins
  <2> QED
    BY <2>1 DEF Origins
<1>5. ASSUME NEW p \in Ip, NEW j \in 1 .. Len(io.pending[p]), NEW b \in 1 .. Len(r.tx),
             InBatch(r, b, io.pending[p][j])
      PROVE  /\ p = ip
             /\ \E a \in 1 .. Len(ready) : a <= n /\ b = Len(io.tx) + a /\ f[a] = j
  <2>1. r.tx[b].m = io.pending[p][j].m
    BY <1>5 DEF InBatch
  <2>2. ~(b \in 1 .. Len(io.tx) /\ r.tx[b] = io.tx[b])
    BY <2>1 DEF Tidy
  <2>3. PICK a \in 1 .. Len(ready) :
          a <= n /\ b = Len(io.tx) + a /\ r.tx[b].m = q[f[a]].m
    BY <1>4, <2>2
  <2>4. f[a] \in 1 .. Len(io.pending[ip]) /\ io.pending[ip][f[a]].m = io.pending[p][j].m
    BY <1>4, <2>1, <2>3
  <2>5. p = ip /\ f[a] = j
    BY <2>4 DEF Tidy
  <2> QED
    BY <2>3, <2>5
<1>6. ASSUME NEW p \in Ip, NEW i \in 1 .. Len(io.pending[p]),
             NEW j \in 1 .. Len(io.pending[p]), i < j,
             NEW b \in 1 .. Len(r.tx), InBatch(r, b, io.pending[p][j])
      PROVE  /\ \A k \in 1 .. Len(r.pending[p]) : r.pending[p][k].m # io.pending[p][i].m
             /\ \A a \in 1 .. Len(r.tx) : InBatch(r, a, io.pending[p][i]) => a < b
  <2>1. PICK c \in 1 .. Len(ready) : c <= n /\ b = Len(io.tx) + c /\ f[c] = j /\ p = ip
    BY <1>5, <1>6, ZenonT(20)
  <2>2. ASSUME NEW k \in 1 .. Len(r.pending[p]), r.pending[p][k].m = io.pending[p][i].m
        PROVE  FALSE
    <3>1. PICK a \in 1 .. Len(ready) : a > n /\ r.pending[ip][k] = q[f[a]]
      BY <1>4, <2>1, <2>2
    <3>2. f[a] \in 1 .. Len(q) /\ q[f[a]].m = q[i].m
      BY <1>4, <2>1, <2>2, <3>1
    <3>3. f[a] = i
      BY <2>1, <3>2 DEF Tidy
    <3>4. a < c
      BY <1>4, <1>6, <2>1, <3>3
    <3> QED
      BY <1>3, <2>1, <3>1, <3>4
  <2>3. ASSUME NEW a \in 1 .. Len(r.tx), InBatch(r, a, io.pending[p][i])
        PROVE  a < b
    <3>1. PICK d \in 1 .. Len(ready) : a = Len(io.tx) + d /\ f[d] = i
      BY <1>5, <2>3
    <3>2. d < c
      BY <1>4, <1>6, <2>1, <3>1
    <3> QED
      BY <1>2, <2>1, <3>1, <3>2
  <2> QED
    BY <2>2, <2>3
<1>7. InOrder(io, r)
  BY <1>6, ZenonT(20) DEF InOrder
<1> QED
  BY <1>7 DEF r

(* What the helpers preserve together. *)
Sound(io, H, G, S) ==
  io \in IoType(H) /\ Bounded(io) /\ Tidy(io) /\ Carries(io, G, S)

Probe == [dir |-> "arp"]

(* The packets of S are no probes, and may be transmitted while they are   *)
(* not held too long.                                                      *)
Fit(G, S) ==
  \A e \in S : e.hdr # Probe /\ (e.age < PendingTimeout => e.hdr \in G)

(* A flush transmits what may be transmitted. *)
LEMMA FlushCarries ==
  ASSUME ReadyKeeps, NEW H, NEW io \in IoType(H), NEW ip \in Ip, ip # NoIp,
         NEW G, NEW S, Fit(G, S), Bounded(io), Carries(io, G, S)
  PROVE  Bounded(FlushPending(io, ip)) /\ Carries(FlushPending(io, ip), G, S)
<1> DEFINE r == FlushPending(io, ip)
           q == io.pending[ip]
           ready == Ready(q)
<1>1. PICK f, n : Flushed(io, r, ip, ready, f, n)
  BY FlushShape
<1>2. /\ r \in IoType(H) /\ Len(ready) \in Nat /\ Len(ready) <= Len(q)
      /\ Len(q) \in Nat /\ PendingMax \in Nat
  BY FlushShape, IoFacts, PendingFacts
<1> HIDE DEF r, ready
<1>3. /\ \A a \in 1 .. Len(ready) : f[a] \in 1 .. Len(q) /\ q[f[a]].age < PendingTimeout
      /\ \A p \in Ip : p # ip => r.pending[p] = io.pending[p]
      /\ n \in 0 .. Len(ready) /\ Len(r.pending[ip]) = Len(ready) - n
  BY <1>1, ZenonT(20) DEF Flushed, Keeps
<1>4. /\ \A i \in 1 .. Len(r.tx) :
           \/ i \in 1 .. Len(io.tx) /\ r.tx[i] = io.tx[i]
           \/ \E a \in 1 .. Len(ready) : r.tx[i].hdr = q[f[a]].hdr
      /\ \A i \in 1 .. Len(r.pending[ip]) :
           \E a \in 1 .. Len(ready) : r.pending[ip][i] = q[f[a]]
  <2>1. Origins(io, r, ip, ready, f, n)
    BY <1>1, <1>2, FlushOrigins
  <2> QED
    BY <2>1 DEF Origins
<1>5. \A a \in 1 .. Len(ready) : q[f[a]] \in S /\ q[f[a]].hdr \in G
  <2>1. \A i \in 1 .. Len(q) : q[i] \in S
    BY DEF Carries
  <2>2. \A a \in 1 .. Len(ready) : q[f[a]] \in S /\ q[f[a]].age < PendingTimeout
    BY <1>3, <2>1, ZenonT(20)
  <2> QED
    BY <2>2, ZenonT(20) DEF Fit
<1>6. ASSUME NEW i \in 1 .. Len(r.tx)
      PROVE  r.tx[i].hdr \in G
  <2>1. CASE i \in 1 .. Len(io.tx) /\ r.tx[i] = io.tx[i]
    BY <2>1, ZenonT(20) DEF Carries
  <2> QED
    BY <1>4, <1>5, <2>1, ZenonT(20)
<1>7. ASSUME NEW p \in Ip, NEW i \in 1 .. Len(r.pending[p])
      PROVE  r.pending[p][i] \in S
  <2>1. CASE p = ip
    BY <1>4, <1>5, <2>1, ZenonT(20)
  <2>2. CASE p # ip
    BY <1>3, <2>2, ZenonT(20) DEF Carries
  <2> QED
    BY <2>1, <2>2
<1>8. Len(r.pending[ip]) <= Len(q)
  BY <1>2, <1>3
<1>9. Bounded(r)
  BY <1>2, <1>3, <1>8 DEF Bounded
<1> QED
  BY <1>6, <1>7, <1>9 DEF Carries, r

(* flush_pending, for any address. *)
LEMMA FlushSound ==
  ASSUME ReadyKeeps, NEW H, NEW G, NEW S, Fit(G, S), NEW io, Sound(io, H, G, S), NEW ip \in Ip
  PROVE  /\ Sound(FlushPending(io, ip), H, G, S)
         /\ \A x : Somewhere(FlushPending(io, ip), x) <=> Somewhere(io, x)
         /\ InOrder(io, FlushPending(io, ip))
<1>1. io \in IoType(H) /\ Bounded(io) /\ Tidy(io) /\ Carries(io, G, S)
  BY DEF Sound
<1>2. CASE ip = NoIp
  <2>1. FlushPending(io, ip) = io
    BY <1>2 DEF FlushPending
  <2>2. \A p \in Ip : \A j \in 1 .. Len(io.pending[p]), b \in 1 .. Len(io.tx) :
          ~InBatch(io, b, io.pending[p][j])
    BY <1>1 DEF Tidy, InBatch
  <2> QED
    BY <2>1, <2>2 DEF InOrder
<1>3. CASE ip # NoIp
  BY <1>1, <1>3, FlushShape, FlushMoves, FlushOrder, FlushCarries DEF Sound
<1> QED
  BY <1>2, <1>3

-----------------------------------------------------------------------------
(* Transmitting or holding the packet at hand *)

(* From io to r, packets are added with mbuf m, and probes. *)
Adds(io, r, m) ==
  /\ \A i \in 1 .. Len(r.tx) :
       \/ i \in 1 .. Len(io.tx) /\ r.tx[i] = io.tx[i]
       \/ r.tx[i].m = m
       \/ r.tx[i].hdr = Probe
  /\ \A p \in Ip : \A i \in 1 .. Len(r.pending[p]) :
       \/ r.pending[p][i].m = m
       \/ \E j \in 1 .. Len(io.pending[p]) : r.pending[p][i] = io.pending[p][j]

(* Neither overtakes a packet that was held before. *)
LEMMA AddsInOrder ==
  ASSUME NEW io, NEW r, NEW s, NEW m, InOrder(io, r), Adds(r, s, m),
         \A p \in Ip : \A i \in 1 .. Len(io.pending[p]) :
           io.pending[p][i].m # m /\ io.pending[p][i].hdr # Probe
  PROVE  InOrder(io, s)
<1>1. ASSUME NEW p \in Ip, NEW i \in 1 .. Len(io.pending[p]),
             NEW b \in 1 .. Len(s.tx), InBatch(s, b, io.pending[p][i])
      PROVE  b \in 1 .. Len(r.tx) /\ InBatch(r, b, io.pending[p][i])
  <2>1. b \in 1 .. Len(r.tx) /\ s.tx[b] = r.tx[b]
    BY <1>1 DEF Adds, InBatch
  <2> QED
    BY <1>1, <2>1 DEF InBatch
<1>2. ASSUME NEW p \in Ip, NEW i \in 1 .. Len(io.pending[p]),
             NEW j \in 1 .. Len(io.pending[p]), i < j,
             NEW b \in 1 .. Len(s.tx), InBatch(s, b, io.pending[p][j])
      PROVE  /\ \A k \in 1 .. Len(s.pending[p]) : s.pending[p][k].m # io.pending[p][i].m
             /\ \A a \in 1 .. Len(s.tx) : InBatch(s, a, io.pending[p][i]) => a < b
  <2>1. /\ b \in 1 .. Len(r.tx)
        /\ \A k \in 1 .. Len(r.pending[p]) : r.pending[p][k].m # io.pending[p][i].m
        /\ \A a \in 1 .. Len(r.tx) : InBatch(r, a, io.pending[p][i]) => a < b
    BY <1>1, <1>2 DEF InOrder
  <2>2. \A a \in 1 .. Len(s.tx) : InBatch(s, a, io.pending[p][i]) => a < b
    BY <1>1, <2>1
  <2>3. \A k \in 1 .. Len(s.pending[p]) : s.pending[p][k].m # io.pending[p][i].m
    BY <2>1, ZenonT(20) DEF Adds
  <2> QED
    BY <2>2, <2>3
<1> QED
  BY <1>2, ZenonT(20) DEF InOrder

(* Two calls on behalf of one packet add what one call may add. *)
LEMMA AddsTransitive ==
  ASSUME NEW io, NEW r, NEW s, NEW m, Adds(io, r, m), Adds(r, s, m)
  PROVE  Adds(io, s, m)
<1>1. \A i \in 1 .. Len(s.tx) :
        \/ i \in 1 .. Len(io.tx) /\ s.tx[i] = io.tx[i]
        \/ s.tx[i].m = m
        \/ s.tx[i].hdr = Probe
  BY DEF Adds
<1>2. ASSUME NEW p \in Ip, NEW i \in 1 .. Len(s.pending[p]), s.pending[p][i].m # m
      PROVE  \E j \in 1 .. Len(io.pending[p]) : s.pending[p][i] = io.pending[p][j]
  <2>1. PICK k \in 1 .. Len(r.pending[p]) : s.pending[p][i] = r.pending[p][k]
    BY <1>2 DEF Adds
  <2> QED
    BY <1>2, <2>1 DEF Adds
<1> QED
  BY <1>1, <1>2 DEF Adds

(* Appending a packet to the batch. *)
LEMMA TransmitSound ==
  ASSUME NEW H, NEW G, NEW S, NEW io, Sound(io, H, G, S),
         NEW m \in Mbuf, ~Somewhere(io, m), NEW hdr \in H, hdr \in G
  PROVE  /\ Sound(Transmit(io, m, hdr), H, G, S)
         /\ \A x : Somewhere(Transmit(io, m, hdr), x) <=> Somewhere(io, x) \/ x = m
         /\ Adds(io, Transmit(io, m, hdr), m)
<1> DEFINE e == [m |-> m, hdr |-> hdr]
           r == Transmit(io, m, hdr)
           t == Len(io.tx)
<1>1. io \in IoType(H) /\ Bounded(io) /\ Tidy(io) /\ Carries(io, G, S)
  BY DEF Sound
<1>2. io.tx \in Seq(Sent(H)) /\ t \in Nat
  BY <1>1, IoFacts
<1>3. e \in Sent(H) /\ e.m = m /\ e.hdr = hdr
  BY DEF Sent
<1>4. r = [io EXCEPT !.tx = Append(@, e)]
  BY DEF Transmit
<1> HIDE DEF e, r
<1>5. /\ r.tx = Append(io.tx, e) /\ r.pending = io.pending /\ r.outside = io.outside
      /\ r.probed = io.probed
      /\ r = [tx |-> r.tx, pending |-> r.pending, probed |-> r.probed, outside |-> r.outside]
  BY <1>1, <1>4, ZenonT(20) DEF IoType
<1>6. /\ r.tx \in Seq(Sent(H)) /\ Len(r.tx) = t + 1
      /\ \A i \in 1 .. t : r.tx[i] = io.tx[i]
      /\ r.tx[t + 1] = e
  BY <1>2, <1>3, <1>5, AppendProperties
<1>7. /\ \A i \in 1 .. Len(r.tx) : (i \in 1 .. t /\ r.tx[i] = io.tx[i]) \/ (i = t + 1 /\ r.tx[i] = e)
      /\ \A i \in 1 .. t : i \in 1 .. Len(r.tx)
      /\ t + 1 \in 1 .. Len(r.tx)
  <2>1. \A i \in 1 .. (t + 1) : i \in 1 .. t \/ i = t + 1
    BY <1>2
  <2>2. \A i \in 1 .. t : i \in 1 .. (t + 1)
    BY <1>2
  <2>3. t + 1 \in 1 .. (t + 1)
    BY <1>2
  <2> QED
    BY <1>6, <2>1, <2>2, <2>3
<1>8. r \in IoType(H)
  <2>1. /\ io.pending \in [Ip -> Seq(Waiting(H))] /\ io.outside \in SUBSET Mbuf
        /\ io.probed \in [Ip -> (0 .. ProbeInterval) \cup {nullptr}]
    BY <1>1, IoFacts
  <2> QED
    BY <1>5, <1>6, <2>1, ZenonT(20) DEF IoType
<1>9. /\ m \notin io.outside
      /\ \A i \in 1 .. t : io.tx[i].m # m
      /\ \A a \in Ip : \A i \in 1 .. Len(io.pending[a]) : io.pending[a][i].m # m
  BY DEF Somewhere, InTx, IsHeld
<1> HIDE DEF t
<1>10. Tidy(r)
  <2>1. \A i, j \in 1 .. Len(r.tx) : r.tx[i].m = r.tx[j].m => i = j
    BY <1>1, <1>3, <1>7, <1>9 DEF Tidy, t
  <2>2. \A i \in 1 .. Len(r.tx) : r.tx[i].m \notin r.outside
    BY <1>1, <1>3, <1>5, <1>7, <1>9 DEF Tidy, t
  <2>3. ASSUME NEW a \in Ip, NEW i \in 1 .. Len(r.pending[a])
        PROVE  /\ r.pending[a][i].m \notin r.outside
               /\ \A j \in 1 .. Len(r.tx) : r.tx[j].m # r.pending[a][i].m
    BY <1>1, <1>3, <1>5, <1>7, <1>9 DEF Tidy, t
  <2>4. \A a, b \in Ip : \A i \in 1 .. Len(r.pending[a]), j \in 1 .. Len(r.pending[b]) :
          r.pending[a][i].m = r.pending[b][j].m => a = b /\ i = j
    BY <1>1, <1>5 DEF Tidy
  <2> QED
    BY <2>1, <2>2, <2>3, <2>4 DEF Tidy
<1>11. Bounded(r) /\ Carries(r, G, S)
  BY <1>1, <1>3, <1>5, <1>7 DEF Bounded, Carries, t
<1>12. \A x : InTx(r, x) <=> InTx(io, x) \/ x = m
  BY <1>3, <1>6, <1>7 DEF InTx, t
<1>13. \A x : Somewhere(r, x) <=> Somewhere(io, x) \/ x = m
  <2>1. \A x : IsHeld(r, x) <=> IsHeld(io, x)
    BY <1>5 DEF IsHeld
  <2> QED
    BY <1>5, <1>12, <2>1 DEF Somewhere
<1>14. Adds(io, r, m)
  BY <1>3, <1>5, <1>7 DEF Adds, t
<1> QED
  BY <1>8, <1>10, <1>11, <1>13, <1>14 DEF Sound, r

(* Freeing the packet at hand. *)
LEMMA FreeSound ==
  ASSUME NEW H, NEW G, NEW S, NEW io, Sound(io, H, G, S),
         NEW m \in Mbuf, ~Somewhere(io, m), NEW r, r = [io EXCEPT !.outside = @ \cup {m}]
  PROVE  /\ Sound(r, H, G, S)
         /\ \A x : Somewhere(r, x) <=> Somewhere(io, x) \/ x = m
         /\ Adds(io, r, m)
<1>1. io \in IoType(H) /\ Bounded(io) /\ Tidy(io) /\ Carries(io, G, S)
  BY DEF Sound
<1>2. /\ r.tx = io.tx /\ r.pending = io.pending /\ r.outside = io.outside \cup {m}
      /\ r \in IoType(H)
  BY <1>1, ZenonT(20) DEF IoType
<1>3. /\ \A i \in 1 .. Len(io.tx) : io.tx[i].m # m
      /\ \A a \in Ip : \A i \in 1 .. Len(io.pending[a]) : io.pending[a][i].m # m
  BY DEF Somewhere, InTx, IsHeld
<1>4. Tidy(r)
  BY <1>1, <1>2, <1>3 DEF Tidy
<1>5. Bounded(r) /\ Carries(r, G, S)
  BY <1>1, <1>2 DEF Bounded, Carries
<1>6. \A x : Somewhere(r, x) <=> Somewhere(io, x) \/ x = m
  BY <1>2 DEF Somewhere, InTx, IsHeld
<1>7. Adds(io, r, m)
  BY <1>2 DEF Adds
<1> QED
  BY <1>2, <1>4, <1>5, <1>6, <1>7 DEF Sound

(* Appending it to a queue that has room. *)
LEMMA HoldSound ==
  ASSUME NEW H, NEW G, NEW S, NEW io, Sound(io, H, G, S), NEW ip \in Ip,
         NEW m \in Mbuf, ~Somewhere(io, m), NEW hdr \in H,
         [m |-> m, hdr |-> hdr, age |-> 0] \in S,
         Len(io.pending[ip]) < PendingMax, NEW r,
         r = [io EXCEPT !.pending[ip] = Append(@, [m |-> m, hdr |-> hdr, age |-> 0])]
  PROVE  /\ Sound(r, H, G, S)
         /\ \A x : Somewhere(r, x) <=> Somewhere(io, x) \/ x = m
         /\ Adds(io, r, m)
<1> DEFINE e == [m |-> m, hdr |-> hdr, age |-> 0]
           q == io.pending[ip]
           t == Len(q)
<1>1. io \in IoType(H) /\ Bounded(io) /\ Tidy(io) /\ Carries(io, G, S)
  BY DEF Sound
<1>2. /\ q \in Seq(Waiting(H)) /\ t \in Nat
      /\ io.pending \in [Ip -> Seq(Waiting(H))] /\ io.outside \in SUBSET Mbuf
      /\ io.probed \in [Ip -> (0 .. ProbeInterval) \cup {nullptr}]
      /\ io.tx \in Seq(Sent(H))
  BY <1>1, IoFacts
<1>3. e \in Waiting(H) /\ e.m = m /\ e \in S
  BY PendingFacts DEF Waiting
<1>4. r = [io EXCEPT !.pending[ip] = Append(@, e)]
  OBVIOUS
<1> HIDE DEF e
<1>5. /\ r.tx = io.tx /\ r.outside = io.outside /\ r.probed = io.probed
      /\ r.pending = [io.pending EXCEPT ![ip] = Append(q, e)]
      /\ r = [tx |-> r.tx, pending |-> r.pending, probed |-> r.probed, outside |-> r.outside]
  BY <1>1, <1>4, ZenonT(20) DEF IoType
<1>6. /\ r.pending[ip] = Append(q, e)
      /\ \A p \in Ip : p # ip => r.pending[p] = io.pending[p]
  BY <1>2, <1>5
<1>7. /\ Append(q, e) \in Seq(Waiting(H)) /\ Len(Append(q, e)) = t + 1
      /\ \A i \in 1 .. t : Append(q, e)[i] = q[i]
      /\ Append(q, e)[t + 1] = e
  BY <1>2, <1>3, AppendProperties
<1>8. r \in IoType(H)
  <2>1. r.pending \in [Ip -> Seq(Waiting(H))]
    BY <1>2, <1>5, <1>7
  <2> QED
    BY <1>2, <1>5, <2>1, ZenonT(20) DEF IoType
<1>9. /\ \A i \in 1 .. Len(io.tx) : io.tx[i].m # m
      /\ \A a \in Ip : \A i \in 1 .. Len(io.pending[a]) : io.pending[a][i].m # m
      /\ m \notin io.outside
  BY DEF Somewhere, InTx, IsHeld
<1>10. ASSUME NEW p \in Ip, NEW i \in 1 .. Len(r.pending[p])
       PROVE  \/ i \in 1 .. Len(io.pending[p]) /\ r.pending[p][i] = io.pending[p][i]
              \/ p = ip /\ i = Len(io.pending[ip]) + 1 /\ r.pending[p][i] = e
  <2>1. CASE p = ip
    <3>1. i \in 1 .. t \/ i = t + 1
      BY <1>2, <1>6, <1>7, <2>1
    <3> QED
      BY <1>6, <1>7, <2>1, <3>1
  <2>2. CASE p # ip
    BY <1>6, <2>2
  <2> QED
    BY <2>1, <2>2
<1>11. ASSUME NEW p \in Ip, NEW i \in 1 .. Len(io.pending[p])
       PROVE  i \in 1 .. Len(r.pending[p]) /\ r.pending[p][i] = io.pending[p][i]
  <2>1. CASE p = ip
    BY <1>2, <1>6, <1>7, <2>1
  <2>2. CASE p # ip
    BY <1>6, <2>2
  <2> QED
    BY <2>1, <2>2
<1>12. /\ Len(io.pending[ip]) + 1 \in 1 .. Len(r.pending[ip])
       /\ r.pending[ip][Len(io.pending[ip]) + 1].m = m
  BY <1>2, <1>3, <1>6, <1>7
<1>13. Bounded(r)
  <2>1. Len(r.pending[ip]) <= PendingMax
    BY <1>2, <1>6, <1>7, PendingFacts
  <2> QED
    BY <1>1, <1>6, <2>1 DEF Bounded
<1> HIDE DEF q, t
<1>14. Carries(r, G, S)
  BY <1>1, <1>3, <1>5, <1>10 DEF Carries
<1>15. Tidy(r)
  <2>1. ASSUME NEW a \in Ip, NEW b \in Ip, NEW i \in 1 .. Len(r.pending[a]),
               NEW j \in 1 .. Len(r.pending[b]), r.pending[a][i].m = r.pending[b][j].m
        PROVE  a = b /\ i = j
    BY <1>1, <1>3, <1>9, <1>10, <2>1 DEF Tidy
  <2>2. ASSUME NEW a \in Ip, NEW i \in 1 .. Len(r.pending[a])
        PROVE  /\ r.pending[a][i].m \notin r.outside
               /\ \A j \in 1 .. Len(r.tx) : r.tx[j].m # r.pending[a][i].m
    BY <1>1, <1>3, <1>5, <1>9, <1>10 DEF Tidy
  <2>3. /\ \A i, j \in 1 .. Len(r.tx) : r.tx[i].m = r.tx[j].m => i = j
        /\ \A i \in 1 .. Len(r.tx) : r.tx[i].m \notin r.outside
    BY <1>1, <1>5 DEF Tidy
  <2> QED
    BY <2>1, <2>2, <2>3, ZenonT(20) DEF Tidy
<1>16. \A x : IsHeld(r, x) <=> IsHeld(io, x) \/ x = m
  <2>1. ASSUME NEW x, IsHeld(r, x)
        PROVE  IsHeld(io, x) \/ x = m
    BY <1>3, <1>10, <2>1 DEF IsHeld
  <2>2. ASSUME NEW x, IsHeld(io, x)
        PROVE  IsHeld(r, x)
    BY <1>11, <2>2 DEF IsHeld
  <2>3. IsHeld(r, m)
    BY <1>12 DEF IsHeld
  <2> QED
    BY <2>1, <2>2, <2>3, ZenonT(20)
<1>17. \A x : Somewhere(r, x) <=> Somewhere(io, x) \/ x = m
  BY <1>5, <1>16, ZenonT(20) DEF Somewhere, InTx
<1>18. Adds(io, r, m)
  BY <1>3, <1>5, <1>10 DEF Adds
<1> QED
  BY <1>8, <1>13, <1>14, <1>15, <1>17, <1>18, ZenonT(20) DEF Sound

(* enqueue_pending: unless the address is 0.0.0.0 the packet at hand is    *)
(* held or freed.                                                          *)
LEMMA EnqueueSound ==
  ASSUME NEW H, NEW G, NEW S, NEW io, Sound(io, H, G, S), NEW ip \in Ip,
         NEW m \in Mbuf, ~Somewhere(io, m), NEW hdr \in H,
         [m |-> m, hdr |-> hdr, age |-> 0] \in S
  PROVE  /\ Sound(EnqueuePending(io, ip, m, hdr), H, G, S)
         /\ \A x : Somewhere(EnqueuePending(io, ip, m, hdr), x) <=>
                     Somewhere(io, x) \/ (ip # NoIp /\ x = m)
         /\ Adds(io, EnqueuePending(io, ip, m, hdr), m)
<1> DEFINE r == EnqueuePending(io, ip, m, hdr)
<1>1. CASE ip = NoIp
  <2>1. r = io
    BY <1>1 DEF EnqueuePending
  <2>2. Adds(io, io, m)
    BY DEF Adds
  <2> QED
    BY <1>1, <2>1, <2>2
<1>2. CASE ip # NoIp /\ Len(io.pending[ip]) >= PendingMax
  <2>1. r = [io EXCEPT !.outside = @ \cup {m}]
    BY <1>2 DEF EnqueuePending
  <2> HIDE DEF r
  <2>2. /\ Sound(r, H, G, S) /\ Adds(io, r, m)
        /\ \A x : Somewhere(r, x) <=> Somewhere(io, x) \/ x = m
    BY <2>1, FreeSound
  <2> QED
    BY <1>2, <2>2, ZenonT(20) DEF r
<1>3. CASE ip # NoIp /\ ~(Len(io.pending[ip]) >= PendingMax)
  <2>1. r = [io EXCEPT !.pending[ip] = Append(@, [m |-> m, hdr |-> hdr, age |-> 0])]
    BY <1>3 DEF EnqueuePending
  <2>2. Len(io.pending[ip]) < PendingMax
    BY <1>3, IoFacts, PendingFacts DEF Sound
  <2> HIDE DEF r
  <2>3. /\ Sound(r, H, G, S) /\ Adds(io, r, m)
        /\ \A x : Somewhere(r, x) <=> Somewhere(io, x) \/ x = m
    BY <2>1, <2>2, HoldSound
  <2> QED
    BY <1>3, <2>3, ZenonT(20) DEF r
<1> QED
  BY <1>1, <1>2, <1>3, ZenonT(20)

(* maybe_probe_arp takes at most one mbuf from the pool and transmits it.  *)
LEMMA ProbeSound ==
  ASSUME NEW H, NEW G, NEW S, NEW io, Sound(io, H, G, S), NEW ip \in Ip,
         Probe \in H, Probe \in G, NEW r \in MaybeProbeArp(io, ip), NEW m
  PROVE  /\ Sound(r, H, G, S)
         /\ \A x : Somewhere(r, x) <=> Somewhere(io, x)
         /\ Adds(io, r, m)
<1>1. CASE r = io
  <2>1. Adds(io, io, m)
    BY DEF Adds
  <2> QED
    BY <1>1, <2>1
<1>2. ASSUME NEW b \in io.outside,
             r = [Transmit(io, b, Probe) EXCEPT !.outside = @ \ {b}, !.probed[ip] = 0]
      PROVE  /\ Sound(r, H, G, S)
             /\ \A x : Somewhere(r, x) <=> Somewhere(io, x)
             /\ Adds(io, r, m)
  <2> DEFINE j == [io EXCEPT !.outside = @ \ {b}]
             s == Transmit(j, b, Probe)
  <2>1. io \in IoType(H) /\ Bounded(io) /\ Tidy(io) /\ Carries(io, G, S)
    BY DEF Sound
  <2>2. /\ j.tx = io.tx /\ j.pending = io.pending /\ j.outside = io.outside \ {b}
        /\ j.probed = io.probed /\ j \in IoType(H)
    BY <2>1, ZenonT(20) DEF IoType
  <2>3. /\ r.tx = Append(io.tx, [m |-> b, hdr |-> Probe])
        /\ r.pending = io.pending /\ r.outside = io.outside \ {b}
        /\ r.probed = [io.probed EXCEPT ![ip] = 0]
        /\ r = [tx |-> r.tx, pending |-> r.pending, probed |-> r.probed, outside |-> r.outside]
    BY <1>2, <2>1, ZenonT(20) DEF IoType, Transmit
  <2>4. s.tx = r.tx /\ s.pending = r.pending /\ s.outside = r.outside
    BY <2>2, <2>3 DEF Transmit, IoType
  <2>5. b \in Mbuf /\ ~Somewhere(j, b)
    <3>1. b \in Mbuf
      BY <2>1, IoFacts
    <3>2. ~InTx(j, b) /\ ~IsHeld(j, b)
      BY <2>1, <2>2 DEF Tidy, InTx, IsHeld
    <3> QED
      BY <2>2, <3>1, <3>2 DEF Somewhere
  <2>6. Sound(j, H, G, S)
    <3>1. Tidy(j)
      BY <2>1, <2>2 DEF Tidy
    <3>2. Bounded(j) /\ Carries(j, G, S)
      BY <2>1, <2>2 DEF Bounded, Carries
    <3> QED
      BY <2>2, <3>1, <3>2 DEF Sound
  <2> HIDE DEF j
  <2>7. /\ Sound(s, H, G, S)
        /\ \A x : Somewhere(s, x) <=> Somewhere(j, x) \/ x = b
        /\ Adds(j, s, b)
    BY <2>5, <2>6, TransmitSound
  <2> HIDE DEF s
  <2>8. r \in IoType(H)
    <3>1. s \in IoType(H)
      BY <2>7 DEF Sound
    <3>2. r.tx \in Seq(Sent(H)) /\ r.pending \in [Ip -> Seq(Waiting(H))] /\ r.outside \in SUBSET Mbuf
      BY <2>4, <3>1, IoFacts
    <3>3. r.probed \in [Ip -> (0 .. ProbeInterval) \cup {nullptr}]
      <4>1. io.probed \in [Ip -> (0 .. ProbeInterval) \cup {nullptr}]
        BY <2>1, IoFacts
      <4> QED
        BY <2>3, <4>1, PendingFacts
    <3> QED
      BY <2>3, <3>2, <3>3, ZenonT(20) DEF IoType
  <2>9. Sound(r, H, G, S)
    BY <2>4, <2>7, <2>8 DEF Sound, Bounded, Tidy, Carries
  <2>10. \A x : Somewhere(r, x) <=> Somewhere(io, x)
    <3>1. \A x : Somewhere(r, x) <=> Somewhere(s, x)
      BY <2>4 DEF Somewhere, InTx, IsHeld
    <3>2. \A x : Somewhere(io, x) <=> Somewhere(j, x) \/ x = b
      BY <2>2 DEF Somewhere, InTx, IsHeld
    <3> QED
      BY <2>7, <3>1, <3>2
  <2>11. Adds(io, r, m)
    <3>1. Len(io.tx) \in Nat /\ io.tx \in Seq(Sent(H)) /\ [m |-> b, hdr |-> Probe] \in Sent(H)
      BY <2>1, <2>5, IoFacts DEF Sent
    <3>2. /\ Len(r.tx) = Len(io.tx) + 1
          /\ \A i \in 1 .. Len(io.tx) : r.tx[i] = io.tx[i]
          /\ r.tx[Len(io.tx) + 1] = [m |-> b, hdr |-> Probe]
      BY <2>3, <3>1, AppendProperties
    <3>3. \A i \in 1 .. Len(r.tx) : i \in 1 .. Len(io.tx) \/ i = Len(io.tx) + 1
      BY <3>1, <3>2
    <3> QED
      BY <2>3, <3>2, <3>3 DEF Adds
  <2> QED
    BY <2>9, <2>10, <2>11
<1>3. r = io \/ \E b \in io.outside :
        r = [Transmit(io, b, Probe) EXCEPT !.outside = @ \ {b}, !.probed[ip] = 0]
  BY ZenonT(20) DEF MaybeProbeArp, MakeRequest, Probe
<1> QED
  BY <1>1, <1>2, <1>3, ZenonT(20)

(* The packet at hand is transmitted, held or freed, and no packet that    *)
(* was held is overtaken by what is added.                                 *)
LEMMA RouteSound ==
  ASSUME NEW H, NEW G, NEW S, NEW io, Sound(io, H, G, S), NEW hop \in Ip,
         Probe \in H, Probe \in G, NEW m \in Mbuf, ~Somewhere(io, m),
         NEW hdr \in H, hdr \in G, [m |-> m, hdr |-> hdr, age |-> 0] \in S,
         NEW r \in Route(io, hop, m, hdr)
  PROVE  /\ Sound(r, H, G, S)
         /\ \A x : Somewhere(r, x) => Somewhere(io, x) \/ x = m
         /\ \A x : Somewhere(io, x) => Somewhere(r, x)
         /\ hop # NoIp => Somewhere(r, m)
         /\ Adds(io, r, m)
<1>1. CASE NextHopMac(hop)
  <2>1. r = Transmit(io, m, hdr)
    BY <1>1 DEF Route
  <2> QED
    BY <2>1, TransmitSound
<1>2. CASE ~NextHopMac(hop)
  <2> DEFINE e == EnqueuePending(io, hop, m, hdr)
  <2>1. r \in MaybeProbeArp(e, hop)
    BY <1>2 DEF Route
  <2>2. /\ Sound(e, H, G, S)
        /\ \A x : Somewhere(e, x) <=> Somewhere(io, x) \/ (hop # NoIp /\ x = m)
        /\ Adds(io, e, m)
    BY EnqueueSound
  <2> HIDE DEF e
  <2>3. /\ Sound(r, H, G, S)
        /\ \A x : Somewhere(r, x) <=> Somewhere(e, x)
        /\ Adds(e, r, m)
    BY <2>1, <2>2, ProbeSound
  <2>4. Adds(io, r, m)
    BY <2>2, <2>3, AddsTransitive
  <2> QED
    BY <2>2, <2>3, <2>4, ZenonT(20)
<1> QED
  BY <1>1, <1>2

(* What run does with a packet that the forwarder translated: a flush of   *)
(* the queue of src, then the packet itself.                               *)
LEMMA FlushRouteSound ==
  ASSUME ReadyKeeps, NEW H, NEW G, NEW S, Fit(G, S), NEW io, Sound(io, H, G, S),
         NEW src \in Ip, NEW hop \in Ip, Probe \in H, Probe \in G,
         NEW m \in Mbuf, ~Somewhere(io, m), NEW hdr \in H, hdr \in G,
         [m |-> m, hdr |-> hdr, age |-> 0] \in S,
         NEW r \in Route(FlushPending(io, src), hop, m, hdr)
  PROVE  /\ Sound(r, H, G, S)
         /\ \A x : Somewhere(r, x) => Somewhere(io, x) \/ x = m
         /\ \A x : Somewhere(io, x) => Somewhere(r, x)
         /\ hop # NoIp => Somewhere(r, m)
         /\ InOrder(io, r)
<1> DEFINE s == FlushPending(io, src)
<1>1. /\ Sound(s, H, G, S)
      /\ \A x : Somewhere(s, x) <=> Somewhere(io, x)
      /\ InOrder(io, s)
  BY FlushSound
<1>2. r \in Route(s, hop, m, hdr)
  OBVIOUS
<1> HIDE DEF s
<1>3. ~Somewhere(s, m)
  BY <1>1
<1>4. /\ Sound(r, H, G, S)
      /\ \A x : Somewhere(r, x) => Somewhere(s, x) \/ x = m
      /\ \A x : Somewhere(s, x) => Somewhere(r, x)
      /\ hop # NoIp => Somewhere(r, m)
      /\ Adds(s, r, m)
  BY <1>1, <1>2, <1>3, RouteSound
<1>5. \A p \in Ip : \A i \in 1 .. Len(io.pending[p]) :
        io.pending[p][i].m # m /\ io.pending[p][i].hdr # Probe
  BY DEF Sound, Carries, Fit, Somewhere, IsHeld
<1>6. InOrder(io, r)
  BY <1>1, <1>4, <1>5, AddsInOrder
<1> QED
  BY <1>1, <1>4, <1>6, ZenonT(20)

-----------------------------------------------------------------------------
(* Time *)

(* expire_pending frees what was held too long and keeps the order of the  *)
(* rest.                                                                   *)
LEMMA ExpirePendingSound ==
  ASSUME ReadyKeeps, NEW H, NEW G, NEW S, NEW io, Sound(io, H, G, S)
  PROVE  /\ Sound(ExpirePending(io), H, G, S)
         /\ \A x : Somewhere(ExpirePending(io), x) <=> Somewhere(io, x)
<1> DEFINE r == ExpirePending(io)
           late == UNION {TimedOut(io.pending[ip]) : ip \in Ip}
<1>1. io \in IoType(H) /\ Bounded(io) /\ Tidy(io) /\ Carries(io, G, S)
  BY DEF Sound
<1>2. /\ r.tx = io.tx /\ r.probed = io.probed
      /\ r.pending = [ip \in Ip |-> Ready(io.pending[ip])]
      /\ r.outside = io.outside \cup late
      /\ r = [tx |-> r.tx, pending |-> r.pending, probed |-> r.probed, outside |-> r.outside]
  <2> DEFINE left == [ip \in Ip |-> Ready(io.pending[ip])]
  <2>1. r = [io EXCEPT !.pending = left, !.outside = @ \cup late]
    BY DEF ExpirePending
  <2> HIDE DEF left, late, r
  <2>2. /\ r.tx = io.tx /\ r.probed = io.probed /\ r.pending = left
        /\ r.outside = io.outside \cup late
        /\ r = [tx |-> r.tx, pending |-> r.pending, probed |-> r.probed, outside |-> r.outside]
    BY <1>1, <2>1, ZenonT(20) DEF IoType
  <2> QED
    BY <2>2 DEF left
<1>3. /\ io.tx \in Seq(Sent(H)) /\ io.outside \in SUBSET Mbuf
      /\ io.probed \in [Ip -> (0 .. ProbeInterval) \cup {nullptr}]
      /\ \A p \in Ip : /\ io.pending[p] \in Seq(Waiting(H)) /\ Len(io.pending[p]) \in Nat
                       /\ \A i \in 1 .. Len(io.pending[p]) : io.pending[p][i] \in Waiting(H)
  BY <1>1, IoFacts
<1>4. ASSUME NEW p \in Ip
      PROVE  /\ r.pending[p] = Ready(io.pending[p])
             /\ r.pending[p] \in Seq(Waiting(H))
             /\ Len(r.pending[p]) \in Nat /\ Len(r.pending[p]) <= Len(io.pending[p])
             /\ \E f : Keeps(r.pending[p], io.pending[p], f)
  <2>1. r.pending[p] = Ready(io.pending[p])
    BY <1>2
  <2> HIDE DEF r
  <2> QED
    BY <1>3, <2>1 DEF ReadyKeeps
<1>5. \A x : x \in late <=> \E p \in Ip : \E i \in Expired(io.pending[p]) : io.pending[p][i].m = x
  BY DEF TimedOut
<1> HIDE DEF r, late
<1>6. r \in IoType(H)
  <2>1. r.pending \in [Ip -> Seq(Waiting(H))]
    BY <1>2, <1>4
  <2>2. late \in SUBSET Mbuf
    <3>1. \A p \in Ip : \A i \in Expired(io.pending[p]) : io.pending[p][i].m \in Mbuf
      BY <1>3 DEF Expired, Waiting
    <3> QED
      BY <1>5, <3>1
  <2> QED
    BY <1>2, <1>3, <2>1, <2>2 DEF IoType
<1>7. Bounded(r)
  <2>1. \A p \in Ip : Len(io.pending[p]) <= PendingMax
    BY <1>1 DEF Bounded
  <2>2. \A p \in Ip : Len(r.pending[p]) <= PendingMax
    BY <1>3, <1>4, <2>1, PendingFacts
  <2> QED
    BY <2>2 DEF Bounded
<1> DEFINE From(p, i, g) ==
             r.pending[p][i] = io.pending[p][g] /\ g \notin Expired(io.pending[p])
<1>8. ASSUME NEW p \in Ip
      PROVE  \E f \in [1 .. Len(r.pending[p]) -> 1 .. Len(io.pending[p])] :
               /\ \A i \in 1 .. Len(r.pending[p]) : From(p, i, f[i])
               /\ \A i, j \in 1 .. Len(r.pending[p]) : f[i] = f[j] => i = j
               /\ \A g \in 1 .. Len(io.pending[p]) :
                    g \in Expired(io.pending[p]) \/ \E i \in 1 .. Len(r.pending[p]) : f[i] = g
  <2> DEFINE n == Len(r.pending[p])
             k == Len(io.pending[p])
  <2>1. PICK f : Keeps(r.pending[p], io.pending[p], f)
    BY <1>4
  <2>2. /\ f \in [1 .. n -> 1 .. k]
        /\ \A a, b \in 1 .. n : a < b => f[a] < f[b]
        /\ \A a \in 1 .. n : /\ r.pending[p][a] = io.pending[p][f[a]]
                             /\ io.pending[p][f[a]].age < PendingTimeout
        /\ \A i \in 1 .. k : i \in Expired(io.pending[p]) \/ \E a \in 1 .. n : f[a] = i
    BY <2>1 DEF Keeps
  <2>3. n \in Nat /\ k \in Nat /\ PendingTimeout \in Nat
    BY <1>3, <1>4, PendingFacts
  <2>4. \A a \in 1 .. n : f[a] \in 1 .. k /\ f[a] \in Nat /\ io.pending[p][f[a]].age \in Nat
    <3>1. \A a \in 1 .. n : f[a] \in 1 .. k /\ f[a] \in Nat
      BY <2>2, <2>3
    <3> QED
      BY <1>3, <3>1 DEF Waiting
  <2>5. ASSUME NEW a \in 1 .. n, NEW b \in 1 .. n, f[a] = f[b]
        PROVE  a = b
    <3>1. a < b \/ a = b \/ b < a
      BY <2>3
    <3> QED
      BY <2>2, <2>4, <2>5, <3>1
  <2>6. \A a \in 1 .. n : f[a] \notin Expired(io.pending[p])
    BY <2>2, <2>3, <2>4 DEF Expired
  <2> QED
    BY <2>2, <2>5, <2>6
<1>9. ASSUME NEW p \in Ip, NEW i \in 1 .. Len(r.pending[p])
      PROVE  \E g \in 1 .. Len(io.pending[p]) : From(p, i, g)
  <2>1. PICK f \in [1 .. Len(r.pending[p]) -> 1 .. Len(io.pending[p])] :
          \A k \in 1 .. Len(r.pending[p]) : From(p, k, f[k])
    BY <1>8
  <2> HIDE DEF From
  <2> QED
    BY <2>1
<1>10. ASSUME NEW p \in Ip, NEW i \in 1 .. Len(r.pending[p]),
              NEW s \in Ip, NEW j \in 1 .. Len(r.pending[s]),
              r.pending[p][i].m = r.pending[s][j].m
       PROVE  p = s /\ i = j
  <2>1. PICK g \in 1 .. Len(io.pending[p]) : From(p, i, g)
    BY <1>9
  <2>2. PICK h \in 1 .. Len(io.pending[s]) : From(s, j, h)
    BY <1>9
  <2>3. p = s
    BY <1>1, <1>10, <2>1, <2>2 DEF Tidy
  <2>4. PICK f \in [1 .. Len(r.pending[p]) -> 1 .. Len(io.pending[p])] :
          /\ \A k \in 1 .. Len(r.pending[p]) : From(p, k, f[k])
          /\ \A k, l \in 1 .. Len(r.pending[p]) : f[k] = f[l] => k = l
    <3> HIDE DEF From
    <3> QED
      BY <1>8
  <2>5. f[i] \in 1 .. Len(io.pending[p]) /\ f[j] \in 1 .. Len(io.pending[p])
    BY <2>3, <2>4, ZenonT(20)
  <2>6. io.pending[p][f[i]].m = io.pending[p][f[j]].m
    BY <1>10, <2>3, <2>4, ZenonT(20)
  <2>7. f[i] = f[j]
    BY <1>1, <2>5, <2>6, HeldOnce
  <2> HIDE DEF From
  <2>8. j \in 1 .. Len(r.pending[p])
    BY <2>3
  <2> QED
    BY <2>3, <2>4, <2>7, <2>8, ZenonT(20)
<1>11. ASSUME NEW p \in Ip, NEW i \in 1 .. Len(r.pending[p])
       PROVE  /\ r.pending[p][i].m \notin r.outside
              /\ \A j \in 1 .. Len(r.tx) : r.tx[j].m # r.pending[p][i].m
  <2>1. PICK g \in 1 .. Len(io.pending[p]) : From(p, i, g)
    BY <1>9
  <2>2. r.pending[p][i].m \notin late
    <3>1. \A s \in Ip : \A k \in Expired(io.pending[s]) : k \in 1 .. Len(io.pending[s])
      BY DEF Expired
    <3>2. ASSUME NEW s \in Ip, NEW k \in Expired(io.pending[s]),
                 io.pending[s][k].m = r.pending[p][i].m
          PROVE  FALSE
      <4>1. s = p /\ k = g
        <5>1. k \in 1 .. Len(io.pending[s]) /\ io.pending[s][k].m = io.pending[p][g].m
          BY <2>1, <3>1, <3>2
        <5> QED
          BY <1>1, <5>1 DEF Tidy
      <4> QED
        BY <2>1, <3>2, <4>1
    <3> QED
      BY <1>5, <3>2
  <2> QED
    BY <1>1, <1>2, <2>1, <2>2 DEF Tidy
<1>12. ASSUME NEW i \in 1 .. Len(r.tx)
       PROVE  r.tx[i].m \notin r.outside
  <2>1. \A s \in Ip : \A k \in Expired(io.pending[s]) : io.pending[s][k].m # io.tx[i].m
    BY <1>1, <1>2 DEF Tidy, Expired
  <2> QED
    BY <1>1, <1>2, <1>5, <2>1 DEF Tidy
<1>13. Tidy(r)
  BY <1>1, <1>2, <1>10, <1>11, <1>12 DEF Tidy
<1>14. Carries(r, G, S)
  BY <1>1, <1>2, <1>9 DEF Carries
<1>15. ASSUME NEW x, Somewhere(r, x)
       PROVE  Somewhere(io, x)
  <2>1. CASE x \in r.outside
    <3>1. CASE x \in late
      BY <1>5, <3>1 DEF Somewhere, IsHeld, Expired
    <3> QED
      BY <1>2, <2>1, <3>1 DEF Somewhere
  <2>2. CASE InTx(r, x)
    BY <1>2, <2>2 DEF Somewhere, InTx
  <2>3. CASE IsHeld(r, x)
    BY <1>9, <2>3 DEF Somewhere, IsHeld
  <2> QED
    BY <1>15, <2>1, <2>2, <2>3 DEF Somewhere
<1>16. ASSUME NEW x, Somewhere(io, x)
       PROVE  Somewhere(r, x)
  <2>1. CASE x \in io.outside \/ InTx(io, x)
    BY <1>2, <2>1 DEF Somewhere, InTx
  <2>2. ASSUME NEW p \in Ip, NEW g \in 1 .. Len(io.pending[p]), io.pending[p][g].m = x
        PROVE  Somewhere(r, x)
    <3>1. CASE g \in Expired(io.pending[p])
      BY <1>2, <1>5, <2>2, <3>1 DEF Somewhere
    <3>2. ASSUME g \notin Expired(io.pending[p])
          PROVE  Somewhere(r, x)
      <4>1. PICK f \in [1 .. Len(r.pending[p]) -> 1 .. Len(io.pending[p])] :
              /\ \A k \in 1 .. Len(r.pending[p]) : From(p, k, f[k])
              /\ \E i \in 1 .. Len(r.pending[p]) : f[i] = g
        <5> HIDE DEF From
        <5> QED
          BY <1>8, <3>2
      <4>2. PICK i \in 1 .. Len(r.pending[p]) : f[i] = g
        BY <4>1
      <4>3. r.pending[p][i].m = x
        BY <2>2, <4>1, <4>2
      <4> QED
        BY <4>3 DEF Somewhere, IsHeld
    <3> QED
      BY <3>1, <3>2
  <2> QED
    BY <1>16, <2>1, <2>2 DEF Somewhere, IsHeld
<1> QED
  BY <1>6, <1>7, <1>13, <1>14, <1>15, <1>16 DEF Sound, r

(* The packets of S are in T when they have waited for d. *)
Ages(S, T, d) ==
  \A e \in S : [e EXCEPT !.age = Later(e.age, d, PendingTimeout)] \in T

(* Waiting changes only ages: what is held stays held, in its place. *)
LEMMA WaitSound ==
  ASSUME NEW H, NEW G, NEW S, NEW io, Sound(io, H, G, S), io.tx = <<>>,
         NEW d \in Nat, NEW G2, NEW S2, Ages(S, S2, d)
  PROVE  /\ Sound(Waited(io, d), H, G2, S2)
         /\ \A x : Somewhere(Waited(io, d), x) <=> Somewhere(io, x)
         /\ Waited(io, d).tx = <<>>
<1> DEFINE r == Waited(io, d)
           older(e) == [e EXCEPT !.age = Later(e.age, d, PendingTimeout)]
           held == [ip \in Ip |-> [i \in 1 .. Len(io.pending[ip]) |-> older(io.pending[ip][i])]]
           past == [ip \in Ip |-> IF io.probed[ip] = nullptr THEN nullptr
                                  ELSE Later(io.probed[ip], d, ProbeInterval)]
<1>1. io \in IoType(H) /\ Bounded(io) /\ Tidy(io) /\ Carries(io, G, S)
  BY DEF Sound
<1>2. r = [io EXCEPT !.pending = held, !.probed = past]
  BY DEF Waited
<1>3. ASSUME NEW p \in Ip
      PROVE  held[p] = [i \in 1 .. Len(io.pending[p]) |-> older(io.pending[p][i])]
  OBVIOUS
<1>4. \A e \in Waiting(H) :
        /\ older(e) \in Waiting(H) /\ older(e).m = e.m
        /\ e \in S => older(e) \in S2
  <2>1. ASSUME NEW t \in 0 .. PendingTimeout
        PROVE  Later(t, d, PendingTimeout) \in 0 .. PendingTimeout
    BY PendingFacts DEF Later, Min2
  <2>2. ASSUME NEW e \in Waiting(H)
        PROVE  older(e) \in Waiting(H) /\ older(e).m = e.m
    <3> DEFINE a == Later(e.age, d, PendingTimeout)
    <3>1. a \in 0 .. PendingTimeout
      BY <2>1 DEF Waiting
    <3> HIDE DEF a
    <3>2. [e EXCEPT !.age = a] \in Waiting(H) /\ [e EXCEPT !.age = a].m = e.m
      BY <3>1 DEF Waiting
    <3> QED
      BY <3>2 DEF a
  <2> QED
    BY <2>2 DEF Ages
<1>5. past \in [Ip -> (0 .. ProbeInterval) \cup {nullptr}]
  <2>1. io.probed \in [Ip -> (0 .. ProbeInterval) \cup {nullptr}]
    BY <1>1, IoFacts, ZenonT(20)
  <2>2. \A t \in 0 .. ProbeInterval : Later(t, d, ProbeInterval) \in 0 .. ProbeInterval
    BY PendingFacts DEF Later, Min2
  <2> QED
    BY <2>1, <2>2
<1>6. DOMAIN held = Ip
  OBVIOUS
<1>7. held = [ip \in Ip |-> held[ip]]
  OBVIOUS
<1> HIDE DEF r, older, held, past
<1>8. /\ r.tx = io.tx /\ r.pending = held /\ r.probed = past /\ r.outside = io.outside
      /\ r = [tx |-> r.tx, pending |-> r.pending, probed |-> r.probed, outside |-> r.outside]
  BY <1>1, <1>2, ZenonT(20) DEF IoType
<1>9. /\ io.tx \in Seq(Sent(H)) /\ io.outside \in SUBSET Mbuf
      /\ \A p \in Ip : /\ io.pending[p] \in Seq(Waiting(H)) /\ Len(io.pending[p]) \in Nat
                       /\ \A i \in 1 .. Len(io.pending[p]) : io.pending[p][i] \in Waiting(H)
  BY <1>1, IoFacts
<1>10. ASSUME NEW p \in Ip
       PROVE  /\ r.pending[p] \in Seq(Waiting(H))
              /\ Len(r.pending[p]) = Len(io.pending[p])
              /\ \A i \in 1 .. Len(io.pending[p]) :
                   /\ r.pending[p][i] = older(io.pending[p][i])
                   /\ r.pending[p][i].m = io.pending[p][i].m
  <2> DEFINE n == Len(io.pending[p])
  <2>1. r.pending[p] = [i \in 1 .. n |-> older(io.pending[p][i])] /\ n \in Nat
    BY <1>3, <1>8, <1>9, ZenonT(20)
  <2>2. \A i \in 1 .. n : older(io.pending[p][i]) \in Waiting(H)
    BY <1>4, <1>9
  <2>3. r.pending[p] \in [1 .. n -> Waiting(H)]
    BY <2>1, <2>2
  <2>4. r.pending[p] \in Seq(Waiting(H))
    BY <2>1, <2>3, SeqDef
  <2>5. Len(r.pending[p]) = n
    BY <2>1, <2>3, <2>4, LenProperties
  <2>6. \A i \in 1 .. n : r.pending[p][i] = older(io.pending[p][i])
    BY <2>1
  <2> QED
    BY <1>4, <1>9, <2>4, <2>5, <2>6
<1>11. r \in IoType(H)
  <2>1. r.pending \in [Ip -> Seq(Waiting(H))]
    BY <1>7, <1>8, <1>10
  <2> QED
    BY <1>5, <1>8, <1>9, <2>1, ZenonT(20) DEF IoType
<1>12. Bounded(r)
  BY <1>1, <1>10 DEF Bounded
<1>13. Tidy(r)
  <2>1. ASSUME NEW a \in Ip, NEW b \in Ip, NEW i \in 1 .. Len(r.pending[a]),
               NEW j \in 1 .. Len(r.pending[b]), r.pending[a][i].m = r.pending[b][j].m
        PROVE  a = b /\ i = j
    <3>1. /\ i \in 1 .. Len(io.pending[a]) /\ j \in 1 .. Len(io.pending[b])
          /\ io.pending[a][i].m = io.pending[b][j].m
      BY <1>10, <2>1
    <3> QED
      BY <1>1, <3>1, HeldOnce
  <2>2. ASSUME NEW a \in Ip, NEW i \in 1 .. Len(r.pending[a])
        PROVE  /\ r.pending[a][i].m \notin r.outside
               /\ \A j \in 1 .. Len(r.tx) : r.tx[j].m # r.pending[a][i].m
    <3>1. i \in 1 .. Len(io.pending[a]) /\ r.pending[a][i].m = io.pending[a][i].m
      BY <1>10
    <3> QED
      BY <1>1, <1>8, <3>1 DEF Tidy
  <2> QED
    BY <1>1, <1>8, <2>1, <2>2 DEF Tidy
<1>14. Carries(r, G2, S2)
  <2>1. \A i \in 1 .. Len(r.tx) : FALSE
    BY <1>8
  <2>2. \A a \in Ip : \A i \in 1 .. Len(r.pending[a]) : r.pending[a][i] \in S2
    BY <1>1, <1>4, <1>9, <1>10 DEF Carries
  <2> QED
    BY <2>1, <2>2 DEF Carries
<1>15. \A x : Somewhere(r, x) <=> Somewhere(io, x)
  <2>1. \A x : InTx(r, x) <=> InTx(io, x)
    BY <1>8 DEF InTx
  <2>2. \A x : IsHeld(r, x) <=> IsHeld(io, x)
    <3>1. ASSUME NEW x, IsHeld(r, x)
          PROVE  IsHeld(io, x)
      BY <1>10, <3>1 DEF IsHeld
    <3>2. ASSUME NEW x, IsHeld(io, x)
          PROVE  IsHeld(r, x)
      BY <1>10, <3>2 DEF IsHeld
    <3> QED
      BY <3>1, <3>2
  <2> QED
    BY <1>8, <2>1, <2>2 DEF Somewhere
<1> QED
  BY <1>8, <1>11, <1>12, <1>13, <1>14, <1>15 DEF Sound, r

-----------------------------------------------------------------------------
(* The packets received and those to be freed *)

(* q, the packets still to be handled, and D, those to be freed, are in no *)
(* other place.                                                            *)
Apart(q, D, io) ==
  /\ q \in Seq(Mbuf) /\ D \in SUBSET Mbuf
  /\ \A i, j \in 1 .. Len(q) : q[i] = q[j] => i = j
  /\ \A i \in 1 .. Len(q) : q[i] \notin D /\ ~Somewhere(io, q[i])
  /\ \A x \in D : ~Somewhere(io, x)

(* Every mbuf is somewhere. *)
Among(q, x) == \E i \in 1 .. Len(q) : q[i] = x
Complete(q, D, io) == \A x \in Mbuf : Among(q, x) \/ x \in D \/ Somewhere(io, x)

(* Packets that move between the batch, the queues and outside do not      *)
(* change that.                                                            *)
LEMMA SamePlacesApart ==
  ASSUME NEW q, NEW D, NEW io, NEW r, \A x : Somewhere(r, x) <=> Somewhere(io, x),
         Apart(q, D, io)
  PROVE  Apart(q, D, r) /\ (Complete(q, D, io) => Complete(q, D, r))
BY DEF Apart, Complete

(* The first packet of q is taken from it. *)
LEMMA HeadFacts ==
  ASSUME NEW D, NEW io, NEW q, Apart(q, D, io), q # <<>>
  PROVE  /\ Head(q) \in Mbuf /\ ~Somewhere(io, Head(q)) /\ Head(q) \notin D
         /\ Tail(q) \in Seq(Mbuf)
         /\ \A i \in 1 .. Len(Tail(q)) :
              i + 1 \in 1 .. Len(q) /\ Tail(q)[i] = q[i + 1] /\ Tail(q)[i] # Head(q)
         /\ \A i, j \in 1 .. Len(Tail(q)) : Tail(q)[i] = Tail(q)[j] => i = j
         /\ \A x : Among(q, x) <=> Among(Tail(q), x) \/ x = Head(q)
<1>1. /\ q \in Seq(Mbuf) /\ \A i, j \in 1 .. Len(q) : q[i] = q[j] => i = j
      /\ \A i \in 1 .. Len(q) : q[i] \notin D /\ ~Somewhere(io, q[i])
  BY DEF Apart
<1>2. Len(q) \in Nat /\ \A i \in 1 .. Len(q) : q[i] \in Mbuf
  BY <1>1, LenProperties, ElementOfSeq
<1>3. Len(q) > 0
  BY <1>1, EmptySeq
<1>4. /\ Tail(q) \in Seq(Mbuf) /\ Len(Tail(q)) = Len(q) - 1
      /\ \A i \in 1 .. Len(Tail(q)) : Tail(q)[i] = q[i + 1]
      /\ Head(q) = q[1]
  BY <1>1, HeadTailProperties
<1>5. 1 \in 1 .. Len(q)
  BY <1>2, <1>3
<1>6. ASSUME NEW i \in 1 .. Len(Tail(q))
      PROVE  i \in Nat /\ i + 1 \in 1 .. Len(q) /\ i + 1 # 1
  BY <1>2, <1>4
<1> DEFINE t == Tail(q)
           h == Head(q)
<1>7. t \in Seq(Mbuf) /\ h = q[1] /\ \A i \in 1 .. Len(t) : t[i] = q[i + 1]
  BY <1>4
<1>8. Len(t) = Len(q) - 1 /\ \A i \in 1 .. Len(t) : i \in Nat /\ i + 1 \in 1 .. Len(q) /\ i + 1 # 1
  BY <1>4, <1>6
<1> HIDE DEF t, h
<1>9. \A i, j \in 1 .. Len(t) : t[i] = t[j] => i = j
  BY <1>1, <1>7, <1>8
<1>10. \A i \in 1 .. Len(t) : t[i] # h
  BY <1>1, <1>5, <1>7, <1>8
<1>11. ASSUME NEW x, Among(q, x), x # h
       PROVE  Among(t, x)
  <2>1. PICK i \in 1 .. Len(q) : q[i] = x
    BY <1>11 DEF Among
  <2>2. i # 1
    BY <1>7, <1>11, <2>1
  <2>3. i - 1 \in 1 .. Len(t) /\ (i - 1) + 1 = i
    BY <1>2, <1>8, <2>2
  <2>4. t[i - 1] = x
    BY <1>7, <2>1, <2>3
  <2> QED
    BY <2>3, <2>4 DEF Among
<1>12. ASSUME NEW x, Among(t, x) \/ x = h
       PROVE  Among(q, x)
  BY <1>5, <1>7, <1>8, <1>12 DEF Among
<1>13. h \in Mbuf /\ ~Somewhere(io, h) /\ h \notin D
  BY <1>1, <1>2, <1>5, <1>7
<1> QED
  BY <1>7, <1>8, <1>9, <1>10, <1>11, <1>12, <1>13 DEF t, h

(* The packet handled is to be freed. *)
LEMMA DropApart ==
  ASSUME NEW D, NEW io, NEW q, Apart(q, D, io), q # <<>>, NEW r,
         \A x : Somewhere(r, x) <=> Somewhere(io, x)
  PROVE  /\ Apart(Tail(q), D \cup {Head(q)}, r)
         /\ Complete(q, D, io) => Complete(Tail(q), D \cup {Head(q)}, r)
<1> DEFINE t == Tail(q)
           h == Head(q)
<1>1. /\ h \in Mbuf /\ ~Somewhere(io, h) /\ h \notin D
      /\ t \in Seq(Mbuf)
      /\ \A i \in 1 .. Len(t) : i + 1 \in 1 .. Len(q) /\ t[i] = q[i + 1] /\ t[i] # h
      /\ \A i, j \in 1 .. Len(t) : t[i] = t[j] => i = j
      /\ \A x : Among(q, x) <=> Among(t, x) \/ x = h
  BY HeadFacts
<1> HIDE DEF t, h
<1>2. D \in SUBSET Mbuf /\ \A i \in 1 .. Len(q) : q[i] \notin D /\ ~Somewhere(io, q[i])
  BY DEF Apart
<1>3. \A i \in 1 .. Len(t) : t[i] \notin D /\ ~Somewhere(r, t[i])
  BY <1>1, <1>2
<1>4. \A x \in D \cup {h} : ~Somewhere(r, x)
  BY <1>1 DEF Apart
<1>5. Apart(t, D \cup {h}, r)
  BY <1>1, <1>2, <1>3, <1>4 DEF Apart
<1>6. ASSUME Complete(q, D, io)
      PROVE  Complete(t, D \cup {h}, r)
  BY <1>1, <1>6 DEF Complete
<1> QED
  BY <1>5, <1>6 DEF t, h

(* The packet handled is in the batch or in a queue, or is freed. *)
LEMMA MoveApart ==
  ASSUME NEW D, NEW io, NEW q, Apart(q, D, io), q # <<>>, NEW r,
         \A x : Somewhere(r, x) => Somewhere(io, x) \/ x = Head(q),
         \A x : Somewhere(io, x) => Somewhere(r, x)
  PROVE  /\ Apart(Tail(q), D, r)
         /\ Complete(q, D, io) /\ Somewhere(r, Head(q)) => Complete(Tail(q), D, r)
<1> DEFINE t == Tail(q)
           h == Head(q)
<1>1. /\ h \in Mbuf /\ h \notin D
      /\ t \in Seq(Mbuf)
      /\ \A i \in 1 .. Len(t) : i + 1 \in 1 .. Len(q) /\ t[i] = q[i + 1] /\ t[i] # h
      /\ \A i, j \in 1 .. Len(t) : t[i] = t[j] => i = j
      /\ \A x : Among(q, x) <=> Among(t, x) \/ x = h
  BY HeadFacts
<1>2. \A x : Somewhere(r, x) => Somewhere(io, x) \/ x = h
  OBVIOUS
<1> HIDE DEF t, h
<1>3. D \in SUBSET Mbuf /\ \A i \in 1 .. Len(q) : q[i] \notin D /\ ~Somewhere(io, q[i])
  BY DEF Apart
<1>4. \A i \in 1 .. Len(t) : t[i] \notin D /\ ~Somewhere(r, t[i])
  BY <1>1, <1>2, <1>3
<1>5. \A x \in D : ~Somewhere(r, x)
  BY <1>1, <1>2 DEF Apart
<1>6. Apart(t, D, r)
  BY <1>1, <1>3, <1>4, <1>5 DEF Apart
<1>7. ASSUME Complete(q, D, io), Somewhere(r, h)
      PROVE  Complete(t, D, r)
  BY <1>1, <1>7 DEF Complete
<1> QED
  BY <1>6, <1>7 DEF t, h

(* recv_burst takes the packets of q from the pool. *)
LEMMA RecvApart ==
  ASSUME NEW H, NEW G, NEW S, NEW io, Sound(io, H, G, S), NEW q \in Seq(Mbuf),
         \A i \in 1 .. Len(q) : q[i] \in io.outside,
         \A i, j \in 1 .. Len(q) : q[i] = q[j] => i = j, NEW r,
         r = [io EXCEPT !.outside = @ \ {q[i] : i \in 1 .. Len(q)}]
  PROVE  /\ Sound(r, H, G, S)
         /\ Apart(q, {}, r)
         /\ Complete(<<>>, {}, io) => Complete(q, {}, r)
<1>1. io \in IoType(H) /\ Bounded(io) /\ Tidy(io) /\ Carries(io, G, S)
  BY DEF Sound
<1> DEFINE Q == {q[i] : i \in 1 .. Len(q)}
<1>2. \A x : x \in Q <=> Among(q, x)
  BY DEF Among
<1>3. r = [io EXCEPT !.outside = @ \ Q]
  OBVIOUS
<1> HIDE DEF Q
<1>4. /\ r.tx = io.tx /\ r.pending = io.pending /\ r.outside = io.outside \ Q
      /\ r \in IoType(H)
  BY <1>1, <1>3 DEF IoType
<1>5. Sound(r, H, G, S)
  <2>1. Tidy(r)
    BY <1>1, <1>4 DEF Tidy
  <2>2. Bounded(r) /\ Carries(r, G, S)
    BY <1>1, <1>4 DEF Bounded, Carries
  <2> QED
    BY <1>4, <2>1, <2>2 DEF Sound
<1>6. \A i \in 1 .. Len(q) : q[i] \in Q
  BY <1>2 DEF Among
<1>7. \A i \in 1 .. Len(q) : ~Somewhere(r, q[i])
  <2>1. ASSUME NEW i \in 1 .. Len(q)
        PROVE  ~InTx(r, q[i]) /\ ~IsHeld(r, q[i])
    BY <1>1, <1>4 DEF Tidy, InTx, IsHeld
  <2> QED
    BY <1>4, <1>6, <2>1 DEF Somewhere
<1>8. Apart(q, {}, r)
  BY <1>7 DEF Apart
<1>9. ASSUME Complete(<<>>, {}, io)
      PROVE  Complete(q, {}, r)
  <2>1. \A x \in Mbuf : Somewhere(io, x)
    BY <1>9 DEF Complete, Among
  <2>2. \A x : Somewhere(io, x) => Somewhere(r, x) \/ x \in Q
    BY <1>4 DEF Somewhere, InTx, IsHeld
  <2> QED
    BY <1>2, <2>1, <2>2 DEF Complete
<1> QED
  BY <1>5, <1>8, <1>9

(* The batch and the mbufs of D are handed back. *)
HandedBack(io, D) == [io EXCEPT !.tx = <<>>, !.outside = @ \cup Mbufs(io.tx) \cup D]

(* The batch goes to send_burst, and the dropped packets are freed. *)
LEMMA SendApart ==
  ASSUME NEW H, NEW G, NEW S, NEW io, Sound(io, H, G, S), NEW D, Apart(<<>>, D, io)
  PROVE  /\ Sound(HandedBack(io, D), H, G, S)
         /\ Apart(<<>>, {}, HandedBack(io, D))
         /\ Complete(<<>>, D, io) => Complete(<<>>, {}, HandedBack(io, D))
<1> DEFINE r == HandedBack(io, D)
<1>1. io \in IoType(H) /\ Bounded(io) /\ Tidy(io) /\ Carries(io, G, S)
  BY DEF Sound
<1> DEFINE B == Mbufs(io.tx)
<1>2. \A x : x \in B <=> InTx(io, x)
  BY DEF Mbufs, InTx
<1>3. r = [io EXCEPT !.tx = <<>>, !.outside = @ \cup B \cup D]
  BY DEF HandedBack
<1> HIDE DEF B, r
<1>4. /\ D \in SUBSET Mbuf
      /\ \A i \in 1 .. Len(io.tx) : io.tx[i].m \in Mbuf
  BY <1>1, IoFacts, ZenonT(20) DEF Apart, Sent
<1>5. B \in SUBSET Mbuf
  BY <1>2, <1>4 DEF InTx
<1>6. /\ r.tx = <<>> /\ r.pending = io.pending /\ r.outside = io.outside \cup B \cup D
      /\ r.probed = io.probed
      /\ r = [tx |-> r.tx, pending |-> r.pending, probed |-> r.probed, outside |-> r.outside]
  BY <1>1, <1>3, ZenonT(20) DEF IoType
<1>7. r \in IoType(H)
  <2>1. /\ io.pending \in [Ip -> Seq(Waiting(H))] /\ io.outside \in SUBSET Mbuf
        /\ io.probed \in [Ip -> (0 .. ProbeInterval) \cup {nullptr}]
    BY <1>1, IoFacts
  <2>2. <<>> \in Seq(Sent(H)) /\ r.outside \in SUBSET Mbuf
    BY <1>4, <1>5, <1>6, <2>1
  <2> QED
    BY <1>6, <2>1, <2>2, ZenonT(20) DEF IoType
<1>8. \A i \in 1 .. Len(r.tx) : FALSE
  BY <1>6
<1>9. \A p \in Ip : \A i \in 1 .. Len(r.pending[p]) : r.pending[p][i].m \notin r.outside
  <2>1. ASSUME NEW p \in Ip, NEW i \in 1 .. Len(io.pending[p])
        PROVE  /\ io.pending[p][i].m \notin io.outside
               /\ ~InTx(io, io.pending[p][i].m)
               /\ io.pending[p][i].m \notin D
    <3>1. IsHeld(io, io.pending[p][i].m)
      BY DEF IsHeld
    <3>2. io.pending[p][i].m \notin D
      BY <3>1 DEF Apart, Somewhere
    <3> QED
      BY <1>1, <3>2 DEF Tidy, InTx
  <2> QED
    BY <1>2, <1>6, <2>1
<1>10. Tidy(r)
  BY <1>1, <1>6, <1>8, <1>9 DEF Tidy
<1>11. Bounded(r) /\ Carries(r, G, S)
  BY <1>1, <1>6, <1>8 DEF Bounded, Carries
<1>12. Apart(<<>>, {}, r)
  BY DEF Apart
<1>13. ASSUME Complete(<<>>, D, io)
       PROVE  Complete(<<>>, {}, r)
  <2>1. \A x \in Mbuf : x \in D \/ Somewhere(io, x)
    BY <1>13 DEF Complete, Among
  <2>2. \A x : x \in D \/ Somewhere(io, x) => Somewhere(r, x)
    BY <1>2, <1>6 DEF Somewhere, IsHeld
  <2> QED
    BY <2>1, <2>2 DEF Complete
<1> QED
  BY <1>7, <1>10, <1>11, <1>12, <1>13 DEF Sound, r

(* The places of an mbuf in q, the batch and the queues. *)
Places(q, t, queues, x) ==
  {<<"rx", i>> : i \in {j \in 1 .. Len(q) : q[j] = x}}
    \cup {<<"tx", i>> : i \in {j \in 1 .. Len(t) : t[j].m = x}}
    \cup UNION {{<<ip, i>> : i \in {j \in 1 .. Len(queues[ip]) :
                                     queues[ip][j].m = x}} : ip \in Ip}

(* An mbuf with places P is in at most one of P, D and O. *)
AtMostOnce(P, D, O, x) ==
  \/ P = {} /\ (x \notin D \/ x \notin O)
  \/ \E a : P = {a} /\ x \notin D /\ x \notin O

Nowhere(P, D, O, x) == P = {} /\ x \notin D /\ x \notin O

(* An mbuf is in one place at most, and in one if none is lost. *)
LEMMA OnePlace ==
  ASSUME NEW q, NEW D, NEW io, Tidy(io), Apart(q, D, io), NEW x \in Mbuf
  PROVE  /\ AtMostOnce(Places(q, io.tx, io.pending, x), D, io.outside, x)
         /\ Nowhere(Places(q, io.tx, io.pending, x), D, io.outside, x)
              => ~Complete(q, D, io)
<1> DEFINE P == Places(q, io.tx, io.pending, x)
<1>1. \A a : a \in P <=>
        \/ \E i \in 1 .. Len(q) : q[i] = x /\ a = <<"rx", i>>
        \/ \E i \in 1 .. Len(io.tx) : io.tx[i].m = x /\ a = <<"tx", i>>
        \/ \E p \in Ip : \E i \in 1 .. Len(io.pending[p]) :
             io.pending[p][i].m = x /\ a = <<p, i>>
  BY DEF Places
<1>2. (\E a : a \in P) <=> Among(q, x) \/ InTx(io, x) \/ IsHeld(io, x)
  BY <1>1, ZenonT(20) DEF Among, InTx, IsHeld
<1>3. /\ Among(q, x) => ~Somewhere(io, x) /\ x \notin D
      /\ x \in D => ~Somewhere(io, x)
      /\ \A i, j \in 1 .. Len(q) : q[i] = q[j] => i = j
  BY DEF Apart, Among
<1>4. /\ x \in io.outside => ~InTx(io, x) /\ ~IsHeld(io, x)
      /\ InTx(io, x) => ~IsHeld(io, x)
  BY DEF Tidy, InTx, IsHeld
<1>5. ASSUME NEW a \in P, NEW b \in P
      PROVE  a = b
  <2>1. CASE Among(q, x)
    <3>1. ~InTx(io, x) /\ ~IsHeld(io, x)
      BY <1>3, <2>1 DEF Somewhere
    <3>2. /\ \E i \in 1 .. Len(q) : q[i] = x /\ a = <<"rx", i>>
          /\ \E i \in 1 .. Len(q) : q[i] = x /\ b = <<"rx", i>>
      BY <1>1, <3>1 DEF InTx, IsHeld
    <3> QED
      BY <1>3, <3>2
  <2>2. CASE InTx(io, x)
    <3>1. ~Among(q, x) /\ ~IsHeld(io, x)
      BY <1>3, <1>4, <2>2 DEF Somewhere
    <3>2. /\ \E i \in 1 .. Len(io.tx) : io.tx[i].m = x /\ a = <<"tx", i>>
          /\ \E i \in 1 .. Len(io.tx) : io.tx[i].m = x /\ b = <<"tx", i>>
      BY <1>1, <3>1 DEF Among, IsHeld
    <3> QED
      BY <3>2 DEF Tidy
  <2>3. CASE IsHeld(io, x)
    <3>1. ~Among(q, x) /\ ~InTx(io, x)
      BY <1>3, <1>4, <2>3 DEF Somewhere
    <3>2. PICK p \in Ip : \E i \in 1 .. Len(io.pending[p]) :
            io.pending[p][i].m = x /\ a = <<p, i>>
      BY <1>1, <3>1 DEF Among, InTx
    <3>3. PICK s \in Ip : \E i \in 1 .. Len(io.pending[s]) :
            io.pending[s][i].m = x /\ b = <<s, i>>
      BY <1>1, <3>1 DEF Among, InTx
    <3> QED
      BY <3>2, <3>3 DEF Tidy
  <2> QED
    BY <1>2, <2>1, <2>2, <2>3
<1> HIDE DEF P
<1>6. CASE P = {}
  <2>1. ~(x \in D /\ x \in io.outside)
    BY <1>3 DEF Somewhere
  <2>2. x \notin D /\ x \notin io.outside => ~Complete(q, D, io)
    BY <1>2, <1>6 DEF Complete, Somewhere
  <2> QED
    BY <1>6, <2>1, <2>2, ZenonT(20) DEF AtMostOnce, Nowhere, P
<1>7. ASSUME NEW a \in P
      PROVE  P = {a} /\ x \notin D /\ x \notin io.outside
  <2>1. P = {a}
    BY <1>5
  <2>2. x \notin D /\ x \notin io.outside
    BY <1>2, <1>3, <1>4, <1>7 DEF Somewhere
  <2> QED
    BY <2>1, <2>2
<1>8. CASE P # {}
  <2>1. PICK a : a \in P
    BY <1>8
  <2>2. P = {a} /\ x \notin D /\ x \notin io.outside
    BY <1>7, <2>1
  <2> QED
    BY <1>8, <2>2, ZenonT(20) DEF AtMostOnce, Nowhere, P
<1> QED
  BY <1>6, <1>8

(* What may be sent and held may grow, and what may be sent may change     *)
(* while the batch is empty.                                               *)
LEMMA SoundGrows ==
  ASSUME NEW H, NEW G, NEW S, NEW io, Sound(io, H, G, S),
         NEW G2, NEW S2, S \subseteq S2, G \subseteq G2 \/ io.tx = <<>>
  PROVE  Sound(io, H, G2, S2)
<1>1. io \in IoType(H) /\ Bounded(io) /\ Tidy(io) /\ Carries(io, G, S)
  BY DEF Sound
<1>2. \A a \in Ip : \A i \in 1 .. Len(io.pending[a]) : io.pending[a][i] \in S2
  BY <1>1 DEF Carries
<1>3. CASE G \subseteq G2
  BY <1>1, <1>2, <1>3 DEF Carries, Sound
<1>4. CASE io.tx = <<>>
  <2>1. \A i \in 1 .. Len(io.tx) : io.tx[i].hdr \in G2
    BY <1>4
  <2> QED
    BY <1>1, <1>2, <2>1 DEF Carries, Sound
<1> QED
  BY <1>3, <1>4

(* A step that leaves the batch alone, or empties it, overtakes nothing.   *)
LEMMA SameBatchInOrder ==
  ASSUME NEW H, NEW G, NEW S, NEW io, Sound(io, H, G, S),
         NEW r, r.tx = io.tx \/ r.tx = <<>>
  PROVE  InOrder(io, r)
<1>1. \A a \in Ip : \A i \in 1 .. Len(io.pending[a]) :
        \A j \in 1 .. Len(io.tx) : io.tx[j].m # io.pending[a][i].m
  BY DEF Sound, Tidy
<1>2. CASE r.tx = io.tx
  BY <1>1, <1>2 DEF InOrder, InBatch
<1>3. CASE r.tx = <<>>
  <2>1. Len(r.tx) = 0
    BY <1>3
  <2>2. 1 .. Len(r.tx) = {}
    BY <2>1
  <2> QED
    BY <2>2 DEF InOrder
<1> QED
  BY <1>2, <1>3
(* The packets before the first one: all mbufs are outside. *)
LEMMA StartSound ==
  ASSUME NEW H, NEW G, NEW S, NEW io,
         io.tx = <<>>, io.pending = [ip \in Ip |-> <<>>], io.outside = Mbuf,
         io.probed = [ip \in Ip |-> nullptr],
         io = [tx |-> io.tx, pending |-> io.pending, probed |-> io.probed, outside |-> io.outside]
  PROVE  Sound(io, H, G, S) /\ Apart(<<>>, {}, io) /\ Complete(<<>>, {}, io)
<1>1. io \in IoType(H)
  <2>1. <<>> \in Seq(Sent(H)) /\ <<>> \in Seq(Waiting(H))
    OBVIOUS
  <2>2. /\ io.pending \in [Ip -> Seq(Waiting(H))]
        /\ io.probed \in [Ip -> (0 .. ProbeInterval) \cup {nullptr}]
        /\ io.outside \in SUBSET Mbuf /\ io.tx \in Seq(Sent(H))
    BY <2>1
  <2> QED
    BY <2>2, ZenonT(20) DEF IoType
<1>2. 1 .. Len(io.tx) = {} /\ \A p \in Ip : Len(io.pending[p]) = 0 /\ 1 .. Len(io.pending[p]) = {}
  OBVIOUS
<1>3. Bounded(io) /\ Tidy(io) /\ Carries(io, G, S)
  BY <1>2, PendingFacts DEF Bounded, Tidy, Carries
<1>4. Apart(<<>>, {}, io)
  BY DEF Apart
<1>5. Complete(<<>>, {}, io)
  BY DEF Complete, Somewhere
<1> QED
  BY <1>1, <1>3, <1>4, <1>5 DEF Sound

=============================================================================
