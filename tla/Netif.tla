-------------------------------- MODULE Netif --------------------------------
(***************************************************************************)
(* The netif of the worker's port (src/dpdk/netif.cpp, base/ring.hpp) and  *)
(* the worker's side of it (VioletGW::run).  In pipeline mode an RX and a  *)
(* TX loop on lcores of their own exchange mbufs with the worker over two  *)
(* rings; in run-to-completion mode the worker calls the driver itself.    *)
(*                                                                         *)
(*   NIC -> nic_recv -> rx_ring -> worker -> tx_ring -> nic_send -> NIC    *)
(*   NIC ------------------------> worker ------------------------> NIC    *)
(*                                                                         *)
(* Frames are numbered in the order in which they arrive, and again in the *)
(* order in which the worker puts them in its tx array.  The worker is     *)
(* seen from the netif: which packets it transmits, drops or holds, and    *)
(* when it probes, flushes or expires, is left open (module Gateway is the *)
(* worker from inside; module Startup ends in the initial states of this   *)
(* one).  A packet to a client with address 0.0.0.0, whose mbuf            *)
(* enqueue_pending loses, is left to Gateway.                              *)
(***************************************************************************)
EXTENDS Integers, Sequences

CONSTANTS
  RingSize,      \* ring_size
  RxBurst,       \* IO_RX_BURST, also the worker's kBurst
  TxBurst,       \* IO_TX_BURST
  PoolSize,      \* mbufs in the pool
  MaxFrames      \* bound of the model: frames that arrive

ASSUME NetifAssumption ==
  /\ {RxBurst, TxBurst, PoolSize, RingSize} \subseteq Nat \ {0}
  /\ MaxFrames \in Nat

VARIABLES
  mode_,             \* DatapathMode
  loops,             \* the loops that run on lcores of their own
  pool,              \* free mbufs
  arrived,           \* frames that have arrived
  rx_ring, tx_ring,
  rxl, txl,          \* mbufs in the hands of nic_recv and nic_send
  wpc, rx, batch,    \* the worker, the rest of its rx and tx arrays,
  ndrop, held,       \* how many mbufs it drops and holds in arp_pending_
  handled,           \* number of the last frame it handled
  put,               \* number of the last frame it put in its tx array
  sent               \* number of the last frame given to the NIC

modeVars == <<mode_, loops>>
rxVars == <<arrived, rxl, rx_ring>>
txVars == <<tx_ring, txl, sent>>
workerVars == <<wpc, rx, batch, ndrop, held, handled, put>>
netifVars == <<modeVars, pool, rxVars, txVars, workerVars>>

(* An rte_ring of size n holds n - 1 elements. *)
Capacity == RingSize - 1

Frames == Seq(Nat)

NetifTypeOK ==
  /\ mode_ \in {"pipeline", "rtc"}
  /\ loops \subseteq {"run_recv", "run_send"}
  /\ pool \in 0 .. PoolSize
  /\ arrived \in 0 .. MaxFrames
  /\ {rx_ring, tx_ring, rxl, txl, rx, batch} \subseteq Frames
  /\ Len(rx_ring) <= Capacity /\ Len(tx_ring) <= Capacity
  /\ Len(rxl) <= RxBurst /\ Len(txl) <= TxBurst /\ Len(rx) <= RxBurst
  /\ wpc \in {"recv", "handle", "send"}
  /\ ndrop \in 0 .. RxBurst /\ held \in 0 .. PoolSize
  /\ {handled, put, sent} \subseteq Nat

(* DpdkNetif::init; the loops are those that DpdkNetifManager::init could  *)
(* launch, which depends on the flags and on the lcores.                   *)
NetifInit ==
  /\ mode_ \in {"pipeline", "rtc"}
  /\ loops \in SUBSET {"run_recv", "run_send"}
  /\ mode_ = "rtc" => loops = {}
  /\ pool = PoolSize
  /\ arrived = 0 /\ handled = 0 /\ put = 0 /\ sent = 0
  /\ rx_ring = <<>> /\ tx_ring = <<>> /\ rxl = <<>> /\ txl = <<>>
  /\ wpc = "recv" /\ rx = <<>> /\ batch = <<>> /\ ndrop = 0 /\ held = 0

-----------------------------------------------------------------------------
(* Rings and bursts *)

AtMost(a, b) == IF a < b THEN a ELSE b

PushOneTooMany(ring, pkts) == AtMost(Capacity - Len(ring) + 1, Len(pkts))

(* push_burst: how many of pkts are pushed. *)
Pushed(ring, pkts) == AtMost(Capacity - Len(ring), Len(pkts))

PopWholeBursts(ring, n) == IF Len(ring) < n THEN 0 ELSE n

(* pop_burst: how many elements are popped when n are asked for. *)
Popped(ring, n) == AtMost(Len(ring), n)

First(s, n) == SubSeq(s, 1, n)
Rest(s, n) == SubSeq(s, n + 1, Len(s))

(* The n numbers after last. *)
Numbered(last, n) == [i \in 1 .. n |-> last + i]

(* rx_burst: n mbufs with the frames that come next. *)
Arrivals(n) == Numbered(arrived, n)
RxBurstReturns(n) ==
  /\ arrived + n <= MaxFrames
  /\ n <= pool
  /\ arrived' = arrived + n
  /\ pool' = pool - n

-----------------------------------------------------------------------------
(* The RX lcore: nic_recv *)

(* rx_burst returns n frames, *)
NicPoll(n) ==
  /\ "run_recv" \in loops
  /\ rxl = <<>>
  /\ RxBurstReturns(n)
  /\ rxl' = Arrivals(n)
  /\ UNCHANGED <<modeVars, rx_ring, txVars, workerVars>>

NicRecvForgets ==
  /\ rxl # <<>>
  /\ LET got == Pushed(rx_ring, rxl)
     IN IF got = 0
          THEN rxl' = <<>> /\ UNCHANGED rx_ring
          ELSE rx_ring' = rx_ring \o First(rxl, got) /\ rxl' = Rest(rxl, got)
  /\ UNCHANGED <<modeVars, pool, arrived, txVars, workerVars>>

(* which are pushed to rx_ring until it is full; the others are freed. *)
NicRecv ==
  /\ rxl # <<>>
  /\ LET got == Pushed(rx_ring, rxl)
     IN IF got = 0
          THEN /\ pool' = pool + Len(rxl)
               /\ rxl' = <<>>
               /\ UNCHANGED rx_ring
          ELSE /\ rx_ring' = rx_ring \o First(rxl, got)
               /\ rxl' = Rest(rxl, got)
               /\ UNCHANGED pool
  /\ UNCHANGED <<modeVars, arrived, txVars, workerVars>>

-----------------------------------------------------------------------------
(* The worker: recv_burst, what run does with a burst, send_burst *)

Received(burst) ==
  /\ rx' = burst
  /\ wpc' = IF burst = <<>> THEN "recv" ELSE "handle"

(* recv_burst takes a burst from rx_ring, *)
WorkerRecv ==
  /\ mode_ = "pipeline" /\ wpc = "recv"
  /\ LET n == Popped(rx_ring, RxBurst)
     IN Received(First(rx_ring, n)) /\ rx_ring' = Rest(rx_ring, n)
  /\ UNCHANGED <<modeVars, pool, arrived, rxl, txVars, batch, ndrop, held, handled, put>>

(* or calls rx_burst. *)
RtcRecv(n) ==
  /\ mode_ = "rtc" /\ wpc = "recv"
  /\ RxBurstReturns(n)
  /\ Received(Arrivals(n))
  /\ UNCHANGED <<modeVars, rxl, rx_ring, txVars, batch, ndrop, held, handled, put>>

One(b) == IF b THEN 1 ELSE 0

(* The next packet of the burst.  If an address was learned, flush_pending *)
(* puts f held packets in the tx array, as far as there is room, and frees *)
(* e that are too old.  Then the packet is dropped, transmitted, held, or  *)
(* refused and freed since the queue is full; in the last two cases a      *)
(* probe may follow, for which there must be an mbuf and room.  A packet   *)
(* that is transmitted is put in the array without asking for room.        *)
Handle(f, e, result, probe) ==
  /\ wpc = "handle"
  /\ Len(batch) + f <= RxBurst
  /\ f + e <= held
  /\ probe => /\ result \in {"hold", "refuse"}
              /\ Len(batch) + f < RxBurst
              /\ pool + e + One(result = "refuse") > 0
  /\ LET n == f + One(result = "transmit") + One(probe)
     IN batch' = batch \o Numbered(put, n) /\ put' = put + n
  /\ ndrop' = ndrop + One(result = "drop")
  /\ held' = held - f - e + One(result = "hold")
  /\ pool' = pool + e + One(result = "refuse") - One(probe)
  /\ rx' = Rest(rx, 1) /\ handled' = rx[1]
  /\ wpc' = IF Len(rx) = 1 THEN "send" ELSE "handle"
  /\ UNCHANGED <<modeVars, rxVars, txVars>>

(* The array had no room for a packet: undefined behaviour.  The model     *)
(* ends here (gateway_batch shows how it comes about).                     *)
Overrun ==
  /\ Len(batch) > RxBurst
  /\ UNCHANGED netifVars

(* expire_pending, at the top of the loop, frees e held packets. *)
ExpirePending(e) ==
  /\ wpc = "recv"
  /\ e <= held
  /\ held' = held - e
  /\ pool' = pool + e
  /\ UNCHANGED <<modeVars, rxVars, txVars, wpc, rx, batch, ndrop, handled, put>>

SendFromStart ==
  /\ mode_ = "pipeline" /\ wpc = "send" /\ Len(batch) <= RxBurst
  /\ LET en == Pushed(tx_ring, batch)
     IN tx_ring' = tx_ring \o First(batch, en) /\ batch' = First(batch, Len(batch) - en)
  /\ UNCHANGED <<modeVars, pool, rxVars, txl, sent, wpc, rx, ndrop, held, handled, put>>

(* One iteration of send_burst on tx_ring: when there is no room it sleeps *)
(* and tries again.                                                        *)
SendBurst ==
  /\ mode_ = "pipeline" /\ wpc = "send" /\ Len(batch) <= RxBurst
  /\ LET en == Pushed(tx_ring, batch)
     IN tx_ring' = tx_ring \o First(batch, en) /\ batch' = Rest(batch, en)
  /\ UNCHANGED <<modeVars, pool, rxVars, txl, sent, wpc, rx, ndrop, held, handled, put>>

(* send_burst calls tx_burst, which takes n frames.  The driver gives the  *)
(* mbufs it took back to the pool.  When it takes none, run frees the rest *)
(* of the array.                                                           *)
RtcSend(n) ==
  /\ mode_ = "rtc" /\ wpc = "send" /\ Len(batch) \in 1 .. RxBurst
  /\ n <= Len(batch)
  /\ IF n = 0
       THEN batch' = <<>> /\ pool' = pool + Len(batch) /\ UNCHANGED sent
       ELSE batch' = Rest(batch, n) /\ pool' = pool + n /\ sent' = batch[n]
  /\ UNCHANGED <<modeVars, rxVars, tx_ring, txl, wpc, rx, ndrop, held, handled, put>>

(* The array has been sent; the dropped mbufs are freed. *)
WorkerDone ==
  /\ wpc = "send"
  /\ batch = <<>>
  /\ pool' = pool + ndrop
  /\ ndrop' = 0
  /\ wpc' = "recv"
  /\ UNCHANGED <<modeVars, rxVars, txVars, rx, batch, held, handled, put>>

-----------------------------------------------------------------------------
(* The TX lcore: nic_send *)

NicPop ==
  /\ "run_send" \in loops
  /\ txl = <<>> /\ tx_ring # <<>>
  /\ LET n == Popped(tx_ring, TxBurst)
     IN txl' = First(tx_ring, n) /\ tx_ring' = Rest(tx_ring, n)
  /\ UNCHANGED <<modeVars, pool, rxVars, sent, workerVars>>

(* tx_burst takes the first n frames, the others are freed. *)
NicSend(n) ==
  /\ txl # <<>>
  /\ n <= Len(txl)
  /\ sent' = IF n = 0 THEN sent ELSE txl[n]
  /\ pool' = pool + Len(txl)
  /\ txl' = <<>>
  /\ UNCHANGED <<modeVars, rxVars, tx_ring, workerVars>>

-----------------------------------------------------------------------------
RxLcore == NicRecv \/ \E n \in 1 .. RxBurst : NicPoll(n)
TxLcore == NicPop \/ \E n \in 0 .. TxBurst : NicSend(n)
HandleNext ==
  \E f, e \in 0 .. held, probe \in BOOLEAN,
     result \in {"drop", "transmit", "hold", "refuse"} : Handle(f, e, result, probe)
Expire == \E e \in 1 .. held : ExpirePending(e)
SendNext == SendBurst \/ (\E n \in 0 .. RxBurst : RtcSend(n)) \/ WorkerDone
RtcPoll == \E n \in 0 .. RxBurst : RtcRecv(n)
Worker == WorkerRecv \/ HandleNext \/ SendNext

NetifNext == RxLcore \/ RtcPoll \/ Expire \/ Worker \/ Overrun \/ TxLcore

(* The worker and every lcore that runs a loop keep running, and the       *)
(* worker's clock does; frames need not arrive.                            *)
NetifSpec ==
  /\ NetifInit
  /\ [][NetifNext]_netifVars
  /\ WF_netifVars(Worker) /\ WF_netifVars(Expire)
  /\ WF_netifVars(NicRecv) /\ WF_netifVars(TxLcore)

-----------------------------------------------------------------------------
(* Properties *)

(* Frames that the worker has yet to handle, and those it has transmitted; *)
(* the ones that are ahead first.                                          *)
Incoming == rx \o rx_ring \o rxl
Outgoing == txl \o tx_ring \o batch

(* Every mbuf is in the pool, on its way, or in the hands of the worker:   *)
(* none is lost or freed twice, whether a ring is full, the worker drops,  *)
(* holds or refuses it, or the NIC does not take it.                       *)
Conserved == PoolSize = pool + ndrop + held + Len(Incoming) + Len(Outgoing)

Increasing(s) == \A i \in 1 .. (Len(s) - 1) : s[i] < s[i + 1]

(* The netif hands frames over in order and none twice, although each hop  *)
(* moves as many as it has room for: the worker handles frames in the      *)
(* order of their arrival, and the NIC gets them in the order in which the *)
(* worker put them in its tx array.                                        *)
InOrder == Increasing(<<handled>> \o Incoming) /\ Increasing(<<sent>> \o Outgoing)

(* The datapath never stops for good: when no more frames arrive every     *)
(* mbuf comes back to the pool, unless the tx array was overrun.  In       *)
(* pipeline mode this needs the TX loop, for which send_burst waits        *)
(* without limit when tx_ring is full; in run-to-completion mode a NIC     *)
(* that takes nothing does not hold it up.                                 *)
Drains ==
  (mode_ = "rtc" \/ "run_send" \in loops) =>
    <>[](pool = PoolSize \/ Len(batch) > RxBurst)
=============================================================================
