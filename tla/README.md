# A TLA+ model of VioletGW

VioletGW is a user-space L4 UDP gateway on DPDK. It receives datagrams for a virtual
address (VIP), translates them to an upstream through a session, and translates the
answers back. This directory models the gateway from `main` to the worker loop, its data
plane down to the checksums, its neighbor resolution, its control plane and its packet
I/O, checks them with TLC and proves most of the safety properties with TLAPS. Paths below
are relative to the repository.

## The system

| Part | Code | State | Operations |
|---|---|---|---|
| Session table | `src/session.*` | sessions, two maps, SNAT port stack, marks, scan position | lookup, create, touch, expire |
| Upstream table | `src/upstream.*` | endpoint list, policy, round-robin counter | set, set_policy, pick |
| Forwarder | `src/forward.*` | none of its own | handle: classify, use or create a session, translate, resolve the next hop |
| Neighbor cache | `src/neighbor.*` | address to MAC, with age; static seeds | seed, lookup, learn, expire |
| ARP handler | `src/arp.*` | none of its own | answer requests, learn from replies, build probes |
| Packet parser | `src/packet.*` | none | parse, passive learn, verify and recompute checksums |
| Worker | `src/vgw.*`, `src/config.hpp` | queues of packets waiting for a MAC, probe times, timers, burst arrays | init, run, handle, enqueue / probe / flush / expire pending |
| Control-plane block | `src/cp_shm.*`, `src/vgw_cp_shm.h` | shared memory, last applied version | open, publish, poll_apply |
| Publisher | `tools/vgwcp/main.go` | none that outlives it | check the options, publish |
| Netif | `src/dpdk/netif.*`, `src/base/ring.hpp` | two rings per port, one loop per lcore | port bring-up, launch, recv_burst, send_burst, nic_recv, nic_send |
| Flags, entry | `src/dpdk/datapath_*`, `src/main.cpp` | the configuration | split the command line, check the flags, start |

How they interact. `main` splits the command line between the gateway and DPDK, turns the
flags into a configuration, brings up the ports, launches the I/O loops, opens the control
block and enters the worker loop. One worker thread runs everything from the session table
to the ARP handler, so these parts interleave only at the granularity of the worker's
loop: read the clock once, expire sessions (every 1 s), neighbors and held packets (every
60 s), poll the control plane (every 1 s), receive a burst, handle each packet, send the
batch. In Pipeline mode an RX and a TX lcore run beside it and exchange mbufs with it over
two rings; in run-to-completion (RTC) mode the worker calls the driver itself. Publishers
are other processes that write the shared memory block without a lock; a version, stored
last, tells the worker that there is something to read.

What is hard. Session objects are reachable from three containers and deleted while one
of them is walked. SNAT ports come back through a stack and through a scan, and the port
returned last is reused first, while replies to its former owner may be on their way. A
packet waiting for a MAC was translated when it arrived and leaves later, when its
session may be gone; it is parsed again after it was rewritten. The transmit batch is
filled from three places. An mbuf must be freed exactly once on every path. A UDP checksum
has two representations of zero, one of which means "none". The configuration block is
read while it is written, by writers that may overlap or die. The worker waits without
bound for the TX lcore. `PROJECT.json` lists these hazards at the lines where they bite.

## Modules

| Module | Models |
|---|---|
| `Flows` | names that the components share |
| `SessionTable` | the session table; a *heap* of session objects makes a dangling map entry visible |
| `NatBinding` | abstract: what the session table promises to its callers |
| `UpstreamTable` | the upstream list and `pick` |
| `Forwarder` | the decisions of the forwarder, on top of both tables |
| `FlowHistory` | the forwarder with a history of recent translations, for end-to-end properties |
| `NeighborTable` | the neighbor cache |
| `ArpPending` | the transmit batch and the queues of packets that wait for a MAC, as operators on what they change |
| `Gateway` | the worker: `Forwarder`, `NeighborTable`, `ArpPending`, the ARP handler and the loop of `run` |
| `Packet` | the parser and the checksums, as operators on frames, with reference definitions |
| `FramePath` | what the worker does to the bytes of one frame, and of the answer to it |
| `CpShm` | the shared memory block, its publishers and the gateway's poll, on `UpstreamTable` |
| `Netif` | both modes of packet I/O: rings, RX / TX lcores, the worker seen from outside |
| `Startup` | `main` up to the worker loop: arguments, flags, ports, link check, launch |
| `SessionTableProofs`, `ForwarderProofs`, `ArpPendingProofs`, `GatewayProofs`, `NetifProofs`, `FramePathProofs`, `CpShmProofs`, `StartupProofs` | theorems and proofs |
| `MC*` | instances for TLC |

Conventions. Names are the code's. An absent map entry is `nullptr`. A time stamp is
kept as the time since it, capped where the code no longer tells ages apart. Times are in
model units; only their order relative to one another matters. What is done to a vector
(`back`, `pop_back`, the erasure of an element, a loop that keeps some of the elements) is
defined by positions rather than taken from the library, whose definitions are recursive
or go through `SelectSeq`: about these definitions something can be proved.

Which step is atomic. In `SessionTable` and `Gateway` a step is a call, except that
`expire` takes one step per loop iteration (`cursor`) so that the invariants are
checked inside the loop, and the worker's iteration is split into its stages (`pc`).
In `FramePath` a step is the handling of one frame. In `CpShm` a step is one load or store
of one field. In `Netif` a step is one ring or driver operation. In `Startup` a step is
one argument, one link check, one netif, or one of the calls that may end the process.

How the modules divide the work. `Gateway` does not build frames: what a received mbuf
contains is chosen when the worker looks at it, among the classes that the code tells
apart (ARP request, ARP reply, stray IPv4, UDP for the VIP, UDP for the gateway, anything
else), and a packet keeps the translation it received. `FramePath` is the complement: it
follows the bytes of one frame through the same handlers, and chooses freely which session
a flow gets and when a MAC is known. `Netif` sees of the worker only that it drops,
transmits or holds each packet of a burst, and that it may flush, probe and expire: it
numbers the frames as they arrive, and again as the worker puts them in its transmit
array, since a flush puts packets there that arrived earlier. `Startup` ends where `Netif`
and `Gateway` begin: every launch outcome it can reach is an initial state of `Netif`.

A frame, in `Packet`, is the length of its first segment and its header fields. Addresses
are pairs of 16-bit words and checksums are one's complement sums of words; the header
words that no handler changes are one sum, and the payload is given by its partial sums.
The two DPDK checksum functions are external; whether `rte_ipv4_udptcp_cksum` replaces 0
by 0xffff depends on its version, so both are allowed.

Where the code is undefined. Once `run` has written past `tx[kBurst]` (see `gateway_batch`)
the process may do anything: the action `Overrun` ends the model there, in `Gateway` and in
`Netif`, and what the other runs and proofs say of the two is about executions up to that
point. A packet to a client with address 0.0.0.0, whose mbuf is lost, is in `Gateway` only.

`CpShm` takes each process's loads and stores in program order, which is what x86 gives
the release store and acquire load of the version and the plain accesses between them
(the compiler does not move them across these). On a weaker machine the Go publisher's
plain stores would need a barrier before the last one; that is outside the model.

## Runs

All bounds are constants of the `.cfg` files.

| Run | Checks | Shows |
|---|---|---|
| `flow_history` | `TypeOK`, `SentBacked`, `ReplyToOwner`, `StickyFlow`, `ListExact`, `MapsAgree`, `PortsExclusive`, `FailsOnlyExhausted`, `ImplementsNat` | vector, maps and port allocator agree in every reachable state, also inside `expire`; the table implements `NatBinding`; replies within the idle timeout go to the flow they answer; an active flow keeps upstream and port across publications |
| `gateway` | `GatewayTypeOK`, `MbufOwnership`, `NeighborFresh`, `HeldFifo` | every mbuf is in exactly one place (the clients of the instance have addresses other than 0.0.0.0); queues stay within `ARP_PENDING_MAX_PER_IP`; no next hop is used that was last confirmed more than the entry timeout and an expire interval ago; held packets do not overtake one another |
| `gateway_live` | `TxOwned`, `Released` | a held packet leaves only while its session owns the translation; every mbuf taken is given back |
| `cp_shm` | `CpTypeOK`, `QuiescentApplied`, `Converges` | publications, one at a time, reach the table whole and in the end, also after one was killed or the gateway died while it created the block |
| `netif` | `NetifTypeOK`, `Conserved`, `InOrder`, `Drains` | in both modes no mbuf is lost, the hand-offs of the netif (NIC to worker, transmit array to NIC) neither reorder nor repeat a frame, and the datapath does not stop for good (in Pipeline mode: if the TX loop runs) |
| `frame` | `FrameTypeOK`, `HeadersInside`, `VerifyExact`, `ReceiverAccepts`, `RoundTrip`, `TxAddressed`, `ArpAnswered` | whatever the length fields say, only bytes of the received segment are rewritten; with verification the parser accepts, of the complete datagrams, exactly those with right checksums; a translated packet is right for its receiver; the answer reaches the client as the VIP's; an ARP reply, written over its request, names the right parties |
| `startup` | `StartTypeOK`, `ArgsSplit`, `ConfigFaithful`, `RunReady`, `StartEnds` | every argument goes to the right side, no flag is truncated, the worker loop starts only with a link, a netif and a supported mode, and startup ends |

Five runs end in a counterexample: the code does something else than the repository says.

| Run | Property | What happens |
|---|---|---|
| `gateway_batch` | `TxWithinBatch` | `run` appends to `tx[kBurst]` without the bound check that the flush and the probe make, so a flush followed by forwarded packets overruns it |
| `gateway_held` | `HeldOnlyUnresolved` | the address learned from an IPv4 frame is read again after translation, so the queue of the wrong address is flushed and the packets stay held |
| `cp_shm_overlap` | `TornCorrected` | two publishers use the same version; a mixed configuration is never corrected |
| `frame_surplus` | `UdpLengthChecksummed` | the recomputed UDP checksum goes by the IPv4 length, not, as documented, by the UDP length; it is wrong when the IPv4 packet is longer than the datagram (only with `recompute_udp_checksum`, off by default) |
| `startup_ports` | `PortsServed` | the second port of a lcore pair gets no loops, since its lcores are busy |

Bounds, and why they are enough.

- `flow_history`: more flows than ports, so that ports run out, are returned in more than
  one order and are reused by another flow, and a timeout of several units so that sessions
  of different ages coexist.
- `gateway`: two flows of one client, one upstream, four mbufs and bursts of two, so that
  two packets can be held while a third takes room in the batch and a fourth carries the
  answer that flushes them, in part.
- `gateway_live`: one flow, two mbufs and a finer clock (held for at most 2, idle for at
  most 3), so that a session can expire and a held packet be flushed in every order. The
  order of the code's values is kept: 5 s held, 60 s idle, 60 s between expiries of ARP.
  The client's address is one that is never learned passively.
- `cp_shm`: three publications by one publisher, any of which may be killed between two
  stores, two restarts at any point, and versions 0 to 4 starting anywhere, so that the
  wrap happens and three publications cannot lead back to the version last applied. The
  block may or may not exist at the start. Publishers do not overlap with one another or
  with the creation of the block (`Overlap` is FALSE). `QuiescentApplied` and `Converges`
  are stated for when the last publication was completed. `cp_shm_overlap` lets publishers
  overlap and none be killed.
- `netif`: rings of size four (three usable), bursts of two, six mbufs and six frames,
  so that both rings fill and pushes are partial; all sets of launched loops.
- `frame`: every combination of lengths and header fields at and around the limits the
  parser compares with, those where its 16-bit sum wraps included, and payloads that make
  the UDP checksum 0 on each of the four legs of an exchange, with neighbors, under all
  options.
- `startup`: all command lines of up to four arguments of the five kinds the splitter tells
  apart; flags below, at and above each limit, with 16-bit fields narrowed to 2 bits and
  the 32-bit mask to 2 bits; up to two lcores beside the main one in `startup`, four in
  `startup_ports`.

TLC looks for deadlock in every passing run except `frame`, where a frame that was
transmitted or dropped is done. Symmetry (flows, session addresses, mbufs) is used where no
liveness is checked.

Fairness. `gateway_live`: the worker's loop never blocks for good (`run` has no exit; the
one wait, in `send_burst`, is shown to end by `Drains`), and the clock advances (it is a
steady clock). `cp_shm`: the worker keeps polling and a publisher that is not killed
finishes. `netif`: each launched loop keeps running on its own lcore, and the worker's
clock advances, so that held packets expire; frames need not arrive. `startup`: `main`
keeps executing; the link need not come up.

## Proofs

The theorems hold for every value of the constants that satisfies the assumptions.

| Module | Theorems | Of |
|---|---|---|
| `SessionTableProofs` | `TableTyped`, `TableListExact`, `TableMapsAgree`, `TablePortsExclusive`, `TableFailsOnlyExhausted`, `TableImplementsNat` | every set of flows, endpoints and session addresses, every SNAT range within 16 bits, every timeout |
| `ForwarderProofs` | of `FlowHistory`: `HistoryTyped`, `HistoryBacked`, `RepliesReachOwner`, `FlowsAreSticky` | also every sequence of published configurations |
| | of `Gateway`: `GatewayMapsAgree`, `GatewayPortsExclusive`, `GatewayFailsOnlyExhausted`, `GatewayNeighborFresh` | also every timer interval |
| `GatewayProofs` | `GatewayTypes`, `GatewayMbufOwnership`, `GatewayTxOwned`, `GatewayHeldFifo` | also every number of mbufs and next hops, every burst and queue size |
| `NetifProofs` | `NetifTyped`, `NetifConserved`, `NetifInOrder` | every ring, burst and pool size |
| `FramePathProofs` | `FrameTyped`, `FrameHeadersInside`, `FrameVerifyExact`, `FrameReceiverAccepts`, `FrameRoundTrip`, `FrameTxAddressed`, `FrameArpAnswered` | every frame, address, port and payload |
| `CpShmProofs` | `CpTyped`, `CpQuiescentApplied` | every set of publishers and configurations, every block size, kills and restarts at any point |
| `StartupProofs` | `CommandLineSplit`, `FlagsNotCut`, `StartTypes`, `WorkerReady` | every command line, all values of the flags, every width of the integer types, every number of ports, lcores and link checks |

`ArpPendingProofs` holds the lemmas about the queues that `GatewayProofs` uses.

Assumptions. `SessionTableAssumption` (the range is non-empty, starts above 0 and ends at
or below 65535, the timeout is positive, `nullptr` is no session and no address).
`UpstreamTableAssumption`, `ForwarderAssumption`, `NeighborAssumption`,
`ArpPendingAssumption`, `NetifAssumption` and `CpShmAssumption` (the constants have their
types).
`GatewayAssumption` (besides: packets are held no longer than sessions idle, as in
`config.hpp`, and the model tells ages apart up to where they matter). `StartupAssumption`
(a command line has at least the program name, 16-bit fields hold at least 0 and 1, and
the default port mask is a mask other than 0).
`FramePathAssumption` (received frames have their types; VIP and gateway address differ;
the payload's sums reach as far as the IPv4 length says). `CpQuiescentApplied` has the
premise `Solo`: publishers do not overlap, and fewer publications are made than there are
versions, for if all 2^32 versions went by between two polls the last applied one would
come round.

The argument for the table. None of the invariants is inductive alone. Erasing a session
keeps the maps right only if no other session is under the same key, which for the reverse
map follows from ports being exclusive; a port taken from the stack is unused only if the
stack has no duplicate and no port in use; the marks describe the sessions only if each
session owns its mark. `TableInv`, the conjunction of `TableTypeOK`, `ListExact`,
`MapsAgree` and `PortsExclusive`, is inductive, action by action. `FailsOnlyExhausted`
then follows because the scan of a failing allocation visits the whole range
(`ProbedCovers`). The refinement maps a flow to the session its forward lookup finds;
`create` is `Bind`, `touch` through either map is `Refresh`, an erasing iteration of
`expire` is `Release`, the clock is `Elapse`, and everything else stutters.

The argument for the forwarder. `ReplyToOwner` needs `SentBacked`: a translation used less
than a timeout ago has a live session that was active at least as recently, so `expire`
cannot have taken it. With `TableInv` the session is under its reverse key and the port is
no one else's, hence the reply goes to its owner; with the forward map a flow has one
session, hence one translation.

The argument for the gateway. Each stage of the worker makes at most one call into the
session table, and makes it when the table allows it, so every step of `Gateway` is a step
of `SessionTable` or leaves the table alone (the lemma `GatewayTable`); the table's theorems
carry over. `NeighborFresh` is not inductive, because the age of an entry is bounded only
after `expire_neighbors` had its chance to run: `NeighborInv` bounds the entries by the
time since the last expiry, and says nothing between the reading of the clock and the
expiry when that interval has run out.

The argument for the mbufs. `GatewayInv` joins `ControlInv` (tables, neighbors, timers) and
`IoInv`, which says of the worker's packets that they have their types and the queues their
bound, that no mbuf is in two places (`Tidy` for batch, queues and outside, `Apart` for
these and the rest), that none is nowhere (`Complete`, if no client has address 0.0.0.0),
and whose they are. The helpers are proved one by one, for every `io`, to keep what
`Sound` says; the handlers compose them. What is known of a packet depends on where it is.
A header in the batch is in `Sendable`: the session that translated it exists. A packet in
a queue is in `Holdable`: that session exists and has been idle no longer than the packet
has waited, unless the packet's time is up. This is what makes `TxOwned` inductive. A flush
frees what waited for `PendingTimeout`, and what it sends waited less, hence less than
`IdleTimeout`, hence has its session; `expire` erases only sessions whose held packets are
past sending; and the batch is empty whenever `expire` runs.

`MbufOwnership` counts places, which is not something an invariant can be proved with;
`OnePlace` and `InvPlaces` derive the count from `Tidy`, `Apart` and `Complete`. A loop
over a queue (`Ready`) is described by an increasing map from the positions kept to the
positions they had (`Keeps`), whose image is exactly what did not expire. `ReadyFacts`
proves that this map exists, by ranking positions: no induction over the queue is needed.
The lemmas of `ArpPendingProofs` take it as a named hypothesis, `ReadyKeeps`, which the
theorems discharge with `ReadyFacts`. `HeldFifo` follows from the map: a flush sends a
front part of what it keeps, so of two packets in a queue the later one is sent only if the
earlier one was sent ahead of it or freed.

The argument for the netif. `Conserved` counts the six sequences that hold mbufs, the
drops, the held packets and the pool (`Counted`); each action moves a number of mbufs
between them. For `InOrder`, `InLine` says of three sequences in a row that their numbers
increase from the last one handed over to the last one given out: moving a prefix of one to
the end of the next keeps this, and so does taking elements out or adding new numbers at
the end. It is used twice, for the frames before the worker and for those after it. In RTC
mode the driver's burst goes straight to the worker's array, which needs that the rings and
the lcores' arrays are empty; `Phases` adds that, and what the worker's arrays hold at each
of its stages.

The argument for the frames. `FrameInv` says, besides the properties, that a session was
made from the request, that a translated packet is the one received except for
addresses, ports and checksums, and that a held packet is in the queue of its destination.
`HeadersInside` rests on the parser's test of the headers alone: the later one, of the
whole length, says nothing when its sum wraps. The reply that `make_reply` writes is
followed store by store. The checksum lemmas are about folded sums: a sum plus the
complement of its fold folds to all ones (hence what was recomputed verifies), and a number
that completes a sum to all ones is that complement or its other representation (hence what
verifies is what would be recomputed).

The argument for the control block. A copy is trusted if the version loaded before it is
still the block's after it. `CpInv` says that there is one writer, which will store the
version after the block's (`OneWriter`), that what `poll_apply` copied so far is what the
block says as long as that version stands (`Reader`), and that an applied version that is
still the block's vouches for the table unless a writer is at work or was killed
(`Vouched`). That the version cannot come round in between is counted by `Distance` and
`Left`. The invariant was also checked by TLC on the instance of `cp_shm`.

The argument for the start. `SplitInv` says of the loop over the arguments that both sides
hold increasing positions below the next one and that each position looked at went where it
belongs (`Divided`), the value of a flag with its flag. `ConfigInv` says that `cfg` has its
types and, once made, holds the values of the flags: what the narrower fields would cut was
refused before (`CheckUint16Flag`). `PortsInv` says what each stage of
`main` has established when the next begins; its part `LoopsAsked` says which loops run
while there is one netif, from which `RunReady` follows at the worker loop.

Only model-checked. All liveness (`Released`, `Converges`, `Drains`, `StartEnds`), since
the prover does not handle fairness. The five violated properties are not theorems.

## Not modelled

- `DpdkNetifManager::stop`, `dpdk::clean` and the destructors: nothing calls the first
  two, and `run` does not return. The overloads of `DpdkNetifManager::init` that nothing
  calls.
- Multi-worker RTC: `DpdkNetifManager::init` refuses it, which `Startup` models.
- A process that ends in `init` after the I/O loops were launched: the loops end with it.
- The fields of an ARP probe, and trace logging, packet dumps and packet filters
  (`src/base`), which are compiled out by default and change nothing the data plane reads.
- A SNAT range whose begin is 65535, for which the constructor's widened end wraps to 0.
- The end of the payload in the parser's view: where the 16-bit sum of the lengths wraps it
  may lie behind the segment, and no code under `src/` uses it.
- `tools/verify_vgwcp_apply.cpp` (a test program that calls `open` and `poll_apply`, both
  modelled), the eBPF observers (counters read to be printed), the load generators and the
  set-up scripts: they run beside the gateway and do not change what it does.
