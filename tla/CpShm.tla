-------------------------------- MODULE CpShm --------------------------------
(***************************************************************************)
(* The control plane: the shared memory block (src/vgw_cp_shm.h), the      *)
(* gateway's side of it (src/cp_shm.cpp, and the calls of it in vgw.cpp)   *)
(* and the vgwcp command that publishes into it (tools/vgwcp/main.go).     *)
(*                                                                         *)
(* Publishers and the gateway are separate processes without a lock.  A    *)
(* step is one load or store of a field (an endpoint slot counts as one    *)
(* field); each process's loads and stores take effect in program order,   *)
(* as on the x86 machines the gateway is built for.  The gateway itself is *)
(* the first publisher, vgw, when it creates and seeds the block.          *)
(***************************************************************************)
EXTENDS UpstreamTable

CONSTANTS
  Publisher,    \* vgwcp processes
  vgw,          \* the gateway process
  Config,       \* what vgwcp may be given: a policy and a list of upstreams
  Seed,         \* the configuration in config.hpp
  MaxEp,        \* VGW_CP_SHM_MAX_EP
  VersionSpan,  \* number of values of version (2^32 in the code)
  Overlap,      \* may a process start to write while another one writes?
  Killed,       \* may a publisher die before it is done?
  MaxPublish,   \* bounds of the model: publications,
  MaxRestart    \* and restarts of the gateway

Zero == nullptr  \* an endpoint slot filled with zeros

ASSUME CpShmAssumption ==
  /\ vgw \notin Publisher
  /\ MaxEp \in Nat \ {0} /\ VersionSpan \in Nat \ {0, 1}
  /\ {Overlap, Killed} \subseteq BOOLEAN
  /\ {MaxPublish, MaxRestart} \subseteq Nat
  /\ Seed.policy \in Policy
  /\ Seed.endpoints \in Seq(Endpoint)
  /\ Len(Seed.endpoints) <= MaxEp

VARIABLES
  exists,         \* the block exists under its name
  shm,            \* the block
  step,           \* next store of each writer, 0 when it is not writing
  config,         \* what each writer writes
  next,           \* the version it will store
  gpc,            \* the gateway: "down", "created", "seeding", "ready" or "copy"
  starting,       \* poll_apply is being called by init_services
  ver, copy,      \* locals of poll_apply
  last_applied_,
  interrupted,    \* history: no publication was completed since a writer was killed
  publications, restarts

shmVars == <<exists, shm>>
writerVars == <<step, config, next>>
readerVars == <<gpc, starting, ver, copy, last_applied_>>
boundVars == <<publications, restarts>>
cpVars == <<upstreamVars, shmVars, writerVars, readerVars, interrupted, boundVars>>

Writer == Publisher \cup {vgw}
Version == 0 .. (VersionSpan - 1)
Slots == [1 .. MaxEp -> Endpoint \cup {Zero}]
Block == [magic : BOOLEAN, version : Version, policy : Policy,
          count : 0 .. MaxEp, endpoints : Slots]

AcceptsTooMany(c) ==
  /\ c.endpoints # <<>>
  /\ c.policy \in Policy
  /\ c.endpoints \in Seq(Endpoint)

(* vgwcp goes on only with a known policy, at least one upstream, each of  *)
(* them an IPv4 address and a port, and no more of them than fit.          *)
Accepts(c) ==
  /\ c.endpoints # <<>>
  /\ c.policy \in Policy
  /\ c.endpoints \in Seq(Endpoint)
  /\ Len(c.endpoints) <= MaxEp

Published == {c \in Config : Accepts(c)} \cup {Seed}

(* The stores of a publication, in order: the magic number, the policy,    *)
(* the count, each endpoint slot, and the version.                         *)
VersionStep == MaxEp + 4

CpTypeOK ==
  /\ exists \in BOOLEAN
  /\ shm \in Block
  /\ step \in [Writer -> 0 .. VersionStep]
  /\ config \in [Writer -> Published]
  /\ next \in [Writer -> Version]
  /\ gpc \in {"down", "created", "seeding", "ready", "copy"}
  /\ {starting, interrupted} \subseteq BOOLEAN
  /\ ver \in Version /\ last_applied_ \in Version
  /\ copy.policy \in Policy
  /\ copy.count \in 0 .. MaxEp
  /\ copy.endpoints \in Seq(Endpoint \cup {Zero})
  /\ nodes_ \in Seq(Endpoint \cup {Zero}) /\ policy_ \in Policy

Slot(c, i) == IF i <= Len(c.endpoints) THEN c.endpoints[i] ELSE Zero

Zeroed == [magic |-> FALSE, version |-> 0, policy |-> "mod", count |-> 0,
           endpoints |-> [i \in 1 .. MaxEp |-> Zero]]

NoCopy == [read |-> 0, policy |-> "mod", count |-> 0, endpoints |-> <<>>]

(* The block is missing, or was left by an earlier run at some version. *)
CpInit ==
  /\ UpstreamInit
  /\ \/ exists = FALSE /\ shm = Zeroed
     \/ /\ exists = TRUE
        /\ \E v \in Version \ {0} :
             shm = [magic |-> TRUE, version |-> v, policy |-> Seed.policy,
                    count |-> Len(Seed.endpoints),
                    endpoints |-> [i \in 1 .. MaxEp |-> Slot(Seed, i)]]
  /\ step = [w \in Writer |-> 0]
  /\ config = [w \in Writer |-> Seed]
  /\ next = [w \in Writer |-> 0]
  /\ gpc = "down" /\ starting = FALSE
  /\ ver = 0 /\ copy = NoCopy /\ last_applied_ = 0
  /\ interrupted = FALSE
  /\ publications = 0 /\ restarts = 0

-----------------------------------------------------------------------------
(* Writers *)

NextVersionZero(v) == (v + 1) % VersionSpan

(* The version after v: zero means "never published" and is skipped. *)
NextVersion(v) ==
  LET n == (v + 1) % VersionSpan
  IN IF n = 0 THEN 1 ELSE n

(* A process starts to write alone, unless writers may overlap. *)
MayWrite ==
  Overlap \/ (gpc # "created" /\ \A w \in Writer : step[w] = 0)

(* vgwcp checks its arguments, opens the block, creating it if needed, and *)
(* reads the version.                                                      *)
PublishBegin(w, c) ==
  /\ step[w] = 0
  /\ Accepts(c)
  /\ publications < MaxPublish
  /\ MayWrite
  /\ exists' = TRUE
  /\ config' = [config EXCEPT ![w] = c]
  /\ next' = [next EXCEPT ![w] = NextVersion(shm.version)]
  /\ step' = [step EXCEPT ![w] = 1]
  /\ publications' = publications + 1
  /\ UNCHANGED <<upstreamVars, shm, readerVars, interrupted, restarts>>

(* The store that a writer makes at step n. *)
Stored(w, n) ==
  CASE n = 1 -> [shm EXCEPT !.magic = TRUE]
    [] n = 2 -> [shm EXCEPT !.policy = config[w].policy]
    [] n = 3 -> [shm EXCEPT !.count = Len(config[w].endpoints)]
    [] n \in 4 .. (VersionStep - 1) ->
         [shm EXCEPT !.endpoints[n - 3] = Slot(config[w], n - 3)]
    [] n = VersionStep -> [shm EXCEPT !.version = next[w]]

Store(w) ==
  /\ step[w] # 0
  /\ shm' = Stored(w, step[w])
  /\ step' = [step EXCEPT ![w] = IF @ = VersionStep THEN 0 ELSE @ + 1]
  /\ gpc' = IF w = vgw /\ step[w] = VersionStep THEN "ready" ELSE gpc
  /\ interrupted' = (interrupted /\ step[w] # VersionStep)
  /\ UNCHANGED <<upstreamVars, exists, config, next,
                 starting, ver, copy, last_applied_, boundVars>>

(* A publisher is killed between two stores. *)
Kill(w) ==
  /\ Killed
  /\ step[w] # 0
  /\ step' = [step EXCEPT ![w] = 0]
  /\ interrupted' = TRUE
  /\ UNCHANGED <<upstreamVars, shmVars, config, next, readerVars, boundVars>>

-----------------------------------------------------------------------------
(* The gateway *)

(* CpShm::open on an existing block. *)
Attach ==
  /\ gpc = "down"
  /\ exists /\ shm.magic
  /\ gpc' = "ready" /\ starting' = TRUE
  /\ UNCHANGED <<upstreamVars, shmVars, writerVars, ver, copy, last_applied_,
                 interrupted, boundVars>>

(* Without the magic number open fails, and init with it; the gateway is   *)
(* started again and again.                                                *)
OpenFails ==
  /\ gpc = "down"
  /\ exists /\ ~shm.magic
  /\ UNCHANGED cpVars

(* CpShm::open when the block is missing: shm_open and ftruncate, *)
Create ==
  /\ gpc = "down"
  /\ ~exists
  /\ MayWrite
  /\ exists' = TRUE
  /\ gpc' = "created" /\ starting' = TRUE
  /\ UNCHANGED <<upstreamVars, shm, writerVars, ver, copy, last_applied_,
                 interrupted, boundVars>>

(* then memset, after which the seed is stored with version 1. *)
Clear ==
  /\ gpc = "created"
  /\ shm' = Zeroed
  /\ gpc' = "seeding"
  /\ config' = [config EXCEPT ![vgw] = Seed]
  /\ next' = [next EXCEPT ![vgw] = 1]
  /\ step' = [step EXCEPT ![vgw] = 1]
  /\ UNCHANGED <<upstreamVars, exists, starting, ver, copy, last_applied_,
                 interrupted, boundVars>>

(* poll_apply returns false; init_services then uses the seed. *)
NotApplied ==
  /\ IF starting THEN Set(Seed.policy, Seed.endpoints) ELSE UNCHANGED upstreamVars
  /\ starting' = FALSE

(* poll_apply loads the version. *)
PollBegin ==
  /\ gpc = "ready"
  /\ IF ~shm.magic \/ shm.version \in {0, last_applied_}
       THEN NotApplied /\ UNCHANGED <<gpc, ver, copy>>
       ELSE /\ ver' = shm.version
            /\ copy' = NoCopy
            /\ gpc' = "copy"
            /\ UNCHANGED <<upstreamVars, starting>>
  /\ UNCHANGED <<shmVars, writerVars, last_applied_, interrupted, boundVars>>

(* The count that is used: no more than there are slots. *)
Clamped(count) == IF count > MaxEp THEN MaxEp ELSE count

(* It copies the policy, the count and that many endpoints. *)
PollCopy ==
  /\ gpc = "copy"
  /\ copy.read < 2 \/ Len(copy.endpoints) < copy.count
  /\ copy' = CASE copy.read = 0 -> [copy EXCEPT !.read = 1, !.policy = shm.policy]
               [] copy.read = 1 -> [copy EXCEPT !.read = 2, !.count = Clamped(shm.count)]
               [] copy.read = 2 -> [copy EXCEPT !.endpoints =
                    Append(@, shm.endpoints[Len(@) + 1])]
  /\ UNCHANGED <<upstreamVars, shmVars, writerVars, gpc, starting, ver,
                 last_applied_, interrupted, boundVars>>

PollEndUnchecked ==
  /\ gpc = "copy"
  /\ copy.read = 2 /\ Len(copy.endpoints) = copy.count
  /\ Set(copy.policy, copy.endpoints)
  /\ last_applied_' = shm.version
  /\ starting' = FALSE
  /\ gpc' = "ready" /\ copy' = NoCopy /\ ver' = 0
  /\ UNCHANGED <<shmVars, writerVars, interrupted, boundVars>>

(* It applies the copy if the version is still the one it loaded. *)
PollEnd ==
  /\ gpc = "copy"
  /\ copy.read = 2 /\ Len(copy.endpoints) = copy.count
  /\ IF shm.version = ver
       THEN /\ Set(copy.policy, copy.endpoints)
            /\ last_applied_' = ver
            /\ starting' = FALSE
       ELSE NotApplied /\ UNCHANGED last_applied_
  /\ gpc' = "ready" /\ copy' = NoCopy /\ ver' = 0
  /\ UNCHANGED <<shmVars, writerVars, interrupted, boundVars>>

(* The gateway dies and will be started again with an empty upstream       *)
(* table.  If it was creating the block, the block stays as it was left:   *)
(* without the magic number, or seeded in part.                            *)
Restart ==
  /\ gpc # "down"
  /\ restarts < MaxRestart
  /\ gpc' = "down" /\ starting' = FALSE
  /\ ver' = 0 /\ copy' = NoCopy /\ last_applied_' = 0
  /\ nodes_' = <<>> /\ policy_' = "mod" /\ rr_counter_' = 0
  /\ step' = [step EXCEPT ![vgw] = 0]
  /\ interrupted' = (interrupted \/ gpc \in {"created", "seeding"})
  /\ restarts' = restarts + 1
  /\ UNCHANGED <<shmVars, config, next, publications>>

GatewayStep ==
  \/ Attach \/ OpenFails \/ Create \/ Clear \/ Store(vgw)
  \/ PollBegin \/ PollCopy \/ PollEnd

CpNext ==
  \/ GatewayStep
  \/ Restart
  \/ \E w \in Publisher : (\E c \in Config : PublishBegin(w, c)) \/ Store(w) \/ Kill(w)

(* The worker keeps polling, and a publisher that is not killed finishes. *)
CpSpec ==
  /\ CpInit
  /\ [][CpNext]_cpVars
  /\ WF_cpVars(GatewayStep)
  /\ \A w \in Publisher : WF_cpVars(Store(w))

-----------------------------------------------------------------------------
(* Properties *)

Quiet == gpc \in {"ready", "copy"} /\ \A w \in Writer : step[w] = 0

(* The upstream table is what the block says. *)
Applied ==
  /\ policy_ = shm.policy
  /\ nodes_ = SubSeq(shm.endpoints, 1, shm.count)

(* When nobody is publishing and the last publication was completed, a     *)
(* gateway that believes it has applied the current version has applied    *)
(* the current content: the version stored last and the version loaded     *)
(* first vouch for the copy between them, and a completed publication      *)
(* repairs what a killed one left.                                         *)
QuiescentApplied ==
  Quiet /\ ~interrupted /\ last_applied_ # 0 /\ last_applied_ = shm.version => Applied

(* Every publication reaches the upstream table: when publishing stops,    *)
(* and did not stop with a killed writer, the gateway runs and its table   *)
(* ends up as what was published last and stays so, across a restart of    *)
(* the gateway and a wrap of the version.  A gateway that died before it   *)
(* stored the magic number cannot be started again, but a publication by   *)
(* vgwcp stores it, and open succeeds from then on.                        *)
Converges == <>[](interrupted \/ (gpc # "down" /\ Applied))

(* The table mixes fields of different configurations. *)
Torn ==
  /\ gpc \in {"ready", "copy"} /\ ~starting
  /\ [policy |-> policy_, endpoints |-> nodes_] \notin Published

(* "Brief torn reads across version bump are acceptable; next poll         *)
(* corrects." (docs/superpowers/specs/2026-07-24-shm-control-plane-        *)
(* design.md)                                                              *)
TornCorrected == Torn ~> ~Torn
=============================================================================
