----------------------------- MODULE CpShmProofs -----------------------------
(***************************************************************************)
(* The version protocol of the control plane, for any number of            *)
(* publishers, configurations and endpoints, with publishers that are      *)
(* killed and a gateway that is restarted at any point: while publishers   *)
(* do not overlap, and fewer publications are made than there are          *)
(* versions, the version that was applied stands for the content that was  *)
(* applied.                                                                *)
(***************************************************************************)
EXTENDS CpShm, SequenceTheorems, TLAPS

Solo == ~Overlap /\ MaxPublish < VersionSpan - 1

Active == \E w \in Writer : step[w] # 0

(* How many publications lead from version a to version b. *)
Distance(a, b) == IF a <= b THEN b - a ELSE b - a + VersionSpan - 1

(* How many publications may still be completed. *)
Left == MaxPublish - publications + (IF Active THEN 1 ELSE 0)

(* With so many publications left the version cannot come round to v. *)
Near(v, version, left) == version # 0 /\ Distance(v, version) + left < VersionSpan - 1

(* What poll_apply has copied so far is what the block says. *)
Agrees ==
  /\ copy.read # 0 => copy.policy = shm.policy
  /\ copy.read = 2 => copy.count = shm.count
  /\ \A i \in 1 .. Len(copy.endpoints) : copy.endpoints[i] = shm.endpoints[i]

CopyType ==
  /\ copy \in [read : 0 .. 2, policy : Policy, count : 0 .. MaxEp,
               endpoints : Seq(Endpoint \cup {Zero})]
  /\ Len(copy.endpoints) <= copy.count
  /\ copy.read # 2 => copy.count = 0

CpTypes ==
  /\ CpTypeOK
  /\ CopyType
  /\ publications \in 0 .. MaxPublish

(* Writers take turns, and the one that writes will store the version      *)
(* after the block's.                                                      *)
OneWriter ==
  /\ \A u, w \in Writer : step[u] # 0 /\ step[w] # 0 => u = w
  /\ \A w \in Writer : step[w] # 0 => next[w] = NextVersion(shm.version)
  /\ \A w \in Publisher : step[w] # 0 => publications # 0
  /\ step[vgw] # 0 <=> gpc = "seeding"
  /\ gpc = "created" => ~Active

Reader ==
  /\ starting \/ gpc \in {"down", "created", "seeding"} => last_applied_ = 0
  /\ gpc = "copy" => ver # 0 /\ Near(ver, shm.version, Left)
  /\ last_applied_ # 0 => Near(last_applied_, shm.version, Left)

(* A version that still is the block's vouches for what was read under it. *)
Vouched ==
  /\ gpc = "copy" /\ ver = shm.version => Agrees \/ interrupted \/ Active
  /\ last_applied_ # 0 /\ last_applied_ = shm.version => Applied \/ interrupted \/ Active

CpInv == Solo /\ CpTypes /\ OneWriter /\ Reader /\ Vouched

-----------------------------------------------------------------------------
(* Facts about the constants and about versions. *)

(* The constants, one fact each. *)
LEMMA Constants ==
  /\ MaxEp \in Nat /\ MaxEp # 0
  /\ VersionSpan \in Nat /\ VersionSpan > 1
  /\ MaxPublish \in Nat
  /\ vgw \notin Publisher
  /\ VersionStep = MaxEp + 4
BY CpShmAssumption DEF CpShmAssumption, VersionStep

(* What a writer may be given to write. *)
LEMMA ConfigType ==
  ASSUME NEW c \in Published
  PROVE  /\ c.policy \in Policy
         /\ c.endpoints \in Seq(Endpoint)
         /\ Len(c.endpoints) \in 0 .. MaxEp
         /\ \A i \in 1 .. MaxEp : Slot(c, i) \in Endpoint \cup {Zero}
<1>1. /\ c.policy \in Policy
      /\ c.endpoints \in Seq(Endpoint)
      /\ Len(c.endpoints) <= MaxEp
  BY CpShmAssumption DEF CpShmAssumption, Published, Accepts
<1>2. Len(c.endpoints) \in 0 .. MaxEp
  BY <1>1, Constants
<1>3. ASSUME NEW i \in 1 .. MaxEp PROVE Slot(c, i) \in Endpoint \cup {Zero}
  BY <1>1, Constants DEF Slot
<1> QED BY <1>1, <1>2, <1>3

(* NextVersion counts 1, 2 .. VersionSpan - 1 and round to 1. *)
LEMMA NextVersionIs ==
  ASSUME NEW v \in Version
  PROVE  /\ v < VersionSpan - 1 => NextVersion(v) = v + 1
         /\ v = VersionSpan - 1 => NextVersion(v) = 1
         /\ NextVersion(v) \in Version \ {0}
<1>1. v \in Nat /\ v <= VersionSpan - 1 /\ VersionSpan \in Nat /\ VersionSpan > 1
  BY Constants DEF Version
<1>2. CASE v < VersionSpan - 1
  <2>1. (v + 1) % VersionSpan = v + 1
    BY <1>1, <1>2
  <2> QED BY <1>1, <1>2, <2>1 DEF NextVersion, Version
<1>3. CASE v = VersionSpan - 1
  <2>1. (v + 1) % VersionSpan = 0
    BY <1>1, <1>3
  <2> QED BY <1>1, <1>3, <2>1 DEF NextVersion, Version
<1> QED BY <1>1, <1>2, <1>3

(* While a publication is left before v comes round, completing one leads  *)
(* one further away from v, and not to v itself.                           *)
LEMMA Farther ==
  ASSUME NEW a \in Version \ {0}, NEW b \in Version \ {0},
         Distance(a, b) + 1 < VersionSpan - 1
  PROVE  /\ NextVersion(b) # a
         /\ Distance(a, NextVersion(b)) = Distance(a, b) + 1
<1>1. /\ a \in Nat /\ b \in Nat /\ a # 0 /\ b # 0
      /\ a <= VersionSpan - 1 /\ b <= VersionSpan - 1 /\ VersionSpan \in Nat
  BY Constants DEF Version
<1>2. CASE b < VersionSpan - 1
  BY <1>1, <1>2, NextVersionIs DEF Distance
<1>3. CASE b = VersionSpan - 1
  BY <1>1, <1>3, NextVersionIs DEF Distance
<1> QED BY <1>1, <1>2, <1>3

-----------------------------------------------------------------------------
(* Types. *)

(* A store writes a value of the field's type, and only the last one       *)
(* writes the version.                                                     *)
LEMMA StoredType ==
  ASSUME CpTypes, NEW w \in Writer, step[w] # 0
  PROVE  /\ Stored(w, step[w]) \in Block
         /\ step[w] # VersionStep => Stored(w, step[w]).version = shm.version
         /\ step[w] = VersionStep => Stored(w, step[w]) = [shm EXCEPT !.version = next[w]]
<1> DEFINE n == step[w]
<1>1. n \in 1 .. VersionStep /\ VersionStep = MaxEp + 4 /\ MaxEp \in Nat
  BY Constants DEF CpTypes, CpTypeOK
<1>2. shm \in Block /\ next[w] \in Version /\ config[w] \in Published
  BY DEF CpTypes, CpTypeOK
<1> HIDE DEF n
<1>3. CASE n = 1
  <2>1. Stored(w, n) = [shm EXCEPT !.magic = TRUE]
    BY <1>1, <1>3 DEF Stored
  <2>2. TRUE \in BOOLEAN
    OBVIOUS
  <2> DEFINE t == TRUE
  <2> HIDE DEF t
  <2>3. t \in BOOLEAN /\ Stored(w, n) = [shm EXCEPT !.magic = t]
    BY <2>1, <2>2, Zenon DEF t
  <2>4. Stored(w, n) \in Block /\ Stored(w, n).version = shm.version
    BY <1>2, <2>3 DEF Block
  <2> QED BY <1>1, <1>3, <2>4 DEF n
<1>4. CASE n = 2
  <2>1. config[w].policy \in Policy
    BY <1>2, ConfigType
  <2>2. Stored(w, n) = [shm EXCEPT !.policy = config[w].policy]
    BY <1>1, <1>4 DEF Stored
  <2> QED BY <1>1, <1>2, <1>4, <2>1, <2>2 DEF Block, n
<1>5. CASE n = 3
  <2>1. Len(config[w].endpoints) \in 0 .. MaxEp
    BY <1>2, ConfigType
  <2>2. Stored(w, n) = [shm EXCEPT !.count = Len(config[w].endpoints)]
    BY <1>1, <1>5 DEF Stored
  <2> QED BY <1>1, <1>2, <1>5, <2>1, <2>2 DEF Block, n
<1>6. CASE n \in 4 .. (VersionStep - 1)
  <2>1. Slot(config[w], n - 3) \in Endpoint \cup {Zero}
    BY <1>1, <1>2, <1>6, ConfigType
  <2>2. Stored(w, n) = [shm EXCEPT !.endpoints[n - 3] = Slot(config[w], n - 3)]
    BY <1>1, <1>6 DEF Stored
  <2>3. [shm.endpoints EXCEPT ![n - 3] = Slot(config[w], n - 3)] \in Slots
    BY <1>2, <2>1 DEF Block, Slots
  <2> QED BY <1>1, <1>2, <1>6, <2>2, <2>3 DEF Block, n
<1>7. CASE n = VersionStep
  <2>1. Stored(w, n) = [shm EXCEPT !.version = next[w]]
    BY <1>1, <1>7 DEF Stored
  <2> QED BY <1>2, <1>7, <2>1 DEF Block, n
<1> QED BY <1>1, <1>3, <1>4, <1>5, <1>6, <1>7 DEF n

(* The initial states are typed. *)
LEMMA TypesInit == CpInit => CpTypes
<1> SUFFICES ASSUME CpInit PROVE CpTypes
  OBVIOUS
<1>1. Seed.policy \in Policy /\ Len(Seed.endpoints) \in 0 .. MaxEp
  BY ConfigType DEF Published
<1>2. [i \in 1 .. MaxEp |-> Slot(Seed, i)] \in Slots
  BY ConfigType DEF Slots, Published
<1>3. shm \in Block
  <2>1. CASE shm = Zeroed
    BY <2>1, Constants DEF Zeroed, Block, Slots, Policy, Version
  <2>2. ASSUME NEW v \in Version,
               shm = [magic |-> TRUE, version |-> v, policy |-> Seed.policy,
                      count |-> Len(Seed.endpoints),
                      endpoints |-> [i \in 1 .. MaxEp |-> Slot(Seed, i)]]
        PROVE  shm \in Block
    BY <1>1, <1>2, <2>2 DEF Block
  <2> QED BY <2>1, <2>2, Zenon DEF CpInit
<1>4. CopyType
  BY Constants DEF CpInit, CopyType, NoCopy, Policy
<1>5. CpTypeOK
  <2>0. exists \in BOOLEAN
    BY Zenon DEF CpInit
  <2>1. 0 \in Version /\ 0 \in 0 .. VersionStep
    BY Constants DEF Version
  <2>2. /\ step \in [Writer -> 0 .. VersionStep]
        /\ next \in [Writer -> Version]
        /\ config \in [Writer -> Published]
    BY <2>1 DEF CpInit, Published
  <2>3. nodes_ \in Seq(Endpoint \cup {Zero}) /\ policy_ \in Policy
    BY DEF CpInit, UpstreamInit, Policy
  <2> QED BY <1>3, <1>4, <2>0, <2>1, <2>2, <2>3 DEF CpInit, CpTypeOK, CopyType
<1> QED BY <1>4, <1>5, Constants DEF CpTypes, CpInit

(* The writers' steps keep the types. *)
LEMMA TypesWriter ==
  ASSUME CpTypes, NEW w \in Writer,
         \/ \E c \in Config : PublishBegin(w, c)
         \/ Store(w)
         \/ Kill(w)
  PROVE  CpTypes'
<1> USE DEF CpTypes
<1>0. 0 \in 0 .. VersionStep /\ 1 \in 0 .. VersionStep /\ shm.version \in Version
  BY Constants DEF CpTypeOK, Block
<1>1. CASE \E c \in Config : PublishBegin(w, c)
  <2>1. NextVersion(shm.version) \in Version
    BY <1>0, NextVersionIs
  <2>2. CpTypeOK'
    BY <1>0, <1>1, <2>1 DEF CpTypeOK, PublishBegin, Published, upstreamVars, readerVars
  <2>3. CopyType'
    BY <1>1 DEF CopyType, PublishBegin, readerVars
  <2> QED BY <1>1, <2>2, <2>3, Constants DEF PublishBegin
<1>2. CASE Store(w)
  <2>1. shm' \in Block
    BY <1>2, StoredType DEF Store
  <2>2. step' \in [Writer -> 0 .. VersionStep]
    BY <1>2, Constants DEF Store, CpTypeOK
  <2>3. CpTypeOK'
    BY <1>2, <2>1, <2>2 DEF CpTypeOK, Store, upstreamVars, boundVars
  <2>4. CopyType'
    BY <1>2 DEF CopyType, Store
  <2> QED BY <1>2, <2>3, <2>4 DEF Store, boundVars
<1>3. CASE Kill(w)
  <2>1. CpTypeOK'
    BY <1>0, <1>3 DEF CpTypeOK, Kill, upstreamVars, shmVars, readerVars
  <2>2. CopyType'
    BY <1>3 DEF CopyType, Kill, readerVars
  <2> QED BY <1>3, <2>1, <2>2 DEF Kill, boundVars
<1> QED BY <1>1, <1>2, <1>3

(* An empty copy is typed. *)
LEMMA NoCopyType == copy' = NoCopy => CopyType'
BY Constants DEF CopyType, NoCopy, Policy

(* The copy after its policy, and after its count, is read. *)
LEMMA CopyParts ==
  ASSUME NEW c \in [read : 0 .. 2, policy : Policy, count : 0 .. MaxEp,
                    endpoints : Seq(Endpoint \cup {Zero})],
         NEW p \in Policy, NEW k \in 0 .. MaxEp
  PROVE  /\ [c EXCEPT !.read = 1, !.policy = p]
              = [read |-> 1, policy |-> p, count |-> c.count, endpoints |-> c.endpoints]
         /\ [c EXCEPT !.read = 2, !.count = k]
              = [read |-> 2, policy |-> c.policy, count |-> k, endpoints |-> c.endpoints]
<1> DEFINE R == [read : 0 .. 2, policy : Policy, count : 0 .. MaxEp,
                 endpoints : Seq(Endpoint \cup {Zero})]
           d == [c EXCEPT !.read = 1]
           e == [c EXCEPT !.read = 2]
<1>1. /\ [c EXCEPT !.read = 1, !.policy = p] = [d EXCEPT !.policy = p]
      /\ [c EXCEPT !.read = 2, !.count = k] = [e EXCEPT !.count = k]
  BY Zenon
<1>2. /\ d = [read |-> 1, policy |-> c.policy, count |-> c.count, endpoints |-> c.endpoints]
      /\ e = [read |-> 2, policy |-> c.policy, count |-> c.count, endpoints |-> c.endpoints]
  OBVIOUS
<1>3. d \in R /\ e \in R
  BY <1>2
<1> HIDE DEF d, e
<1>4. [d EXCEPT !.policy = p]
        = [read |-> d.read, policy |-> p, count |-> d.count, endpoints |-> d.endpoints]
  BY <1>3
<1>5. [e EXCEPT !.count = k]
        = [read |-> e.read, policy |-> e.policy, count |-> k, endpoints |-> e.endpoints]
  BY <1>3
<1>6. /\ d.read = 1 /\ d.count = c.count /\ d.endpoints = c.endpoints
      /\ e.read = 2 /\ e.policy = c.policy /\ e.endpoints = c.endpoints
  BY <1>2
<1> QED BY <1>1, <1>4, <1>5, <1>6, Zenon

(* A copy of one more field is typed, and takes that field from the block. *)
LEMMA CopyStep ==
  ASSUME CpTypes, PollCopy
  PROVE  CopyType' /\ (Agrees => Agrees')
<1>1. /\ copy \in [read : 0 .. 2, policy : Policy, count : 0 .. MaxEp,
                   endpoints : Seq(Endpoint \cup {Zero})]
      /\ Len(copy.endpoints) <= copy.count
      /\ copy.read # 2 => copy.count = 0
  BY DEF CpTypes, CopyType
<1>2. /\ shm' = shm
      /\ shm.policy \in Policy
      /\ shm.count \in 0 .. MaxEp
      /\ shm.endpoints \in [1 .. MaxEp -> Endpoint \cup {Zero}]
  BY DEF CpTypes, CpTypeOK, Block, Slots, PollCopy, shmVars
<1>3. CASE copy.read = 0
  <2>1. copy' = [copy EXCEPT !.read = 1, !.policy = shm.policy]
    BY <1>3 DEF PollCopy
  <2>2. /\ copy'.read = 1 /\ copy'.policy = shm.policy
        /\ copy'.count = copy.count /\ copy'.endpoints = copy.endpoints
        /\ copy' \in [read : 0 .. 2, policy : Policy, count : 0 .. MaxEp,
                      endpoints : Seq(Endpoint \cup {Zero})]
    <3>1. copy' = [read |-> 1, policy |-> shm.policy, count |-> copy.count,
                   endpoints |-> copy.endpoints]
      BY <1>1, <1>2, <2>1, CopyParts, Zenon
    <3> QED BY <1>1, <1>2, <3>1
  <2> QED BY <1>1, <1>2, <1>3, <2>2 DEF CopyType, Agrees
<1>4. CASE copy.read = 1
  <2>1. copy' = [copy EXCEPT !.read = 2, !.count = shm.count]
    <3>1. Clamped(shm.count) = shm.count
      BY <1>2, Constants DEF Clamped
    <3>2. copy' = [copy EXCEPT !.read = 2, !.count = Clamped(shm.count)]
      BY <1>4 DEF PollCopy
    <3> QED
      BY <3>1, <3>2
  <2>2. Len(copy.endpoints) = 0 /\ shm.count >= 0
    BY <1>1, <1>2, <1>4, Constants
  <2>3. /\ copy'.read = 2 /\ copy'.policy = copy.policy
        /\ copy'.count = shm.count /\ copy'.endpoints = copy.endpoints
        /\ copy' \in [read : 0 .. 2, policy : Policy, count : 0 .. MaxEp,
                      endpoints : Seq(Endpoint \cup {Zero})]
    <3>1. copy' = [read |-> 2, policy |-> copy.policy, count |-> shm.count,
                   endpoints |-> copy.endpoints]
      BY <1>1, <1>2, <2>1, CopyParts, Zenon
    <3> QED BY <1>1, <1>2, <3>1
  <2> QED BY <1>1, <1>2, <1>4, <2>2, <2>3 DEF CopyType, Agrees
<1>5. CASE copy.read = 2
  <2> DEFINE n == Len(copy.endpoints) + 1
             e == shm.endpoints[n]
             eps == Append(copy.endpoints, e)
  <2>1. copy' = [copy EXCEPT !.endpoints = eps]
    BY <1>5 DEF PollCopy
  <2>2. n \in 1 .. copy.count /\ copy.count \in 0 .. MaxEp
    BY <1>1, <1>5, Constants DEF PollCopy
  <2>3. e \in Endpoint \cup {Zero}
    BY <1>2, <2>2, Constants
  <2> HIDE DEF e
  <2>4. /\ eps \in Seq(Endpoint \cup {Zero})
        /\ Len(eps) = n
        /\ eps[n] = e
        /\ \A i \in 1 .. Len(copy.endpoints) : eps[i] = copy.endpoints[i]
    BY <1>1, <2>3
  <2> HIDE DEF eps
  <2>5. /\ copy'.read = 2 /\ copy'.policy = copy.policy
        /\ copy'.count = copy.count /\ copy'.endpoints = eps
        /\ copy' \in [read : 0 .. 2, policy : Policy, count : 0 .. MaxEp,
                      endpoints : Seq(Endpoint \cup {Zero})]
    BY <1>1, <1>5, <2>1, <2>4
  <2>6. CopyType'
    BY <2>2, <2>4, <2>5 DEF CopyType
  <2>7. ASSUME Agrees PROVE Agrees'
    <3>1. ASSUME NEW i \in 1 .. Len(copy'.endpoints)
          PROVE  copy'.endpoints[i] = shm'.endpoints[i]
      <4>1. i = n \/ i \in 1 .. Len(copy.endpoints)
        BY <1>1, <2>4, <2>5
      <4> QED BY <1>2, <2>4, <2>5, <2>7, <4>1 DEF Agrees, e
    <3> QED BY <1>2, <1>5, <2>5, <2>7, <3>1 DEF Agrees
  <2> QED BY <2>6, <2>7
<1> QED BY <1>1, <1>3, <1>4, <1>5

(* The gateway's steps keep the types. *)
LEMMA TypesGateway ==
  ASSUME CpTypes, Attach \/ OpenFails \/ Create \/ Clear \/ PollBegin
                  \/ PollCopy \/ PollEnd \/ Restart
  PROVE  CpTypes'
<1>0. /\ 0 \in 0 .. VersionStep /\ 1 \in 0 .. VersionStep
      /\ 0 \in Version /\ 1 \in Version /\ vgw \in Writer
      /\ shm.version \in Version
  BY Constants DEF CpTypes, CpTypeOK, Block, Version, Writer
<1>s. /\ Seed.policy \in Policy
      /\ Seed.endpoints \in Seq(Endpoint \cup {Zero})
  BY ConfigType DEF Published
<1>n. CopyType' /\ copy.endpoints \in Seq(Endpoint \cup {Zero}) /\ copy.policy \in Policy
  <2>1. CASE copy' = copy
    BY <2>1 DEF CpTypes, CopyType
  <2>2. CASE copy' = NoCopy
    BY <2>2, NoCopyType DEF CpTypes, CopyType
  <2>3. CASE PollCopy
    BY <2>3, CopyStep DEF CpTypes, CopyType
  <2>4. copy' = copy \/ copy' = NoCopy \/ PollCopy
    BY DEF Attach, OpenFails, Create, Clear, PollBegin, PollEnd, Restart, cpVars, readerVars
  <2> QED BY <2>1, <2>2, <2>3, <2>4
<1>c. CopyType' => /\ copy'.policy \in Policy
                   /\ copy'.count \in 0 .. MaxEp
                   /\ copy'.endpoints \in Seq(Endpoint \cup {Zero})
  BY DEF CopyType
<1>p. (publications \in 0 .. MaxPublish)'
  BY DEF CpTypes, Attach, OpenFails, Create, Clear, PollBegin, PollCopy, PollEnd, Restart,
         cpVars, boundVars
<1> SUFFICES CpTypeOK'
  BY <1>n, <1>p DEF CpTypes
<1> USE DEF CpTypes
<1>1. CASE Attach
  BY <1>1, <1>n, <1>c DEF CpTypeOK, Attach, upstreamVars, shmVars, writerVars
<1>2. CASE OpenFails
  BY <1>2, <1>n, <1>c DEF CpTypeOK, OpenFails, cpVars, upstreamVars, shmVars, writerVars, readerVars
<1>3. CASE Create
  BY <1>3, <1>n, <1>c DEF CpTypeOK, Create, upstreamVars, writerVars
<1>4. CASE Clear
  <2>1. Zeroed \in Block
    BY Constants DEF Zeroed, Block, Slots, Policy, Version
  <2>2. /\ step' \in [Writer -> 0 .. VersionStep]
        /\ next' \in [Writer -> Version]
        /\ config' \in [Writer -> Published]
    BY <1>0, <1>4 DEF Clear, CpTypeOK, Published
  <2> QED BY <1>4, <1>n, <1>c, <2>1, <2>2 DEF CpTypeOK, Clear, upstreamVars
<1>5. CASE PollBegin
  BY <1>5, <1>0, <1>s, <1>n, <1>c
  DEF CpTypeOK, PollBegin, NotApplied, Set, upstreamVars, shmVars, writerVars
<1>6. CASE PollCopy
  BY <1>6, <1>n, <1>c DEF CpTypeOK, PollCopy, upstreamVars, shmVars, writerVars
<1>7. CASE PollEnd
  BY <1>7, <1>0, <1>s, <1>n, <1>c
  DEF CpTypeOK, PollEnd, NotApplied, Set, upstreamVars, shmVars, writerVars
<1>8. CASE Restart
  <2>1. {starting', interrupted'} \subseteq BOOLEAN
    BY <1>8, Zenon DEF CpTypeOK, Restart
  <2>2. step' \in [Writer -> 0 .. VersionStep]
    BY <1>8, <1>0 DEF CpTypeOK, Restart
  <2>3. nodes_' \in Seq(Endpoint \cup {Zero}) /\ policy_' \in Policy
    BY <1>8 DEF Restart, Policy
  <2> QED BY <1>8, <1>0, <1>n, <1>c, <2>1, <2>2, <2>3 DEF CpTypeOK, Restart, shmVars
<1> QED BY <1>1, <1>2, <1>3, <1>4, <1>5, <1>6, <1>7, <1>8

-----------------------------------------------------------------------------
(* The invariant. *)

(* The bounds that the arithmetic on publications needs. *)
LEMMA LeftType ==
  ASSUME CpInv
  PROVE  /\ Left \in Nat
         /\ Active => Left = MaxPublish - publications + 1
         /\ ~Active => Left = MaxPublish - publications
         /\ publications \in Nat /\ MaxPublish \in Nat
         /\ MaxPublish < VersionSpan - 1 /\ ~Overlap
         /\ shm.version \in Version /\ ver \in Version /\ last_applied_ \in Version
BY Constants DEF CpInv, Solo, CpTypes, CpTypeOK, Block, Left

(* A step that leaves the writers and the block alone. *)
LEMMA Undisturbed ==
  ASSUME CpInv, UNCHANGED <<shm, step, next, publications>>
  PROVE  /\ Active' = Active
         /\ Left' = Left
         /\ \A u, w \in Writer : step'[u] # 0 /\ step'[w] # 0 => u = w
         /\ \A w \in Writer : step'[w] # 0 => next'[w] = NextVersion(shm'.version)
         /\ \A w \in Publisher : step'[w] # 0 => publications' # 0
<1>1. Active' = Active
  BY DEF Active
<1>2. Left' = Left
  BY <1>1 DEF Left
<1> QED BY <1>1, <1>2 DEF CpInv, OneWriter

(* Initially nothing is being written, read or applied. *)
LEMMA CpInvInit == Solo /\ CpInit => CpInv
<1> SUFFICES ASSUME Solo, CpInit PROVE CpInv
  OBVIOUS
<1>1. \A w \in Writer : step[w] = 0
  BY DEF CpInit
<1>2. OneWriter
  BY <1>1 DEF OneWriter, CpInit, Active, Writer
<1>3. Reader /\ Vouched
  BY DEF CpInit, Reader, Vouched
<1> QED BY <1>2, <1>3, TypesInit DEF CpInv

(* A publisher that starts to write is alone. *)
LEMMA PublishBeginStep ==
  ASSUME CpInv, NEW w \in Publisher, NEW c \in Config, PublishBegin(w, c)
  PROVE  CpInv'
<1>1. w \in Writer /\ vgw \in Writer /\ w # vgw
  BY Constants DEF Writer
<1>2. CpTypes'
  BY <1>1, TypesWriter DEF CpInv
<1>3. /\ \A u \in Writer : step[u] = 0
      /\ gpc # "created"
      /\ shm' = shm /\ publications' = publications + 1
  BY LeftType DEF PublishBegin, MayWrite
<1>4. /\ step' = [step EXCEPT ![w] = 1] /\ step'[w] = 1
      /\ next'[w] = NextVersion(shm.version)
      /\ \A u \in Writer : u # w => step'[u] = 0
  BY <1>1, <1>3 DEF PublishBegin, CpInv, CpTypes, CpTypeOK
<1>5. Active' /\ ~Active
  BY <1>1, <1>3, <1>4 DEF Active
<1>6. Left' = Left
  BY <1>3, <1>5, LeftType DEF Left
<1>7. UNCHANGED <<nodes_, policy_, gpc, starting, ver, copy, last_applied_>>
  BY DEF PublishBegin, upstreamVars, readerVars
<1>8. OneWriter'
  BY <1>1, <1>3, <1>4, <1>7, LeftType DEF OneWriter, CpInv
<1>9. Reader'
  BY <1>3, <1>6, <1>7 DEF Reader, CpInv
<1>10. Vouched'
  BY <1>5 DEF Vouched
<1> QED BY <1>2, <1>8, <1>9, <1>10 DEF CpInv, Solo

(* A store before the last: the writer stays active, and the version and   *)
(* everything that is read of it stay.                                     *)
LEMMA StoreFieldStep ==
  ASSUME CpInv, NEW w \in Writer, Store(w), step[w] # VersionStep
  PROVE  CpInv'
<1>1. CpTypes'
  BY TypesWriter DEF CpInv
<1>2. shm'.version = shm.version
  BY StoredType DEF Store, CpInv
<1>3. /\ step[w] # 0 /\ step'[w] # 0
      /\ \A u \in Writer : u # w => step'[u] = step[u]
  BY Constants DEF Store, CpInv, CpTypes, CpTypeOK
<1>4. Active /\ Active'
  BY <1>3 DEF Active
<1>5. UNCHANGED <<next, gpc, starting, ver, copy, last_applied_, publications>>
  BY DEF Store, boundVars
<1>6. Left' = Left
  BY <1>4, <1>5 DEF Left
<1>7. OneWriter'
  <2>1. vgw \in Writer /\ Publisher \subseteq Writer
    BY DEF Writer
  <2>2. \A u \in Writer : step'[u] # 0 <=> step[u] # 0
    BY <1>3
  <2>3. gpc # "created"
    BY <1>4 DEF CpInv, OneWriter
  <2> QED BY <1>2, <1>5, <2>1, <2>2, <2>3 DEF OneWriter, CpInv
<1>8. Reader'
  BY <1>2, <1>5, <1>6 DEF Reader, CpInv
<1>9. Vouched'
  BY <1>4 DEF Vouched
<1> QED BY <1>1, <1>7, <1>8, <1>9 DEF CpInv, Solo

(* The last store moves the version to one that was not read or applied:   *)
(* what was read before is discarded, what was applied is replaced.        *)
LEMMA StoreVersionStep ==
  ASSUME CpInv, NEW w \in Writer, Store(w), step[w] = VersionStep
  PROVE  CpInv'
<1>1. CpTypes'
  BY TypesWriter DEF CpInv
<1>2. step[w] # 0 /\ next[w] = NextVersion(shm.version)
  BY DEF Store, CpInv, OneWriter
<1>3. shm'.version = NextVersion(shm.version)
  <2>1. shm' = [shm EXCEPT !.version = next[w]] /\ shm \in Block
    BY <1>2, StoredType DEF Store, CpInv, CpTypes, CpTypeOK
  <2> QED BY <1>2, <2>1 DEF Block
<1>4. \A u \in Writer : step'[u] = 0
  <2>1. \A u \in Writer : u # w => step[u] = 0
    BY <1>2 DEF CpInv, OneWriter
  <2>2. step' = [step EXCEPT ![w] = 0] /\ step \in [Writer -> 0 .. VersionStep]
    BY DEF Store, CpInv, CpTypes, CpTypeOK
  <2> QED BY <2>1, <2>2
<1>5. Active /\ ~Active'
  BY <1>2, <1>4 DEF Active
<1>6. UNCHANGED <<next, starting, ver, copy, last_applied_, publications>>
  BY DEF Store, boundVars
<1>7. Left \in Nat /\ Left' \in Nat /\ Left = Left' + 1
  <2>1. /\ publications' = publications
        /\ Left = MaxPublish - publications + 1
        /\ Left' = MaxPublish - publications'
    BY <1>5, <1>6, LeftType DEF Left
  <2>2. publications \in 0 .. MaxPublish /\ MaxPublish \in Nat
    BY Constants DEF CpInv, CpTypes
  <2> QED BY <2>1, <2>2
<1>8. \/ w = vgw /\ gpc = "seeding" /\ gpc' = "ready" /\ last_applied_ = 0 /\ w \notin Publisher
      \/ w # vgw /\ gpc' = gpc /\ gpc \notin {"created", "seeding"}
  <2>1. vgw \in Writer /\ vgw \notin Publisher /\ gpc # "created"
    BY <1>5, Constants DEF Writer, CpInv, OneWriter
  <2>2. CASE w = vgw
    BY <1>2, <2>1, <2>2 DEF Store, CpInv, OneWriter, Reader
  <2>3. CASE w # vgw
    BY <1>2, <2>1, <2>3 DEF Store, CpInv, OneWriter
  <2> QED BY <2>2, <2>3
<1>9. OneWriter'
  BY <1>4, <1>8 DEF OneWriter, Writer
<1>10. ASSUME NEW v \in Version \ {0}, Near(v, shm.version, Left)
       PROVE  Near(v, shm'.version, Left') /\ v # shm'.version
  <2>1. shm.version \in Version \ {0}
    BY <1>10, LeftType DEF Near
  <2>2. /\ Distance(v, shm.version) + Left < VersionSpan - 1
        /\ Distance(v, shm.version) \in Int /\ VersionSpan \in Nat
    BY <1>10, <2>1, Constants DEF Near, Distance, Version
  <2>3. Distance(v, shm.version) + 1 < VersionSpan - 1
    BY <1>7, <2>2
  <2>4. /\ NextVersion(shm.version) # v
        /\ Distance(v, NextVersion(shm.version)) = Distance(v, shm.version) + 1
    BY <2>1, <2>3, Farther
  <2>5. NextVersion(shm.version) # 0
    BY <2>1, NextVersionIs
  <2> QED BY <1>3, <1>7, <2>2, <2>4, <2>5 DEF Near
<1>11. Reader' /\ Vouched'
  <2>1. ver \in Version /\ last_applied_ \in Version
    BY LeftType
  <2>2. last_applied_ # 0 => /\ Near(last_applied_, shm'.version, Left')
                             /\ last_applied_ # shm'.version
    BY <1>10, <2>1 DEF CpInv, Reader
  <2>3. gpc' = "copy" => /\ ver # 0
                         /\ Near(ver, shm'.version, Left')
                         /\ ver # shm'.version
    BY <1>8, <1>10, <2>1 DEF CpInv, Reader
  <2>4. starting \/ gpc' \in {"down", "created", "seeding"} => last_applied_ = 0
    BY <1>8 DEF CpInv, Reader
  <2> QED BY <1>6, <2>2, <2>3, <2>4 DEF Reader, Vouched
<1> QED BY <1>1, <1>9, <1>11 DEF CpInv, Solo

(* A killed publisher leaves the version as it was, and is remembered.     *)
LEMMA KillStep ==
  ASSUME CpInv, NEW w \in Publisher, Kill(w)
  PROVE  CpInv'
<1>1. w \in Writer /\ w # vgw /\ vgw \in Writer
  BY Constants DEF Writer
<1>2. CpTypes'
  BY <1>1, TypesWriter DEF CpInv
<1>3. \A u \in Writer : step'[u] = 0 /\ (u # w => step[u] = 0)
  <2>1. \A u \in Writer : u # w => step[u] = 0
    BY <1>1 DEF Kill, CpInv, OneWriter
  <2>2. step' = [step EXCEPT ![w] = 0] /\ step \in [Writer -> 0 .. VersionStep]
    BY DEF Kill, CpInv, CpTypes, CpTypeOK
  <2> QED BY <1>1, <2>1, <2>2
<1>4. Active /\ ~Active'
  BY <1>1, <1>3 DEF Active, Kill
<1>5. UNCHANGED <<shm, next, gpc, starting, ver, copy, last_applied_, publications>>
      /\ interrupted'
  BY DEF Kill, shmVars, readerVars, boundVars
<1>6. Left \in Nat /\ Left' \in Nat /\ Left = Left' + 1
  <2>1. /\ publications' = publications
        /\ Left = MaxPublish - publications + 1
        /\ Left' = MaxPublish - publications'
    BY <1>4, <1>5, LeftType DEF Left
  <2>2. publications \in 0 .. MaxPublish /\ MaxPublish \in Nat
    BY Constants DEF CpInv, CpTypes
  <2> QED BY <2>1, <2>2
<1>7. OneWriter'
  BY <1>1, <1>3, <1>4, <1>5 DEF OneWriter, CpInv, Writer
<1>8. ASSUME NEW v \in Version, Near(v, shm.version, Left)
      PROVE  Near(v, shm'.version, Left')
  <2>1. Distance(v, shm.version) \in Int /\ VersionSpan \in Nat
    BY LeftType, Constants DEF Distance, Version
  <2> QED BY <1>5, <1>6, <1>8, <2>1 DEF Near
<1>9. Reader'
  BY <1>5, <1>8, LeftType DEF CpInv, Reader
<1>10. Vouched'
  BY <1>5 DEF Vouched
<1> QED BY <1>2, <1>7, <1>9, <1>10 DEF CpInv, Solo

(* A complete copy that agrees with the block is what the block says. *)
LEMMA CopyComplete ==
  ASSUME CpTypes, Agrees, copy.read = 2, Len(copy.endpoints) = copy.count
  PROVE  copy.policy = shm.policy /\ copy.endpoints = SubSeq(shm.endpoints, 1, shm.count)
<1> DEFINE S == Endpoint \cup {Zero}
           s == shm.endpoints
           n == shm.count
           c == copy.endpoints
<1>1. s \in [1 .. MaxEp -> S] /\ n \in 0 .. MaxEp /\ MaxEp \in Nat
  BY Constants DEF CpTypes, CpTypeOK, Block, Slots
<1>2. c \in Seq(S)
  BY DEF CpTypes, CopyType
<1>3. /\ copy.policy = shm.policy /\ Len(c) = n
      /\ \A i \in 1 .. Len(c) : c[i] = s[i]
  BY DEF Agrees
<1> HIDE DEF S, s, n, c
<1>4. s \in Seq(S) /\ Len(s) = MaxEp
  BY <1>1
<1>5. /\ SubSeq(s, 1, n) \in Seq(S)
      /\ Len(SubSeq(s, 1, n)) = n
      /\ \A i \in 1 .. n : SubSeq(s, 1, n)[i] = s[i]
  BY <1>1, <1>4
<1> DEFINE t == SubSeq(s, 1, n)
<1> HIDE DEF t
<1>6. t \in Seq(S) /\ Len(t) = Len(c) /\ \A i \in 1 .. Len(t) : t[i] = c[i]
  BY <1>3, <1>5 DEF t
<1>7. t = c
  BY <1>2, <1>6, SeqEqual
<1> QED BY <1>3, <1>7 DEF s, n, c, t

(* poll_apply: what it finds, copies and applies. *)
LEMMA PollStep ==
  ASSUME CpInv, PollBegin \/ PollCopy \/ PollEnd
  PROVE  CpInv'
<1>1. CpTypes'
  BY TypesGateway DEF CpInv
<1>2. /\ UNCHANGED <<shm, step, next, publications>>
      /\ UNCHANGED interrupted
      /\ gpc \in {"ready", "copy"} /\ gpc' \in {"ready", "copy"}
  BY DEF PollBegin, PollCopy, PollEnd, shmVars, writerVars, boundVars
<1>3. Active' = Active /\ Left' = Left
  BY <1>2, Undisturbed
<1>4. OneWriter'
  BY <1>2, Undisturbed DEF OneWriter, CpInv
<1>5. ASSUME NEW v, v = shm.version, v # 0 PROVE Near(v, shm.version, Left)
  <2>1. Left <= MaxPublish
    <3>1. CASE ~Active
      BY <3>1, LeftType
    <3>2. CASE Active
      <4>1. publications # 0
        BY <1>2, <3>2 DEF CpInv, OneWriter, Active, Writer
      <4> QED BY <3>2, <4>1, LeftType
    <3> QED BY <3>1, <3>2
  <2>2. shm.version \in Int
    BY LeftType, Constants DEF Version
  <2> QED BY <1>5, <2>1, <2>2, LeftType, Constants DEF Near, Distance
<1>6. CASE PollCopy
  <2>1. UNCHANGED <<nodes_, policy_, gpc, starting, ver, last_applied_>>
    BY <1>6 DEF PollCopy, upstreamVars
  <2>2. Agrees => Agrees'
    BY <1>6, CopyStep DEF CpInv
  <2>3. Reader'
    BY <1>2, <1>3, <2>1 DEF CpInv, Reader
  <2>4. Vouched'
    BY <1>2, <1>3, <2>1, <2>2 DEF CpInv, Vouched, Applied
  <2> QED BY <1>1, <1>4, <2>3, <2>4 DEF CpInv, Solo
<1>7. CASE PollBegin
  <2>1. last_applied_' = last_applied_
    BY <1>7 DEF PollBegin
  <2>2. CASE ~shm.magic \/ shm.version \in {0, last_applied_}
    <3>1. gpc' = "ready" /\ starting' = FALSE
      BY <1>7, <2>2 DEF PollBegin, NotApplied
    <3>2. last_applied_ # 0 => UNCHANGED <<nodes_, policy_>>
      BY <1>7, <2>2 DEF PollBegin, NotApplied, upstreamVars, CpInv, Reader
    <3>3. Reader'
      BY <1>2, <1>3, <2>1, <3>1 DEF CpInv, Reader
    <3>4. Vouched'
      BY <1>2, <1>3, <2>1, <3>1, <3>2 DEF CpInv, Vouched, Applied
    <3> QED BY <1>1, <1>4, <3>3, <3>4 DEF CpInv, Solo
  <2>3. CASE ~(~shm.magic \/ shm.version \in {0, last_applied_})
    <3>1. /\ ver' = shm.version /\ ver' # 0 /\ copy' = NoCopy /\ gpc' = "copy"
          /\ UNCHANGED <<nodes_, policy_, starting>>
      BY <1>7, <2>3 DEF PollBegin, upstreamVars
    <3>2. Agrees'
      BY <3>1 DEF Agrees, NoCopy
    <3>3. Reader'
      BY <1>2, <1>3, <1>5, <2>1, <3>1 DEF CpInv, Reader
    <3>4. Vouched'
      BY <1>2, <1>3, <2>1, <3>1, <3>2 DEF CpInv, Vouched, Applied
    <3> QED BY <1>1, <1>4, <3>3, <3>4 DEF CpInv, Solo
  <2> QED BY <2>2, <2>3
<1>8. CASE PollEnd
  <2>1. /\ gpc = "copy" /\ gpc' = "ready" /\ starting' = FALSE
        /\ copy.read = 2 /\ Len(copy.endpoints) = copy.count
    BY <1>8 DEF PollEnd, NotApplied
  <2>2. CASE shm.version = ver
    <3>1. last_applied_' = ver /\ policy_' = copy.policy /\ nodes_' = copy.endpoints
      BY <1>8, <2>2 DEF PollEnd, Set
    <3>2. Agrees => Applied'
      BY <1>2, <2>1, <3>1, CopyComplete DEF CpInv, Applied
    <3>3. Reader'
      BY <1>2, <1>3, <2>1, <3>1 DEF CpInv, Reader
    <3>4. Vouched'
      BY <1>2, <1>3, <2>1, <2>2, <3>1, <3>2 DEF CpInv, Vouched
    <3> QED BY <1>1, <1>4, <3>3, <3>4 DEF CpInv, Solo
  <2>3. CASE shm.version # ver
    <3>1. last_applied_' = last_applied_
      BY <1>8, <2>3 DEF PollEnd
    <3>2. last_applied_ # 0 => UNCHANGED <<nodes_, policy_>>
      BY <1>8, <2>3 DEF PollEnd, NotApplied, upstreamVars, CpInv, Reader
    <3>3. Reader'
      BY <1>2, <1>3, <2>1, <3>1 DEF CpInv, Reader
    <3>4. Vouched'
      BY <1>2, <1>3, <2>1, <3>1, <3>2 DEF CpInv, Vouched, Applied
    <3> QED BY <1>1, <1>4, <3>3, <3>4 DEF CpInv, Solo
  <2> QED BY <2>2, <2>3
<1> QED BY <1>6, <1>7, <1>8

(* open: nothing has been applied while the gateway attaches to the block  *)
(* or creates it, and it creates and clears it alone.                      *)
LEMMA OpenStep ==
  ASSUME CpInv, Attach \/ OpenFails \/ Create
  PROVE  CpInv'
<1>1. CpTypes'
  BY TypesGateway DEF CpInv
<1>2. /\ UNCHANGED <<shm, step, next, publications>>
      /\ gpc = "down" /\ gpc' \in {"down", "ready", "created"}
      /\ last_applied_' = last_applied_
  BY DEF Attach, OpenFails, Create, cpVars, shmVars, writerVars, readerVars, boundVars
<1>3. last_applied_ = 0 /\ step[vgw] = 0
  BY <1>2 DEF CpInv, Reader, OneWriter
<1>4. gpc' = "created" => ~Active
  <2>1. gpc' = "created" => Create
    BY <1>2 DEF Attach, OpenFails, cpVars, readerVars
  <2> QED BY <2>1, LeftType DEF Create, MayWrite, Active
<1>5. OneWriter'
  BY <1>2, <1>3, <1>4, Undisturbed DEF OneWriter, CpInv
<1>6. Reader' /\ Vouched'
  BY <1>2, <1>3 DEF Reader, Vouched
<1> QED BY <1>1, <1>5, <1>6 DEF CpInv, Solo

(* memset, and the gateway becomes the writer. *)
LEMMA ClearStep ==
  ASSUME CpInv, Clear
  PROVE  CpInv'
<1>1. CpTypes' /\ vgw \in Writer /\ vgw \notin Publisher
  BY TypesGateway, Constants DEF CpInv, Writer
<1>2. /\ gpc = "created" /\ gpc' = "seeding"
      /\ last_applied_' = last_applied_ /\ last_applied_ = 0
  BY DEF Clear, CpInv, Reader
<1>3. /\ step'[vgw] = 1 /\ next'[vgw] = 1
      /\ \A u \in Writer : u # vgw => step'[u] = 0
  BY <1>1, <1>2 DEF Clear, CpInv, CpTypes, CpTypeOK, OneWriter, Active
<1>4. shm'.version = 0 /\ NextVersion(0) = 1
  <2>1. 0 \in Version /\ VersionSpan \in Nat /\ VersionSpan > 1
    BY Constants DEF Version
  <2>2. NextVersion(0) = 1
    BY <2>1, NextVersionIs
  <2> QED BY <2>2 DEF Clear, Zeroed
<1>5. OneWriter'
  BY <1>1, <1>2, <1>3, <1>4 DEF OneWriter, Writer
<1>6. Reader' /\ Vouched'
  BY <1>2 DEF Reader, Vouched
<1> QED BY <1>1, <1>5, <1>6 DEF CpInv, Solo

(* A gateway that is started again has applied nothing. *)
LEMMA RestartStep ==
  ASSUME CpInv, Restart
  PROVE  CpInv'
<1>1. CpTypes' /\ vgw \in Writer
  BY TypesGateway DEF CpInv, Writer
<1>2. UNCHANGED <<shm, next, publications>> /\ gpc' = "down" /\ last_applied_' = 0
  BY DEF Restart, shmVars
<1>3. step'[vgw] = 0 /\ \A u \in Writer : u # vgw => step'[u] = step[u]
  BY <1>1 DEF Restart, CpInv, CpTypes, CpTypeOK
<1>4. \A u \in Writer : step'[u] # 0 => step[u] # 0
  BY <1>3
<1>5. OneWriter'
  BY <1>2, <1>3, <1>4 DEF OneWriter, CpInv, Writer
<1>6. Reader' /\ Vouched'
  BY <1>2 DEF Reader, Vouched
<1> QED BY <1>1, <1>5, <1>6 DEF CpInv, Solo

(* Every step of the control plane keeps the invariant. *)
LEMMA CpInvNext == CpInv /\ [CpNext]_cpVars => CpInv'
<1> SUFFICES ASSUME CpInv, [CpNext]_cpVars PROVE CpInv'
  OBVIOUS
<1>1. ASSUME NEW w \in Writer, Store(w) PROVE CpInv'
  BY <1>1, StoreFieldStep, StoreVersionStep
<1>2. CASE GatewayStep
  <2>1. vgw \in Writer
    BY DEF Writer
  <2> QED BY <1>1, <1>2, <2>1, OpenStep, ClearStep, PollStep DEF GatewayStep
<1>3. CASE Restart
  BY <1>3, RestartStep
<1>4. ASSUME NEW w \in Publisher,
             (\E c \in Config : PublishBegin(w, c)) \/ Store(w) \/ Kill(w)
      PROVE  CpInv'
  BY <1>1, <1>4, PublishBeginStep, KillStep DEF Writer
<1>5. CASE UNCHANGED cpVars
  <2>1. /\ UNCHANGED <<shm, step, next, publications, interrupted, exists, config>>
        /\ UNCHANGED <<nodes_, policy_, gpc, starting, ver, copy, last_applied_>>
    BY <1>5 DEF cpVars, upstreamVars, shmVars, writerVars, readerVars, boundVars
  <2>2. Active' = Active /\ Left' = Left
    BY <2>1, Undisturbed, SMTT(20)
  <2>3. CpTypes'
    BY <2>1, Zenon DEF CpInv, CpTypes, CpTypeOK, CopyType
  <2>4. OneWriter'
    BY <2>1, Undisturbed DEF CpInv, OneWriter
  <2>5. Reader'
    BY <2>1, <2>2 DEF CpInv, Reader
  <2>6. Vouched'
    <3>1. Agrees' = Agrees /\ Applied' = Applied
      BY <2>1 DEF Agrees, Applied
    <3> QED BY <2>1, <2>2, <3>1, SMTT(20) DEF CpInv, Vouched
  <2> QED BY <2>3, <2>4, <2>5, <2>6 DEF CpInv, Solo
<1> QED BY <1>2, <1>3, <1>4, <1>5 DEF CpNext

-----------------------------------------------------------------------------
(* The theorems. *)

(* The types hold however writers overlap. *)
LEMMA TypesNext == CpTypes /\ [CpNext]_cpVars => CpTypes'
<1> SUFFICES ASSUME CpTypes, [CpNext]_cpVars PROVE CpTypes'
  OBVIOUS
<1>1. CASE GatewayStep
  BY <1>1, TypesGateway, TypesWriter DEF GatewayStep, Writer
<1>2. CASE Restart
  BY <1>2, TypesGateway
<1>3. ASSUME NEW w \in Publisher,
             (\E c \in Config : PublishBegin(w, c)) \/ Store(w) \/ Kill(w)
      PROVE  CpTypes'
  BY <1>3, TypesWriter, SMTT(20) DEF Writer
<1>4. CASE UNCHANGED cpVars
  BY <1>4 DEF CpTypes, CpTypeOK, CopyType, cpVars, upstreamVars, shmVars, writerVars,
              readerVars, boundVars
<1> QED BY <1>1, <1>2, <1>3, <1>4 DEF CpNext

(* The block, the writers' and the reader's variables keep their types:    *)
(* a version, a count and a number of copied endpoints never leave their   *)
(* ranges, also when publishers overlap and are killed (publish and        *)
(* poll_apply of cp_shm.cpp, publish of vgwcp).                            *)
THEOREM CpTyped == CpSpec => []CpTypeOK
<1>1. CpTypes => CpTypeOK
  BY DEF CpTypes
<1> QED BY <1>1, TypesInit, TypesNext, PTL DEF CpSpec

(* While publishers take turns and fewer publications are made than there  *)
(* are versions, a gateway whose last applied version is the block's has   *)
(* applied the block's content, unless a writer is at work or died since   *)
(* the last bump (the re-check of version at the end of poll_apply).       *)
THEOREM CpQuiescentApplied == Solo /\ CpSpec => []QuiescentApplied
<1>1. CpInv => QuiescentApplied
  BY DEF CpInv, Vouched, QuiescentApplied, Quiet, Active
<1> QED BY <1>1, CpInvInit, CpInvNext, PTL DEF CpSpec
=============================================================================
