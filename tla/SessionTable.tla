---------------------------- MODULE SessionTable ----------------------------
(***************************************************************************)
(* The bidirectional UDP session table (src/session.hpp, session.cpp):     *)
(* the vector of sessions, the forward and reverse maps, and the SNAT port *)
(* allocator.  The table belongs to the worker thread; its operations are  *)
(* called by the forwarder (lookup, create, touch) and by the worker loop  *)
(* (expire).                                                               *)
(*                                                                         *)
(* Session objects live on a heap indexed by pointers, and both maps hold  *)
(* pointers, so a map entry that outlives `delete s` is visible as a       *)
(* pointer to a freed cell.  An absent map entry is nullptr, which is what *)
(* a lookup returns for it.  last_active_ms is kept as the time since it,  *)
(* capped at IdleTimeout: expire only asks whether that time has reached   *)
(* the timeout.                                                            *)
(***************************************************************************)
EXTENDS Integers, Sequences, Flows

CONSTANTS
  SnatBegin,    \* snat_port_begin of the constructor
  SnatEndArg,   \* snat_port_end of the constructor, exclusive
  IdleTimeout,  \* idle_timeout_ms in model time units
  Ptr           \* addresses `new Session` can return

(* The constructor widens an empty range to one port. *)
SnatEnd == IF SnatEndArg <= SnatBegin THEN SnatBegin + 1 ELSE SnatEndArg

Port == SnatBegin .. (SnatEnd - 1)

Session == [key : FlowKey, up : Endpoint, snat : Port, idle : 0 .. IdleTimeout]

ReverseKey == Endpoint \X Port

ASSUME SessionTableAssumption ==
  /\ SnatBegin \in Nat \ {0}
  /\ SnatEndArg \in Nat
  /\ SnatEnd <= 65535
  /\ IdleTimeout \in Nat \ {0}
  /\ nullptr \notin Ptr
  /\ nullptr \notin Session

VARIABLES
  heap,         \* live session objects
  sessions_,    \* vector of all sessions
  forward_,     \* client -> VIP key to session
  reverse_,     \* upstream -> gateway key to session
  free_ports_,  \* stack of returned ports
  port_in_use_, \* ports marked in use
  snat_next_,   \* next port the scan tries
  cursor        \* index of the running expire loop, 0 outside of it

tableVars == <<heap, sessions_, forward_, reverse_,
               free_ports_, port_in_use_, snat_next_, cursor>>

Live == {s \in Ptr : heap[s] # nullptr}

TableTypeOK ==
  /\ heap \in [Ptr -> Session \cup {nullptr}]
  /\ sessions_ \in Seq(Ptr)
  /\ forward_ \in [FlowKey -> Ptr \cup {nullptr}]
  /\ reverse_ \in [ReverseKey -> Ptr \cup {nullptr}]
  /\ free_ports_ \in Seq(Port)
  /\ port_in_use_ \subseteq Port
  /\ snat_next_ \in Port
  /\ cursor \in Nat

TableInit ==
  /\ heap = [s \in Ptr |-> nullptr]
  /\ sessions_ = <<>>
  /\ forward_ = [k \in FlowKey |-> nullptr]
  /\ reverse_ = [r \in ReverseKey |-> nullptr]
  /\ free_ports_ = <<>>
  /\ port_in_use_ = {}
  /\ snat_next_ = SnatBegin
  /\ cursor = 0

-----------------------------------------------------------------------------
(* std::vector: the last element, and what pop_back and erase leave. *)

Back(q) == q[Len(q)]
PopBack(q) == SubSeq(q, 1, Len(q) - 1)
Erase(q, i) == SubSeq(q, 1, i - 1) \o SubSeq(q, i + 1, Len(q))

-----------------------------------------------------------------------------
(* SNAT ports *)

ProbedLateWrap(n) ==
  IF snat_next_ + n <= SnatEnd
    THEN snat_next_ + n
    ELSE snat_next_ + n - (SnatEnd - SnatBegin)

ProbedEarlyWrap(n) ==
  SnatBegin + ((snat_next_ + n - SnatBegin) % (SnatEnd - SnatBegin - 1))

(* The port that iteration n of the scan loop tries. *)
Probed(n) ==
  IF snat_next_ + n < SnatEnd
    THEN snat_next_ + n
    ELSE snat_next_ + n - (SnatEnd - SnatBegin)

(* alloc_snat_port() returns 0. *)
AllocFails ==
  /\ free_ports_ = <<>>
  /\ \A n \in 0 .. (SnatEnd - SnatBegin - 1) : Probed(n) \in port_in_use_

(* alloc_snat_port() returns p: the last port returned, or else the first  *)
(* unused port met by the scan, which then resumes behind it.              *)
AllocSnatPort(p) ==
  /\ \/ /\ free_ports_ # <<>>
        /\ p = Back(free_ports_)
        /\ free_ports_' = PopBack(free_ports_)
        /\ UNCHANGED snat_next_
     \/ /\ free_ports_ = <<>>
        /\ \E n \in 0 .. (SnatEnd - SnatBegin - 1) :
             /\ p = Probed(n)
             /\ p \notin port_in_use_
             /\ \A j \in 0 .. (n - 1) : Probed(j) \in port_in_use_
             /\ snat_next_' = Probed(n + 1)
        /\ UNCHANGED free_ports_
  /\ port_in_use_' = port_in_use_ \cup {p}

FreeOnStackOnly(p) ==
  /\ UNCHANGED port_in_use_
  /\ free_ports_' = Append(free_ports_, p)

FreeSnatPort(p) ==
  IF p \in port_in_use_
    THEN /\ port_in_use_' = port_in_use_ \ {p}
         /\ free_ports_' = Append(free_ports_, p)
    ELSE UNCHANGED <<port_in_use_, free_ports_>>

-----------------------------------------------------------------------------
(* Operations *)

(* create(k, u) for a flow whose lookup missed, the only way it is called. *)
Create(k, u) ==
  /\ cursor = 0
  /\ forward_[k] = nullptr
  /\ \E p \in Port, s \in Ptr :
       /\ heap[s] = nullptr
       /\ AllocSnatPort(p)
       /\ heap' = [heap EXCEPT ![s] = [key |-> k, up |-> u, snat |-> p, idle |-> 0]]
       /\ sessions_' = Append(sessions_, s)
       /\ forward_' = [forward_ EXCEPT ![k] = s]
       /\ reverse_' = [reverse_ EXCEPT ![<<u, p>>] = s]
  /\ UNCHANGED cursor

(* create(k, u) returns nullptr.  A scan that fails has gone round once,   *)
(* so snat_next_ is back where it was.                                     *)
CreateFails(k) ==
  /\ cursor = 0
  /\ forward_[k] = nullptr
  /\ AllocFails
  /\ UNCHANGED tableVars

(* touch(s) on a pointer that a lookup returned. *)
Touch(s) ==
  /\ cursor = 0
  /\ s # nullptr
  /\ heap' = [heap EXCEPT ![s].idle = 0]
  /\ UNCHANGED <<sessions_, forward_, reverse_,
                 free_ports_, port_in_use_, snat_next_, cursor>>

EraseForwardOnly(s) ==
  /\ forward_' = [forward_ EXCEPT ![heap[s].key] = nullptr]
  /\ UNCHANGED reverse_

EraseFromMaps(s) ==
  /\ forward_' = [forward_ EXCEPT ![heap[s].key] = nullptr]
  /\ reverse_' = [reverse_ EXCEPT ![<<heap[s].up, heap[s].snat>>] = nullptr]

LeaveInVector(s) == UNCHANGED sessions_

EraseFromVector(s) ==
  \E i \in 1 .. Len(sessions_) :
    /\ sessions_[i] = s
    /\ \A j \in 1 .. (i - 1) : sessions_[j] # s
    /\ sessions_' = Erase(sessions_, i)

EraseSession(s) ==
  /\ EraseFromMaps(s)
  /\ FreeSnatPort(heap[s].snat)
  /\ EraseFromVector(s)
  /\ heap' = [heap EXCEPT ![s] = nullptr]
  /\ UNCHANGED snat_next_

(* expire(): one step per iteration of its loop over sessions_. *)
ExpireBegin ==
  /\ cursor = 0
  /\ cursor' = 1
  /\ UNCHANGED <<heap, sessions_, forward_, reverse_,
                 free_ports_, port_in_use_, snat_next_>>

ExpireEraseEarly ==
  /\ cursor \in 1 .. Len(sessions_)
  /\ heap[sessions_[cursor]].idle + 1 >= IdleTimeout
  /\ EraseSession(sessions_[cursor])
  /\ UNCHANGED cursor

ExpireErase ==
  /\ cursor \in 1 .. Len(sessions_)
  /\ heap[sessions_[cursor]].idle >= IdleTimeout
  /\ EraseSession(sessions_[cursor])
  /\ UNCHANGED cursor

ExpireKeep ==
  /\ cursor \in 1 .. Len(sessions_)
  /\ heap[sessions_[cursor]].idle < IdleTimeout
  /\ cursor' = cursor + 1
  /\ UNCHANGED <<heap, sessions_, forward_, reverse_,
                 free_ports_, port_in_use_, snat_next_>>

ExpireEnd ==
  /\ cursor > Len(sessions_)
  /\ cursor' = 0
  /\ UNCHANGED <<heap, sessions_, forward_, reverse_,
                 free_ports_, port_in_use_, snat_next_>>

ExpireLoop == ExpireErase \/ ExpireKeep \/ ExpireEnd

(* now_ms advances by d between two calls into the table. *)
IdleFor(d) ==
  /\ cursor = 0
  /\ heap' = [s \in Ptr |->
       IF heap[s] = nullptr THEN nullptr
       ELSE [heap[s] EXCEPT !.idle =
               IF @ + d < IdleTimeout THEN @ + d ELSE IdleTimeout]]
  /\ UNCHANGED <<sessions_, forward_, reverse_,
                 free_ports_, port_in_use_, snat_next_, cursor>>

TableNext ==
  \/ \E k \in FlowKey, u \in Endpoint : Create(k, u)
  \/ \E k \in FlowKey : CreateFails(k)
  \/ \E k \in FlowKey : Touch(forward_[k])
  \/ \E r \in ReverseKey : Touch(reverse_[r])
  \/ ExpireBegin
  \/ ExpireLoop
  \/ \E d \in 0 .. IdleTimeout : IdleFor(d)

TableSpec == TableInit /\ [][TableNext]_tableVars

-----------------------------------------------------------------------------
(* Properties *)

(* sessions_ lists every live session exactly once: what create pushes and *)
(* erase_session removes while the expire loop is walking the vector.      *)
ListExact ==
  /\ \A i, j \in 1 .. Len(sessions_) : sessions_[i] = sessions_[j] => i = j
  /\ \A i \in 1 .. Len(sessions_) : sessions_[i] \in Live
  /\ \A s \in Live : \E i \in 1 .. Len(sessions_) : sessions_[i] = s

(* forward_ and reverse_ point at live sessions only, each under the       *)
(* session's own key, and every live session is in both: no lookup returns *)
(* a session that erase_session deleted, and none is unreachable.          *)
MapsAgree ==
  /\ \A k \in FlowKey : forward_[k] # nullptr =>
       forward_[k] \in Live /\ heap[forward_[k]].key = k
  /\ \A r \in ReverseKey : reverse_[r] # nullptr =>
       /\ reverse_[r] \in Live
       /\ <<heap[reverse_[r]].up, heap[reverse_[r]].snat>> = r
  /\ \A s \in Live :
       /\ forward_[heap[s].key] = s
       /\ reverse_[<<heap[s].up, heap[s].snat>>] = s

(* A SNAT port belongs to at most one session, whatever the upstream; the  *)
(* ports marked in use are exactly those; the stack of returned ports has  *)
(* no duplicate and no port that is in use.                                *)
PortsExclusive ==
  /\ \A s, t \in Live : heap[s].snat = heap[t].snat => s = t
  /\ \A s \in Live : heap[s].snat \in port_in_use_
  /\ \A p \in port_in_use_ : \E s \in Live : heap[s].snat = p
  /\ \A i, j \in 1 .. Len(free_ports_) : free_ports_[i] = free_ports_[j] => i = j
  /\ \A i \in 1 .. Len(free_ports_) : free_ports_[i] \notin port_in_use_

(* create() returns nullptr only "if SNAT ports are exhausted"             *)
(* (session.hpp): whenever alloc_snat_port() would return 0, every port of *)
(* the range is held by a live session.  No port is lost by the stack, the *)
(* in-use marks and the scan together.                                     *)
FailsOnlyExhausted ==
  AllocFails => \A p \in Port : \E s \in Live : heap[s].snat = p

(* The table as its callers see it: the session that a forward lookup      *)
(* finds for each flow.                                                    *)
Bindings ==
  [k \in FlowKey |->
    IF forward_[k] = nullptr THEN nullptr ELSE heap[forward_[k]]]

NatTable == INSTANCE NatBinding WITH None <- nullptr, binding <- Bindings

(* Every behaviour of the table is one of NatBinding: create gives a flow  *)
(* a port no other flow holds, touch through either map renews the flow    *)
(* that owns the session, and expire takes a binding away only from a flow *)
(* idle for the whole timeout.                                             *)
ImplementsNat == NatTable!Spec
=============================================================================
