--------------------------- MODULE NeighborTable ---------------------------
(***************************************************************************)
(* The neighbor cache (src/neighbor.cpp).  An entry is the time since it   *)
(* was learned, up to MaxAge, and whether it is static; the MAC it holds   *)
(* is left out here, since no decision of the gateway depends on which MAC *)
(* an address has (module FramePath follows the MACs).                     *)
(***************************************************************************)
EXTENDS Integers, Flows

CONSTANTS
  Ip,            \* IPv4 addresses
  StaticIp,      \* addresses seeded by init_services
  EntryTimeout,  \* entry_timeout_ms in model time units
  MaxAge         \* bound of the model: ages from here on are not told apart

ASSUME NeighborAssumption ==
  /\ StaticIp \subseteq Ip
  /\ EntryTimeout \in Nat \ {0}
  /\ MaxAge \in Nat /\ MaxAge >= EntryTimeout

VARIABLE entries_

Entry == [is_static : BOOLEAN, age : 0 .. MaxAge]

NeighborTypeOK == entries_ \in [Ip -> Entry \cup {nullptr}]

NeighborInit ==
  entries_ = [ip \in Ip |-> IF ip \in StaticIp
                              THEN [is_static |-> TRUE, age |-> 0]
                              ELSE nullptr]

(* lookup(ip) in a table finds an entry, however old. *)
Lookup(table, ip) == table[ip] # nullptr

(* entries_ after learn(ip). *)
Learned(ip) ==
  IF Lookup(entries_, ip) /\ entries_[ip].is_static
    THEN entries_
    ELSE [entries_ EXCEPT ![ip] = [is_static |-> FALSE, age |-> 0]]

UnexpiredLate ==
  [ip \in Ip |->
    IF /\ entries_[ip] # nullptr
       /\ ~entries_[ip].is_static
       /\ entries_[ip].age > EntryTimeout
      THEN nullptr
      ELSE entries_[ip]]

(* entries_ after expire(). *)
Unexpired ==
  [ip \in Ip |->
    IF /\ entries_[ip] # nullptr
       /\ ~entries_[ip].is_static
       /\ entries_[ip].age >= EntryTimeout
      THEN nullptr
      ELSE entries_[ip]]

(* entries_ when now_ms is d later. *)
Aged(d) ==
  [ip \in Ip |->
    IF entries_[ip] = nullptr \/ entries_[ip].is_static
      THEN entries_[ip]
      ELSE [entries_[ip] EXCEPT !.age =
              IF @ + d < MaxAge THEN @ + d ELSE MaxAge]]
=============================================================================
