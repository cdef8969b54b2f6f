------------------------- MODULE SessionTableProofs -------------------------
(***************************************************************************)
(* Proofs about SessionTable for every set of flows, endpoints and         *)
(* pointers, every port range and every idle timeout.                      *)
(***************************************************************************)
EXTENDS SessionTable, SequenceTheorems, TLAPS

(* The inductive invariant of the table. *)
TableInv == TableTypeOK /\ ListExact /\ MapsAgree /\ PortsExclusive

-----------------------------------------------------------------------------
(* What the vector and stack operations do to a sequence. *)

(* PopBack drops the last element and nothing else. *)
LEMMA PopBackFacts ==
  ASSUME NEW S, NEW q \in Seq(S), q # <<>>
  PROVE  /\ PopBack(q) \in Seq(S)
         /\ Len(PopBack(q)) = Len(q) - 1
         /\ \A i \in 1 .. (Len(q) - 1) : PopBack(q)[i] = q[i]
         /\ Len(q) \in Nat \ {0}
         /\ Back(q) = q[Len(q)]
         /\ Back(q) \in S
<1>1. Len(q) \in Nat \ {0} /\ \A i \in 1 .. Len(q) : q[i] \in S
  BY EmptySeq, ElementOfSeq
<1>2. \A i \in 1 .. (Len(q) - 1) : q[i] \in S
  BY <1>1
<1>3. /\ SubSeq(q, 1, Len(q) - 1) \in Seq(S)
      /\ Len(SubSeq(q, 1, Len(q) - 1)) =
           IF 1 <= Len(q) - 1 THEN (Len(q) - 1) - 1 + 1 ELSE 0
      /\ \A i \in 1 .. ((Len(q) - 1) - 1 + 1) :
           SubSeq(q, 1, Len(q) - 1)[i] = q[1 + i - 1]
  BY <1>1, <1>2, SubSeqProperties
<1>4. PopBack(q) = SubSeq(q, 1, Len(q) - 1)
  BY DEF PopBack
<1>5. Back(q) = q[Len(q)]
  BY DEF Back
<1>6. Len(PopBack(q)) = Len(q) - 1
  <2> DEFINE m == Len(SubSeq(q, 1, Len(q) - 1))
             n == Len(q)
  <2>1. m = (IF 1 <= n - 1 THEN (n - 1) - 1 + 1 ELSE 0) /\ n \in Nat \ {0}
    BY <1>1, <1>3
  <2>2. m = Len(PopBack(q))
    BY <1>4
  <2> HIDE DEF m, n
  <2>3. m = n - 1
    BY <2>1
  <2> QED
    BY <2>2, <2>3 DEF n
<1>7. ASSUME NEW i \in 1 .. (Len(q) - 1)
      PROVE  PopBack(q)[i] = q[i]
  <2>1. i \in 1 .. ((Len(q) - 1) - 1 + 1) /\ 1 + i - 1 = i
    BY <1>1
  <2> QED
    BY <1>3, <1>4, <2>1
<1>8. Back(q) \in S
  BY <1>1, <1>5
<1> QED
  BY <1>1, <1>3, <1>4, <1>5, <1>6, <1>7, <1>8, SMTT(20)

(* Erase drops the element at i and shifts the ones behind it down. *)
LEMMA EraseFacts ==
  ASSUME NEW S, NEW q \in Seq(S), NEW i \in 1 .. Len(q)
  PROVE  /\ Erase(q, i) \in Seq(S)
         /\ Len(Erase(q, i)) = Len(q) - 1
         /\ \A j \in 1 .. (Len(q) - 1) :
              Erase(q, i)[j] = IF j < i THEN q[j] ELSE q[j + 1]
<1>1. Len(q) \in Nat /\ \A j \in 1 .. Len(q) : q[j] \in S
  BY LenProperties, ElementOfSeq
<1> DEFINE A == SubSeq(q, 1, i - 1)
           B == SubSeq(q, i + 1, Len(q))
<1>2. /\ A \in Seq(S)
      /\ Len(A) = i - 1
      /\ \A j \in 1 .. (i - 1) : A[j] = q[j]
  <2>1. \A j \in 1 .. (i - 1) : q[j] \in S
    BY <1>1
  <2>2. /\ A \in Seq(S)
        /\ Len(A) = IF 1 <= i - 1 THEN (i - 1) - 1 + 1 ELSE 0
        /\ \A j \in 1 .. ((i - 1) - 1 + 1) : A[j] = q[1 + j - 1]
    BY <1>1, <2>1, SubSeqProperties
  <2> QED
    BY <1>1, <2>2
<1>3. /\ B \in Seq(S)
      /\ Len(B) = Len(q) - i
      /\ \A j \in 1 .. (Len(q) - i) : B[j] = q[i + j]
  <2>1. \A j \in (i + 1) .. Len(q) : q[j] \in S
    BY <1>1
  <2>2. /\ B \in Seq(S)
        /\ Len(B) = IF i + 1 <= Len(q) THEN Len(q) - (i + 1) + 1 ELSE 0
        /\ \A j \in 1 .. (Len(q) - (i + 1) + 1) : B[j] = q[(i + 1) + j - 1]
    BY <1>1, <2>1, SubSeqProperties
  <2> QED
    BY <1>1, <2>2
<1>4. /\ A \o B \in Seq(S)
      /\ Len(A \o B) = Len(A) + Len(B)
      /\ \A j \in 1 .. (Len(A) + Len(B)) :
           (A \o B)[j] = IF j <= Len(A) THEN A[j] ELSE B[j - Len(A)]
  BY <1>2, <1>3, ConcatProperties, Zenon
<1>5. Erase(q, i) = A \o B
  BY DEF Erase
<1> HIDE DEF A, B
<1>6. Len(A) + Len(B) = Len(q) - 1
  BY <1>1, <1>2, <1>3
<1>7. ASSUME NEW j \in 1 .. (Len(q) - 1)
      PROVE  Erase(q, i)[j] = IF j < i THEN q[j] ELSE q[j + 1]
  <2>1. (A \o B)[j] = IF j <= Len(A) THEN A[j] ELSE B[j - Len(A)]
    BY <1>4, <1>6
  <2>2. CASE j < i
    <3>1. j <= Len(A) /\ A[j] = q[j]
      BY <1>1, <1>2, <2>2
    <3> QED
      BY <1>5, <2>1, <2>2, <3>1
  <2>3. CASE ~(j < i)
    <3>1. ~(j <= Len(A)) /\ j - Len(A) \in 1 .. (Len(q) - i) /\ i + (j - Len(A)) = j + 1
      BY <1>1, <1>2, <2>3
    <3>2. B[j - Len(A)] = q[j + 1]
      BY <1>3, <3>1, Zenon
    <3> QED
      BY <1>5, <2>1, <2>3, <3>1, <3>2
  <2> QED
    BY <2>2, <2>3
<1> QED
  BY <1>4, <1>5, <1>6, <1>7

-----------------------------------------------------------------------------
(* The port range. *)

(* The constructor leaves a non-empty range of positive ports. *)
LEMMA RangeFacts ==
  /\ SnatBegin \in Nat \ {0}
  /\ SnatEnd \in Nat
  /\ SnatBegin < SnatEnd
  /\ SnatBegin \in Port
  /\ IdleTimeout \in Nat \ {0}
BY SessionTableAssumption DEF SnatEnd, Port

(* nullptr is neither an address nor a session. *)
LEMMA NullFacts ==
  nullptr \notin Ptr /\ nullptr \notin Session
BY SessionTableAssumption

(* Every iteration of the scan tries a port of the range. *)
LEMMA ProbedInRange ==
  ASSUME snat_next_ \in Port, NEW n \in 0 .. (SnatEnd - SnatBegin)
  PROVE  Probed(n) \in Port
BY RangeFacts DEF Probed, Port

(* The scan tries every port of the range. *)
LEMMA ProbedCovers ==
  ASSUME snat_next_ \in Port, NEW p \in Port
  PROVE  \E n \in 0 .. (SnatEnd - SnatBegin - 1) : Probed(n) = p
<1>1. CASE p >= snat_next_
  <2>1. /\ p - snat_next_ \in 0 .. (SnatEnd - SnatBegin - 1)
        /\ Probed(p - snat_next_) = p
    BY <1>1, RangeFacts DEF Probed, Port
  <2> QED
    BY <2>1
<1>2. CASE p < snat_next_
  <2>1. /\ p - snat_next_ + (SnatEnd - SnatBegin) \in 0 .. (SnatEnd - SnatBegin - 1)
        /\ Probed(p - snat_next_ + (SnatEnd - SnatBegin)) = p
    BY <1>2, RangeFacts DEF Probed, Port
  <2> QED
    BY <2>1
<1> QED
  BY <1>1, <1>2, RangeFacts DEF Port

(* alloc_snat_port hands out an unused port and keeps the stack of         *)
(* returned ports free of duplicates and of used ports.                    *)
LEMMA AllocFacts ==
  ASSUME TableTypeOK, PortsExclusive, NEW p \in Port, AllocSnatPort(p)
  PROVE  /\ p \notin port_in_use_
         /\ port_in_use_' = port_in_use_ \cup {p}
         /\ snat_next_' \in Port
         /\ free_ports_' \in Seq(Port)
         /\ \A i, j \in 1 .. Len(free_ports_') :
              free_ports_'[i] = free_ports_'[j] => i = j
         /\ \A i \in 1 .. Len(free_ports_') : free_ports_'[i] \notin port_in_use_'
<1>1. CASE /\ free_ports_ # <<>>
           /\ p = Back(free_ports_)
           /\ free_ports_' = PopBack(free_ports_)
           /\ UNCHANGED snat_next_
  <2>1. free_ports_ \in Seq(Port)
    BY DEF TableTypeOK
  <2>2. /\ free_ports_' \in Seq(Port)
        /\ Len(free_ports_') = Len(free_ports_) - 1
        /\ \A i \in 1 .. (Len(free_ports_) - 1) : free_ports_'[i] = free_ports_[i]
        /\ Len(free_ports_) \in Nat \ {0}
        /\ p = free_ports_[Len(free_ports_)]
    BY <1>1, <2>1, PopBackFacts
  <2>3. p \notin port_in_use_
    BY <2>2 DEF PortsExclusive
  <2>4. port_in_use_' = port_in_use_ \cup {p}
    BY DEF AllocSnatPort
  <2>5. \A i, j \in 1 .. Len(free_ports_') :
          free_ports_'[i] = free_ports_'[j] => i = j
    BY <2>2 DEF PortsExclusive
  <2>6. \A i \in 1 .. Len(free_ports_') : free_ports_'[i] # p
    BY <2>2 DEF PortsExclusive
  <2>7. \A i \in 1 .. Len(free_ports_') : free_ports_'[i] \notin port_in_use_
    BY <2>2 DEF PortsExclusive
  <2> QED
    BY <1>1, <2>2, <2>3, <2>4, <2>5, <2>6, <2>7, SMTT(20) DEF TableTypeOK
<1>2. CASE /\ free_ports_ = <<>>
           /\ \E n \in 0 .. (SnatEnd - SnatBegin - 1) :
                /\ p = Probed(n)
                /\ p \notin port_in_use_
                /\ \A j \in 0 .. (n - 1) : Probed(j) \in port_in_use_
                /\ snat_next_' = Probed(n + 1)
           /\ UNCHANGED free_ports_
  <2>1. PICK n \in 0 .. (SnatEnd - SnatBegin - 1) :
          p = Probed(n) /\ p \notin port_in_use_ /\ snat_next_' = Probed(n + 1)
    BY <1>2
  <2>2. n + 1 \in 0 .. (SnatEnd - SnatBegin)
    BY <2>1, RangeFacts
  <2>3. snat_next_' \in Port
    BY <2>1, <2>2, ProbedInRange DEF TableTypeOK
  <2>4. free_ports_' = <<>> /\ Len(free_ports_') = 0
    BY <1>2
  <2> QED
    BY <2>1, <2>3, <2>4, EmptySeq DEF AllocSnatPort
<1> QED
  BY <1>1, <1>2 DEF AllocSnatPort

-----------------------------------------------------------------------------
(* The operations preserve the invariant. *)

(* A live cell holds a session. *)
LEMMA LiveFacts ==
  ASSUME TableTypeOK, NEW s \in Live
  PROVE  /\ s \in Ptr
         /\ heap[s] \in Session
         /\ heap[s].key \in FlowKey
         /\ heap[s].up \in Endpoint
         /\ heap[s].snat \in Port
         /\ heap[s].idle \in 0 .. IdleTimeout
         /\ <<heap[s].up, heap[s].snat>> \in ReverseKey
BY DEF TableTypeOK, Live, Session, ReverseKey

(* create() keeps the invariant: the port it takes belongs to no session,  *)
(* and the flow and the reverse key are new.                               *)
LEMMA CreateInv ==
  ASSUME TableInv, NEW k \in FlowKey, NEW u \in Endpoint, Create(k, u)
  PROVE  TableInv'
<1> USE DEF TableInv
<1>1. PICK p \in Port, s \in Ptr :
        /\ heap[s] = nullptr
        /\ AllocSnatPort(p)
        /\ heap' = [heap EXCEPT ![s] = [key |-> k, up |-> u, snat |-> p, idle |-> 0]]
        /\ sessions_' = Append(sessions_, s)
        /\ forward_' = [forward_ EXCEPT ![k] = s]
        /\ reverse_' = [reverse_ EXCEPT ![<<u, p>>] = s]
  BY Zenon DEF Create
<1> DEFINE new == [key |-> k, up |-> u, snat |-> p, idle |-> 0]
<1>2. new \in Session /\ new # nullptr
  BY RangeFacts, NullFacts DEF Session
<1>3. forward_[k] = nullptr /\ cursor' = cursor
  BY DEF Create
<1>4. s \notin Live /\ Live' = Live \cup {s}
  <2>1. \A t \in Ptr : heap'[t] = IF t = s THEN new ELSE heap[t]
    BY <1>1 DEF TableTypeOK
  <2> QED
    BY <1>1, <1>2, <2>1 DEF Live
<1>5. /\ heap'[s] = new
      /\ \A t \in Live : t # s /\ heap'[t] = heap[t]
  BY <1>1, <1>4 DEF TableTypeOK, Live
<1>6. s # nullptr /\ <<u, p>> \in ReverseKey
  BY NullFacts DEF ReverseKey
<1>7. /\ p \notin port_in_use_
      /\ port_in_use_' = port_in_use_ \cup {p}
      /\ snat_next_' \in Port
      /\ free_ports_' \in Seq(Port)
      /\ \A i, j \in 1 .. Len(free_ports_') :
           free_ports_'[i] = free_ports_'[j] => i = j
      /\ \A i \in 1 .. Len(free_ports_') : free_ports_'[i] \notin port_in_use_'
  BY <1>1, AllocFacts
<1>8. /\ sessions_' \in Seq(Ptr)
      /\ Len(sessions_) \in Nat
      /\ Len(sessions_') = Len(sessions_) + 1
      /\ \A i \in 1 .. Len(sessions_) : sessions_'[i] = sessions_[i]
      /\ sessions_'[Len(sessions_) + 1] = s
  BY <1>1, AppendProperties, LenProperties DEF TableTypeOK
<1>9. TableTypeOK'
  <2>1. heap' \in [Ptr -> Session \cup {nullptr}]
    BY <1>1, <1>2 DEF TableTypeOK
  <2>2. forward_' \in [FlowKey -> Ptr \cup {nullptr}]
    BY <1>1 DEF TableTypeOK
  <2>3. reverse_' \in [ReverseKey -> Ptr \cup {nullptr}]
    BY <1>1, Zenon DEF TableTypeOK
  <2> QED
    BY <1>3, <1>7, <1>8, <2>1, <2>2, <2>3, SMTT(20) DEF TableTypeOK
<1>10. ListExact'
  <2>1. \A i, j \in 1 .. Len(sessions_') : sessions_'[i] = sessions_'[j] => i = j
    BY <1>4, <1>8 DEF ListExact
  <2>2. \A i \in 1 .. Len(sessions_') : sessions_'[i] \in Live'
    BY <1>4, <1>8 DEF ListExact
  <2>3. \A t \in Live' : \E i \in 1 .. Len(sessions_') : sessions_'[i] = t
    BY <1>4, <1>8 DEF ListExact
  <2> QED
    BY <2>1, <2>2, <2>3 DEF ListExact
<1>11. MapsAgree'
  <2>1. \A j \in FlowKey : forward_'[j] = IF j = k THEN s ELSE forward_[j]
    BY <1>1 DEF TableTypeOK
  <2>2. \A r \in ReverseKey : reverse_'[r] = IF r = <<u, p>> THEN s ELSE reverse_[r]
    BY <1>1 DEF TableTypeOK
  <2>3. \A j \in FlowKey : forward_'[j] # nullptr =>
          forward_'[j] \in Live' /\ heap'[forward_'[j]].key = j
    BY <1>4, <1>5, <2>1 DEF MapsAgree
  <2>4. \A r \in ReverseKey : reverse_'[r] # nullptr =>
          /\ reverse_'[r] \in Live'
          /\ <<heap'[reverse_'[r]].up, heap'[reverse_'[r]].snat>> = r
    BY <1>4, <1>5, <2>2 DEF MapsAgree
  <2>5. ASSUME NEW t \in Live'
        PROVE  /\ forward_'[heap'[t].key] = t
               /\ reverse_'[<<heap'[t].up, heap'[t].snat>>] = t
    <3>1. CASE t = s
      BY <1>5, <1>6, <2>1, <2>2, <3>1, SMTT(20)
    <3>2. CASE t # s
      <4>1. t \in Live /\ heap'[t] = heap[t]
        BY <1>4, <1>5, <3>2
      <4>2. heap[t].key # k
        <5>1. forward_[heap[t].key] = t
          BY <4>1, Zenon DEF MapsAgree
        <5>2. t # nullptr
          BY <4>1, NullFacts, Zenon DEF Live
        <5> QED
          BY <1>3, <5>1, <5>2
      <4>3. heap[t].snat # p
        BY <1>7, <4>1 DEF PortsExclusive
      <4> QED
        BY <2>1, <2>2, <4>1, <4>2, <4>3, LiveFacts, SMTT(20) DEF MapsAgree
    <3> QED
      BY <3>1, <3>2
  <2> QED
    BY <2>3, <2>4, <2>5 DEF MapsAgree
<1>12. PortsExclusive'
  <2>1. \A t \in Live : heap'[t].snat = heap[t].snat /\ heap[t].snat # p
    BY <1>5, <1>7 DEF PortsExclusive
  <2>2. \A t1, t2 \in Live' : heap'[t1].snat = heap'[t2].snat => t1 = t2
    BY <1>4, <1>5, <2>1, SMTT(20) DEF PortsExclusive
  <2>3. \A t \in Live' : heap'[t].snat \in port_in_use_'
    BY <1>4, <1>5, <1>7, <2>1, SMTT(20) DEF PortsExclusive
  <2>4. \A q \in port_in_use_' : \E t \in Live' : heap'[t].snat = q
    BY <1>4, <1>5, <1>7, <2>1 DEF PortsExclusive
  <2> QED
    BY <1>7, <2>2, <2>3, <2>4, SMTT(20) DEF PortsExclusive
<1> QED
  BY <1>9, <1>10, <1>11, <1>12

(* touch() changes nothing the invariant looks at but the idle time. *)
LEMMA TouchInv ==
  ASSUME TableInv, NEW s \in Live, Touch(s)
  PROVE  TableInv'
<1> USE DEF TableInv
<1>1. /\ heap' = [heap EXCEPT ![s].idle = 0]
      /\ UNCHANGED <<sessions_, forward_, reverse_,
                     free_ports_, port_in_use_, snat_next_, cursor>>
  BY DEF Touch
<1>2. heap[s] \in Session /\ s \in Ptr
  BY LiveFacts, Zenon
<1>3. [heap[s] EXCEPT !.idle = 0] \in Session
  BY <1>2, RangeFacts DEF Session
<1>4. \A t \in Ptr : heap'[t] = IF t = s THEN [heap[s] EXCEPT !.idle = 0] ELSE heap[t]
  BY <1>1 DEF TableTypeOK
<1>5. TableTypeOK'
  <2>1. heap' \in [Ptr -> Session \cup {nullptr}]
    BY <1>1, <1>3, Zenon DEF TableTypeOK
  <2> QED
    BY <1>1, <2>1 DEF TableTypeOK
<1>6. Live' = Live
  <2>1. [heap[s] EXCEPT !.idle = 0] # nullptr
    BY <1>3, NullFacts, Zenon
  <2> QED
    BY <1>4, <2>1 DEF Live
<1>7. \A t \in Live : /\ heap'[t].key = heap[t].key
                      /\ heap'[t].up = heap[t].up
                      /\ heap'[t].snat = heap[t].snat
  BY <1>2, <1>4 DEF Live, Session
<1>8. ListExact'
  BY <1>1, <1>6 DEF ListExact
<1>9. MapsAgree'
  BY <1>1, <1>6, <1>7 DEF MapsAgree
<1>10. PortsExclusive'
  BY <1>1, <1>6, <1>7 DEF PortsExclusive
<1> QED
  BY <1>5, <1>8, <1>9, <1>10

(* The passing of time changes idle times only, and keeps them within the  *)
(* timeout.                                                                *)
LEMMA IdleForInv ==
  ASSUME TableInv, NEW d \in Nat, IdleFor(d)
  PROVE  TableInv'
<1> USE DEF TableInv
<1> DEFINE older(t) == IF heap[t].idle + d < IdleTimeout
                         THEN heap[t].idle + d ELSE IdleTimeout
<1>1. /\ heap' = [t \in Ptr |-> IF heap[t] = nullptr THEN nullptr
                                ELSE [heap[t] EXCEPT !.idle = older(t)]]
      /\ UNCHANGED <<sessions_, forward_, reverse_,
                     free_ports_, port_in_use_, snat_next_, cursor>>
  BY DEF IdleFor
<1>2. ASSUME NEW t \in Live
      PROVE  /\ heap'[t] \in Session
             /\ heap'[t].key = heap[t].key
             /\ heap'[t].up = heap[t].up
             /\ heap'[t].snat = heap[t].snat
  <2>1. heap[t] \in Session /\ heap[t].idle \in 0 .. IdleTimeout /\ t \in Ptr
    BY LiveFacts, Zenon
  <2>2. older(t) \in 0 .. IdleTimeout
    BY <2>1, RangeFacts
  <2>3. heap'[t] = [heap[t] EXCEPT !.idle = older(t)]
    BY <1>1, <2>1 DEF Live
  <2> HIDE DEF older
  <2> QED
    BY <2>1, <2>2, <2>3 DEF Session
<1>3. \A t \in Ptr : t \notin Live => heap'[t] = nullptr
  BY <1>1 DEF Live
<1>4. TableTypeOK'
  <2>1. heap' = [t \in Ptr |-> heap'[t]]
    BY <1>1
  <2>2. \A t \in Ptr : heap'[t] \in Session \cup {nullptr}
    BY <1>2, <1>3
  <2>3. heap' \in [Ptr -> Session \cup {nullptr}]
    BY <2>1, <2>2
  <2> QED
    BY <1>1, <2>3 DEF TableTypeOK
<1>5. Live' = Live
  BY <1>2, <1>3, NullFacts DEF Live
<1>6. UNCHANGED <<sessions_, forward_, reverse_, free_ports_, port_in_use_>>
  BY <1>1
<1>7. \A t \in Live : /\ heap'[t].key = heap[t].key
                      /\ heap'[t].up = heap[t].up
                      /\ heap'[t].snat = heap[t].snat
  BY <1>2
<1>8. ListExact'
  BY <1>5, <1>6 DEF ListExact
<1>9. MapsAgree'
  BY <1>5, <1>6, <1>7 DEF MapsAgree
<1>10. PortsExclusive'
  BY <1>5, <1>6, <1>7 DEF PortsExclusive
<1> QED
  BY <1>4, <1>8, <1>9, <1>10

(* erase_session, called by the expire loop on a vector element. *)
LEMMA EraseInv ==
  ASSUME TableInv, NEW s \in Live, EraseSession(s), UNCHANGED cursor
  PROVE  TableInv'
<1> USE DEF TableInv
<1> DEFINE k == heap[s].key
           r == <<heap[s].up, heap[s].snat>>
           p == heap[s].snat
<1>1. s \in Ptr /\ k \in FlowKey /\ p \in Port /\ r \in ReverseKey
  BY LiveFacts
<1>2. \A t \in Ptr : heap'[t] = IF t = s THEN nullptr ELSE heap[t]
  BY DEF EraseSession, EraseFromMaps, TableTypeOK
<1>3. Live' = Live \ {s} /\ \A t \in Live' : heap'[t] = heap[t]
  BY <1>2 DEF Live
<1>4. /\ p \in port_in_use_
      /\ port_in_use_' = port_in_use_ \ {p}
      /\ free_ports_' = Append(free_ports_, p)
  BY DEF EraseSession, EraseFromMaps, FreeSnatPort, PortsExclusive
<1>5. PICK i \in 1 .. Len(sessions_) :
        sessions_[i] = s /\ sessions_' = Erase(sessions_, i)
  BY DEF EraseSession, EraseFromVector
<1>6. /\ sessions_' \in Seq(Ptr)
      /\ Len(sessions_) \in Nat
      /\ Len(sessions_') = Len(sessions_) - 1
      /\ \A j \in 1 .. (Len(sessions_) - 1) :
           sessions_'[j] = IF j < i THEN sessions_[j] ELSE sessions_[j + 1]
  BY <1>5, EraseFacts, LenProperties, Zenon DEF TableTypeOK
<1>7. /\ free_ports_' \in Seq(Port)
      /\ Len(free_ports_) \in Nat
      /\ Len(free_ports_') = Len(free_ports_) + 1
      /\ \A j \in 1 .. Len(free_ports_) : free_ports_'[j] = free_ports_[j]
      /\ free_ports_'[Len(free_ports_) + 1] = p
  BY <1>1, <1>4, AppendProperties, LenProperties DEF TableTypeOK
<1>8. \A j \in FlowKey : forward_'[j] = IF j = k THEN nullptr ELSE forward_[j]
  BY DEF EraseSession, EraseFromMaps, TableTypeOK
<1>9. \A q \in ReverseKey : reverse_'[q] = IF q = r THEN nullptr ELSE reverse_[q]
  BY DEF EraseSession, EraseFromMaps, TableTypeOK
<1>10. TableTypeOK'
  <2>1. heap' \in [Ptr -> Session \cup {nullptr}]
    BY DEF EraseSession, EraseFromMaps, TableTypeOK
  <2>2. forward_' \in [FlowKey -> Ptr \cup {nullptr}]
    BY Zenon DEF EraseSession, EraseFromMaps, TableTypeOK
  <2>3. reverse_' \in [ReverseKey -> Ptr \cup {nullptr}]
    BY Zenon DEF EraseSession, EraseFromMaps, TableTypeOK
  <2>4. snat_next_' \in Port /\ port_in_use_' \subseteq Port /\ cursor' \in Nat
    BY <1>4 DEF EraseSession, EraseFromMaps, TableTypeOK
  <2> QED
    BY <1>6, <1>7, <2>1, <2>2, <2>3, <2>4, SMTT(20) DEF TableTypeOK
<1> HIDE DEF k, r, p
<1>11. ListExact'
  <2>1. \A j \in 1 .. Len(sessions_) : j # i => sessions_[j] # s
    BY <1>5 DEF ListExact
  <2>2. \A a, b \in 1 .. Len(sessions_') : sessions_'[a] = sessions_'[b] => a = b
    <3> DEFINE old(j) == IF j < i THEN j ELSE j + 1
    <3>1. TAKE a, b \in 1 .. Len(sessions_')
    <3>2. /\ old(a) \in 1 .. Len(sessions_) /\ old(b) \in 1 .. Len(sessions_)
          /\ old(a) = old(b) => a = b
      BY <1>6
    <3>3. sessions_'[a] = sessions_[old(a)] /\ sessions_'[b] = sessions_[old(b)]
      BY <1>6
    <3> HIDE DEF old
    <3>4. sessions_[old(a)] = sessions_[old(b)] => old(a) = old(b)
      BY <3>2 DEF ListExact
    <3> QED
      BY <3>2, <3>3, <3>4
  <2>3. \A a \in 1 .. Len(sessions_') : sessions_'[a] \in Live'
    <3>1. TAKE a \in 1 .. Len(sessions_')
    <3>2. PICK b \in 1 .. Len(sessions_) : b # i /\ sessions_'[a] = sessions_[b]
      <4> DEFINE old == IF a < i THEN a ELSE a + 1
      <4>1. old \in 1 .. Len(sessions_) /\ old # i
        BY <1>5, <1>6
      <4>2. sessions_'[a] = sessions_[old]
        BY <1>6
      <4> QED
        BY <4>1, <4>2
    <3>3. sessions_[b] \in Live /\ sessions_[b] # s
      BY <2>1, <3>2 DEF ListExact
    <3> QED
      BY <1>3, <3>2, <3>3
  <2>4. ASSUME NEW t \in Live'
        PROVE  \E a \in 1 .. Len(sessions_') : sessions_'[a] = t
    <3>1. PICK b \in 1 .. Len(sessions_) : sessions_[b] = t
      BY <1>3 DEF ListExact
    <3>2. b # i
      BY <1>3, <1>5, <3>1
    <3>3. CASE b < i
      BY <1>5, <1>6, <3>1, <3>3, SMTT(20)
    <3>4. CASE b > i
      <4>1. b - 1 \in 1 .. Len(sessions_') /\ sessions_'[b - 1] = sessions_[b]
        BY <1>5, <1>6, <3>1, <3>4, SMTT(20)
      <4> QED
        BY <3>1, <4>1
    <3> QED
      BY <1>5, <1>6, <3>1, <3>2, <3>3, <3>4, SMTT(20)
  <2> QED
    BY <2>2, <2>3, <2>4 DEF ListExact
<1>12. MapsAgree'
  <2>1. forward_[k] = s /\ reverse_[r] = s
    BY DEF MapsAgree, k, r
  <2>2. \A j \in FlowKey : forward_'[j] # nullptr =>
          forward_'[j] \in Live' /\ heap'[forward_'[j]].key = j
    BY <1>3, <1>8, SMTT(20) DEF MapsAgree, k
  <2>3. \A q \in ReverseKey : reverse_'[q] # nullptr =>
          /\ reverse_'[q] \in Live'
          /\ <<heap'[reverse_'[q]].up, heap'[reverse_'[q]].snat>> = q
    BY <1>3, <1>9 DEF MapsAgree, r
  <2>4. ASSUME NEW t \in Live'
        PROVE  /\ forward_'[heap'[t].key] = t
               /\ reverse_'[<<heap'[t].up, heap'[t].snat>>] = t
    <3>1. t \in Live /\ t # s /\ heap'[t] = heap[t]
      BY <1>3
    <3>2. /\ forward_[heap[t].key] = t
          /\ reverse_[<<heap[t].up, heap[t].snat>>] = t
      BY <3>1 DEF MapsAgree
    <3>3. heap[t].key # k /\ <<heap[t].up, heap[t].snat>> # r
      BY <2>1, <3>1, <3>2, SMTT(20)
    <3>4. heap[t].key \in FlowKey /\ <<heap[t].up, heap[t].snat>> \in ReverseKey
      BY <3>1, LiveFacts
    <3> QED
      BY <1>8, <1>9, <3>1, <3>2, <3>3, <3>4, SMTT(20)
  <2> QED
    BY <2>2, <2>3, <2>4 DEF MapsAgree
<1>13. PortsExclusive'
  <2>1. \A t \in Live' : t \in Live /\ t # s /\ heap'[t].snat = heap[t].snat
    BY <1>3
  <2>2. \A t1, t2 \in Live' : heap'[t1].snat = heap'[t2].snat => t1 = t2
    BY <2>1 DEF PortsExclusive
  <2>3. \A t \in Live' : heap'[t].snat \in port_in_use_'
    BY <1>4, <2>1 DEF PortsExclusive, p
  <2>4. \A q \in port_in_use_' : \E t \in Live' : heap'[t].snat = q
    BY <1>3, <1>4 DEF PortsExclusive, p
  <2>5. \A a, b \in 1 .. Len(free_ports_') :
          free_ports_'[a] = free_ports_'[b] => a = b
    BY <1>4, <1>7 DEF PortsExclusive
  <2>6. \A a \in 1 .. Len(free_ports_') : free_ports_'[a] \notin port_in_use_'
    BY <1>4, <1>7 DEF PortsExclusive
  <2> QED
    BY <2>2, <2>3, <2>4, <2>5, <2>6, SMTT(20) DEF PortsExclusive
<1> QED
  BY <1>10, <1>11, <1>12, <1>13

-----------------------------------------------------------------------------
(* The table's invariant, and what follows from it. *)

(* The constructor establishes the invariant. *)
LEMMA InitInv == TableInit => TableInv
<1> SUFFICES ASSUME TableInit
             PROVE  TableInv
  OBVIOUS
<1>1. Live = {}
  BY DEF TableInit, Live
<1>2. Len(sessions_) = 0 /\ Len(free_ports_) = 0
  BY DEF TableInit
<1>3. TableTypeOK
  BY RangeFacts, EmptySeq DEF TableInit, TableTypeOK
<1>4. ListExact
  BY <1>1, <1>2 DEF ListExact
<1>5. MapsAgree
  BY <1>1 DEF MapsAgree, TableInit
<1>6. PortsExclusive
  BY <1>1, <1>2 DEF PortsExclusive, TableInit
<1> QED
  BY <1>3, <1>4, <1>5, <1>6 DEF TableInv

(* Steps that move only the cursor, or nothing. *)
LEMMA StutterInv ==
  ASSUME TableInv, cursor' \in Nat,
         UNCHANGED <<heap, sessions_, forward_, reverse_,
                     free_ports_, port_in_use_, snat_next_>>
  PROVE  TableInv'
<1>1. Live' = Live
  BY DEF Live
<1>2. TableTypeOK'
  BY DEF TableInv, TableTypeOK
<1>3. ListExact'
  BY <1>1 DEF TableInv, ListExact
<1>4. MapsAgree'
  BY <1>1 DEF TableInv, MapsAgree
<1>5. PortsExclusive'
  BY <1>1 DEF TableInv, PortsExclusive
<1> QED
  BY <1>2, <1>3, <1>4, <1>5 DEF TableInv

(* Every iteration of expire() keeps the invariant. *)
LEMMA ExpireLoopInv ==
  ASSUME TableInv, ExpireLoop
  PROVE  TableInv'
<1>0. Len(sessions_) \in Nat /\ cursor \in Nat
  BY LenProperties DEF TableInv, TableTypeOK
<1>1. CASE ExpireErase
  <2>1. sessions_[cursor] \in Live
    BY <1>1 DEF ExpireErase, TableInv, ListExact
  <2> QED
    BY <1>1, <2>1, EraseInv DEF ExpireErase
<1>2. CASE ExpireKeep
  <2>1. cursor' \in Nat
    BY <1>0, <1>2 DEF ExpireKeep
  <2> QED
    BY <1>2, <2>1, StutterInv DEF ExpireKeep
<1>3. CASE ExpireEnd
  <2>1. cursor' \in Nat
    BY <1>3 DEF ExpireEnd
  <2> QED
    BY <1>3, <2>1, StutterInv DEF ExpireEnd
<1> QED
  BY <1>1, <1>2, <1>3 DEF ExpireLoop

(* The invariant is inductive. *)
LEMMA NextInv == TableInv /\ [TableNext]_tableVars => TableInv'
<1> SUFFICES ASSUME TableInv, [TableNext]_tableVars
             PROVE  TableInv'
  OBVIOUS
<1>0. cursor \in Nat
  BY DEF TableInv, TableTypeOK
<1>1. ASSUME NEW k \in FlowKey, NEW u \in Endpoint, Create(k, u)
      PROVE  TableInv'
  BY <1>1, CreateInv
<1>2. ASSUME NEW k \in FlowKey, CreateFails(k)
      PROVE  TableInv'
  BY <1>0, <1>2, StutterInv DEF CreateFails, tableVars
<1>3. ASSUME NEW k \in FlowKey, Touch(forward_[k])
      PROVE  TableInv'
  <2>1. forward_[k] \in Live
    BY <1>3 DEF Touch, TableInv, MapsAgree
  <2> QED
    BY <1>3, <2>1, TouchInv
<1>4. ASSUME NEW r \in ReverseKey, Touch(reverse_[r])
      PROVE  TableInv'
  <2>1. reverse_[r] \in Live
    BY <1>4 DEF Touch, TableInv, MapsAgree
  <2> QED
    BY <1>4, <2>1, TouchInv
<1>5. CASE ExpireBegin
  <2>1. cursor' \in Nat
    BY <1>5 DEF ExpireBegin
  <2> QED
    BY <1>5, <2>1, StutterInv DEF ExpireBegin
<1>6. CASE ExpireLoop
  BY <1>6, ExpireLoopInv
<1>7. ASSUME NEW d \in 0 .. IdleTimeout, IdleFor(d)
      PROVE  TableInv'
  <2>1. d \in Nat
    BY RangeFacts
  <2> QED
    BY <1>7, <2>1, IdleForInv
<1>8. CASE UNCHANGED tableVars
  BY <1>0, <1>8, StutterInv DEF tableVars
<1> QED
  BY <1>1, <1>2, <1>3, <1>4, <1>5, <1>6, <1>7, <1>8, SMTT(20) DEF TableNext

(* The variables keep their types. *)
THEOREM TableTyped == TableSpec => []TableTypeOK
<1>1. TableInv => TableTypeOK
  BY DEF TableInv
<1> QED
  BY <1>1, InitInv, NextInv, PTL DEF TableSpec

(* The vector lists each live session once, at every step of the expire    *)
(* loop too.                                                               *)
THEOREM TableListExact == TableSpec => []ListExact
<1>1. TableInv => ListExact
  BY DEF TableInv
<1> QED
  BY <1>1, InitInv, NextInv, PTL DEF TableSpec

(* No lookup in either map returns a deleted session, or a session under   *)
(* another session's key.                                                  *)
THEOREM TableMapsAgree == TableSpec => []MapsAgree
<1>1. TableInv => MapsAgree
  BY DEF TableInv
<1> QED
  BY <1>1, InitInv, NextInv, PTL DEF TableSpec

(* No two sessions ever hold the same SNAT port, however ports are         *)
(* returned and handed out again.                                          *)
THEOREM TablePortsExclusive == TableSpec => []PortsExclusive
<1>1. TableInv => PortsExclusive
  BY DEF TableInv
<1> QED
  BY <1>1, InitInv, NextInv, PTL DEF TableSpec

(* create() fails only when every port of the range is taken. *)
THEOREM TableFailsOnlyExhausted == TableSpec => []FailsOnlyExhausted
<1>1. ASSUME TableInv
      PROVE  FailsOnlyExhausted
  <2> SUFFICES ASSUME AllocFails, NEW p \in Port
               PROVE  \E s \in Live : heap[s].snat = p
    BY DEF FailsOnlyExhausted
  <2>1. PICK n \in 0 .. (SnatEnd - SnatBegin - 1) : Probed(n) = p
    BY <1>1, ProbedCovers DEF TableInv, TableTypeOK
  <2>2. p \in port_in_use_
    BY <2>1 DEF AllocFails
  <2> QED
    BY <1>1, <2>2 DEF TableInv, PortsExclusive
<1> QED
  BY <1>1, InitInv, NextInv, PTL DEF TableSpec

-----------------------------------------------------------------------------
(* The table implements NatBinding. *)

(* The binding of a flow is the live session that its lookup finds. *)
LEMMA BindingFacts ==
  ASSUME TableInv, NEW k \in FlowKey
  PROVE  /\ forward_[k] = nullptr => Bindings[k] = nullptr
         /\ forward_[k] # nullptr =>
              /\ forward_[k] \in Live
              /\ heap[forward_[k]].key = k
              /\ Bindings[k] = heap[forward_[k]]
              /\ Bindings[k] # nullptr
BY DEF Bindings, TableInv, MapsAgree, Live

(* A flow is bound exactly when its lookup finds a session. *)
LEMMA BoundFacts ==
  ASSUME TableInv
  PROVE  NatTable!Bound = {k \in FlowKey : forward_[k] # nullptr}
BY BindingFacts DEF NatTable!Bound

(* create() binds a flow that had no binding to a port no other flow has. *)
LEMMA CreateBinds ==
  ASSUME TableInv, NEW k \in FlowKey, NEW u \in Endpoint, Create(k, u)
  PROVE  \E p \in Port : NatTable!Bind(k, u, p)
<1>1. PICK p \in Port, s \in Ptr :
        /\ heap[s] = nullptr
        /\ AllocSnatPort(p)
        /\ heap' = [heap EXCEPT ![s] = [key |-> k, up |-> u, snat |-> p, idle |-> 0]]
        /\ forward_' = [forward_ EXCEPT ![k] = s]
  BY Zenon DEF Create
<1> DEFINE new == [key |-> k, up |-> u, snat |-> p, idle |-> 0]
<1>2. s # nullptr /\ s \notin Live /\ forward_[k] = nullptr
  BY <1>1, NullFacts, Zenon DEF Live, Create
<1>3. \A j \in FlowKey : forward_'[j] = IF j = k THEN s ELSE forward_[j]
  BY <1>1 DEF TableInv, TableTypeOK
<1>4. heap'[s] = new /\ \A t \in Live : heap'[t] = heap[t]
  BY <1>1, <1>2, SMTT(20) DEF TableInv, TableTypeOK, Live
<1>5. \A j \in FlowKey : Bindings'[j] = IF j = k THEN new ELSE Bindings[j]
  BY <1>2, <1>3, <1>4, BindingFacts DEF Bindings
<1>6. Bindings' = [Bindings EXCEPT ![k] = new]
  <2>1. /\ Bindings = [j \in FlowKey |-> Bindings[j]]
        /\ Bindings' = [j \in FlowKey |-> Bindings'[j]]
    BY SMTT(20) DEF Bindings
  <2> HIDE DEF new
  <2> QED
    BY <1>5, <2>1, SMTT(20)
<1>7. \A t \in Live : heap[t].snat # p
  BY <1>1, AllocFacts, Zenon DEF TableInv, PortsExclusive
<1>8. \A j \in NatTable!Bound : Bindings[j].snat # p
  BY <1>7, BoundFacts, BindingFacts
<1>9. k \notin NatTable!Bound
  BY <1>2, BoundFacts
<1> QED
  BY <1>6, <1>8, <1>9, Zenon DEF NatTable!Bind

(* touch() renews the binding of the session's own flow. *)
LEMMA TouchRefreshes ==
  ASSUME TableInv, NEW s \in Live, Touch(s)
  PROVE  \E k \in FlowKey : NatTable!Refresh(k)
<1> DEFINE k == heap[s].key
           young == [heap[s] EXCEPT !.idle = 0]
<1>1. k \in FlowKey /\ forward_[k] = s /\ s \in Ptr /\ s # nullptr
  <2>1. k \in FlowKey /\ s \in Ptr
    BY LiveFacts, Zenon DEF TableInv
  <2>2. forward_[k] = s
    BY Zenon DEF TableInv, MapsAgree
  <2> QED
    BY <2>1, <2>2, NullFacts, Zenon
<1>2. /\ forward_' = forward_
      /\ \A t \in Ptr : heap'[t] = IF t = s THEN young ELSE heap[t]
  BY DEF Touch, TableInv, TableTypeOK
<1>3. \A j \in FlowKey : forward_[j] = s => j = k
  BY <1>1, BindingFacts, Zenon
<1>4. ASSUME NEW j \in FlowKey
      PROVE  Bindings'[j] = IF j = k THEN young ELSE Bindings[j]
  <2>1. forward_[j] # nullptr => forward_[j] \in Ptr /\ Bindings[j] = heap[forward_[j]]
    BY BindingFacts DEF Live
  <2>2. Bindings'[j] = IF forward_[j] = nullptr THEN nullptr ELSE heap'[forward_[j]]
    BY <1>2 DEF Bindings
  <2>3. forward_[j] = nullptr => Bindings[j] = nullptr
    BY BindingFacts
  <2> HIDE DEF k, young
  <2> QED
    BY <1>1, <1>2, <1>3, <2>1, <2>2, <2>3, SMTT(20)
<1>5. Bindings[k] = heap[s]
  BY <1>1, BindingFacts
<1>6. /\ Bindings = [j \in FlowKey |-> Bindings[j]]
      /\ Bindings' = [j \in FlowKey |-> Bindings'[j]]
  BY DEF Bindings
<1>7. young = [Bindings[k] EXCEPT !.idle = 0]
  BY <1>5
<1> HIDE DEF k, young
<1>8. Bindings' = [Bindings EXCEPT ![k] = young]
  BY <1>4, <1>6
<1>9. Bindings' = [Bindings EXCEPT ![k].idle = 0]
  BY <1>7, <1>8
<1>10. k \in NatTable!Bound
  BY <1>1, BoundFacts
<1> QED
  BY <1>1, <1>9, <1>10, Zenon DEF NatTable!Refresh

(* An erasing iteration of expire() releases a binding idle for the whole  *)
(* timeout.                                                                *)
LEMMA EraseReleases ==
  ASSUME TableInv, ExpireErase
  PROVE  \E k \in FlowKey : NatTable!Release(k)
<1> DEFINE s == sessions_[cursor]
           k == heap[s].key
<1>1. s \in Live /\ EraseSession(s) /\ heap[s].idle >= IdleTimeout
  BY DEF ExpireErase, TableInv, ListExact
<1> HIDE DEF s
<1>2. k \in FlowKey /\ s \in Ptr /\ heap[s].idle \in 0 .. IdleTimeout
  BY <1>1, LiveFacts, Zenon DEF TableInv
<1>3. forward_[k] = s /\ s # nullptr
  <2>1. forward_[k] = s
    BY <1>1, Zenon DEF TableInv, MapsAgree
  <2> QED
    BY <1>2, <2>1, NullFacts, Zenon
<1>4. \A t \in Ptr : heap'[t] = IF t = s THEN nullptr ELSE heap[t]
  BY <1>1 DEF EraseSession, EraseFromMaps, TableInv, TableTypeOK
<1>5. \A j \in FlowKey : forward_'[j] = IF j = k THEN nullptr ELSE forward_[j]
  BY <1>1 DEF EraseSession, EraseFromMaps, TableInv, TableTypeOK
<1>6. \A j \in FlowKey : forward_[j] = s => j = k
  BY <1>3, BindingFacts, Zenon
<1>7. Bindings[k] = heap[s] /\ Bindings[k].idle = IdleTimeout
  <2>1. Bindings[k] = heap[s]
    BY <1>2, <1>3, BindingFacts, Zenon
  <2> QED
    BY <1>1, <1>2, <2>1, RangeFacts
<1> HIDE DEF k
<1>8. ASSUME NEW j \in FlowKey
      PROVE  Bindings'[j] = IF j = k THEN nullptr ELSE Bindings[j]
  <2>1. forward_[j] # nullptr => forward_[j] \in Ptr /\ Bindings[j] = heap[forward_[j]]
    BY BindingFacts, Zenon DEF Live
  <2>2. Bindings'[j] = IF forward_'[j] = nullptr THEN nullptr ELSE heap'[forward_'[j]]
    BY DEF Bindings
  <2>3. forward_[j] = nullptr => Bindings[j] = nullptr
    BY BindingFacts, Zenon
  <2> QED
    BY <1>4, <1>5, <1>6, <2>1, <2>2, <2>3, SMTT(20)
<1>9. /\ Bindings = [j \in FlowKey |-> Bindings[j]]
      /\ Bindings' = [j \in FlowKey |-> Bindings'[j]]
  BY DEF Bindings
<1>10. Bindings' = [Bindings EXCEPT ![k] = nullptr]
  BY <1>8, <1>9
<1>11. k \in NatTable!Bound
  BY <1>2, <1>3, BoundFacts, Zenon DEF k
<1> QED
  BY <1>2, <1>7, <1>10, <1>11, Zenon DEF NatTable!Release, k

(* Time passes for every binding alike. *)
LEMMA IdleElapses ==
  ASSUME TableInv, NEW d \in Nat, IdleFor(d)
  PROVE  NatTable!Elapse(d)
<1> DEFINE aged(x) == [x EXCEPT !.idle =
                         IF @ + d < IdleTimeout THEN @ + d ELSE IdleTimeout]
<1>1. /\ forward_' = forward_
      /\ \A t \in Live : heap'[t] = aged(heap[t])
  BY DEF IdleFor, Live
<1> HIDE DEF aged
<1>2. ASSUME NEW j \in FlowKey
      PROVE  Bindings'[j] = IF j \notin NatTable!Bound THEN nullptr
                            ELSE aged(Bindings[j])
  <2>1. Bindings'[j] = IF forward_[j] = nullptr THEN nullptr ELSE heap'[forward_[j]]
    BY <1>1 DEF Bindings
  <2>2. forward_[j] # nullptr => forward_[j] \in Live /\ Bindings[j] = heap[forward_[j]]
    BY BindingFacts, Zenon
  <2>3. j \in NatTable!Bound <=> forward_[j] # nullptr
    BY BoundFacts, Zenon
  <2> QED
    BY <1>1, <2>1, <2>2, <2>3, SMTT(20)
<1>3. Bindings' = [j \in FlowKey |-> Bindings'[j]]
  BY DEF Bindings
<1>4. Bindings' = [j \in FlowKey |-> IF j \notin NatTable!Bound THEN nullptr
                                     ELSE aged(Bindings[j])]
  BY <1>2, <1>3
<1> QED
  BY <1>4, Zenon DEF NatTable!Elapse, aged

(* The session table implements NatBinding: a flow's binding is exclusive, *)
(* stays the same until it has been idle for the whole timeout, and is     *)
(* renewed by traffic in either direction.                                 *)
THEOREM TableImplementsNat == TableSpec => ImplementsNat
<1>1. TableInit => NatTable!Init
  BY DEF TableInit, NatTable!Init, Bindings
<1>2. TableInv /\ [TableNext]_tableVars => [NatTable!Next]_Bindings
  <2> SUFFICES ASSUME TableInv, [TableNext]_tableVars
               PROVE  [NatTable!Next]_Bindings
    OBVIOUS
  <2>0. ASSUME UNCHANGED <<heap, forward_>>
        PROVE  [NatTable!Next]_Bindings
    BY <2>0 DEF Bindings
  <2>1. ASSUME NEW k \in FlowKey, NEW u \in Endpoint, Create(k, u)
        PROVE  [NatTable!Next]_Bindings
    BY <2>1, CreateBinds, Zenon DEF NatTable!Next
  <2>2. ASSUME NEW k \in FlowKey, CreateFails(k)
        PROVE  [NatTable!Next]_Bindings
    BY <2>0, <2>2 DEF CreateFails, tableVars
  <2>3. ASSUME NEW s \in Live, Touch(s)
        PROVE  [NatTable!Next]_Bindings
    BY <2>3, TouchRefreshes, Zenon DEF NatTable!Next
  <2>4. ASSUME NEW k \in FlowKey, Touch(forward_[k])
        PROVE  [NatTable!Next]_Bindings
    <3>1. forward_[k] \in Live
      BY <2>4 DEF Touch, TableInv, MapsAgree
    <3> QED
      BY <2>3, <2>4, <3>1, Zenon
  <2>5. ASSUME NEW r \in ReverseKey, Touch(reverse_[r])
        PROVE  [NatTable!Next]_Bindings
    <3>1. reverse_[r] \in Live
      BY <2>5 DEF Touch, TableInv, MapsAgree
    <3> QED
      BY <2>3, <2>5, <3>1, Zenon
  <2>6. CASE ExpireBegin
    BY <2>0, <2>6 DEF ExpireBegin
  <2>7. CASE ExpireLoop
    <3>1. CASE ExpireErase
      BY <3>1, EraseReleases, Zenon DEF NatTable!Next
    <3>2. CASE ExpireKeep
      BY <2>0, <3>2 DEF ExpireKeep
    <3>3. CASE ExpireEnd
      BY <2>0, <3>3 DEF ExpireEnd
    <3> QED
      BY <2>7, <3>1, <3>2, <3>3 DEF ExpireLoop
  <2>8. ASSUME NEW d \in 0 .. IdleTimeout, IdleFor(d)
        PROVE  [NatTable!Next]_Bindings
    <3>1. d \in Nat
      BY RangeFacts
    <3> QED
      BY <2>8, <3>1, IdleElapses, Zenon DEF NatTable!Next
  <2>9. CASE UNCHANGED tableVars
    BY <2>0, <2>9 DEF tableVars
  <2> QED
    BY <2>1, <2>2, <2>4, <2>5, <2>6, <2>7, <2>8, <2>9, Zenon DEF TableNext
<1> QED
  BY <1>1, <1>2, InitInv, NextInv, PTL DEF TableSpec, ImplementsNat, NatTable!Spec

-----------------------------------------------------------------------------
(* What the operations of the table do to the sessions that are live. *)

(* touch(s) makes s fresh and changes no session's key or translation. *)
LEMMA TouchEffect ==
  ASSUME TableInv, NEW s \in Live, Touch(s)
  PROVE  /\ Live' = Live
         /\ forward_' = forward_
         /\ heap'[s].idle = 0
         /\ \A t \in Live :
              /\ heap'[t].key = heap[t].key
              /\ heap'[t].up = heap[t].up
              /\ heap'[t].snat = heap[t].snat
              /\ heap'[t].idle <= heap[t].idle
<1>1. s \in Ptr /\ heap[s] \in Session
  BY LiveFacts, Zenon DEF TableInv
<1>2. /\ forward_' = forward_
      /\ \A t \in Ptr : heap'[t] = IF t = s THEN [heap[s] EXCEPT !.idle = 0]
                                   ELSE heap[t]
  BY DEF Touch, TableInv, TableTypeOK
<1>3. /\ heap'[s].key = heap[s].key
      /\ heap'[s].up = heap[s].up
      /\ heap'[s].snat = heap[s].snat
      /\ heap'[s].idle = 0
      /\ heap'[s] \in Session
  BY <1>1, <1>2, RangeFacts DEF Session
<1>4. Live' = Live
  BY <1>1, <1>2, <1>3, NullFacts, Zenon DEF Live
<1>5. ASSUME NEW t \in Live
      PROVE  /\ heap'[t].key = heap[t].key
             /\ heap'[t].up = heap[t].up
             /\ heap'[t].snat = heap[t].snat
             /\ heap'[t].idle <= heap[t].idle
  <2>0. t \in Ptr /\ heap[t].idle \in 0 .. IdleTimeout
    BY LiveFacts, Zenon DEF TableInv
  <2>1. t \in Ptr /\ heap[t].idle \in Nat
    BY <2>0, RangeFacts
  <2>2. CASE t = s
    BY <1>3, <2>1, <2>2
  <2>3. CASE t # s
    BY <1>2, <2>1, <2>3
  <2> QED
    BY <2>2, <2>3
<1> QED
  BY <1>2, <1>3, <1>4, <1>5

(* create(k) adds a session for k and leaves the live ones alone. *)
LEMMA CreateEffect ==
  ASSUME TableInv, NEW k \in FlowKey, NEW u \in Endpoint, Create(k, u)
  PROVE  /\ forward_'[k] \in Live'
         /\ heap'[forward_'[k]].key = k
         /\ heap'[forward_'[k]].up = u
         /\ heap'[forward_'[k]].idle = 0
         /\ \A t \in Live : t \in Live' /\ heap'[t] = heap[t]
         /\ \A t \in Live' : t = forward_'[k] \/ (t \in Live /\ heap'[t] = heap[t])
<1>1. PICK p \in Port, s \in Ptr :
        /\ heap[s] = nullptr
        /\ heap' = [heap EXCEPT ![s] = [key |-> k, up |-> u, snat |-> p, idle |-> 0]]
        /\ forward_' = [forward_ EXCEPT ![k] = s]
  BY Zenon DEF Create
<1>2. forward_'[k] = s
  BY <1>1 DEF TableInv, TableTypeOK
<1>3. heap'[s] = [key |-> k, up |-> u, snat |-> p, idle |-> 0]
  BY <1>1 DEF TableInv, TableTypeOK
<1>4. heap'[s] \in Session
  BY <1>3, RangeFacts DEF Session
<1>5. \A t \in Live : t \in Live' /\ heap'[t] = heap[t]
  BY <1>1 DEF TableInv, TableTypeOK, Live
<1>6. s \in Live'
  BY <1>4, NullFacts, Zenon DEF Live
<1>7. \A t \in Live' : t = s \/ (t \in Live /\ heap'[t] = heap[t])
  BY <1>1 DEF TableInv, TableTypeOK, Live
<1> QED
  BY <1>2, <1>3, <1>5, <1>6, <1>7

(* expire() leaves every session alone that is not idle for the timeout. *)
LEMMA ExpireEffect ==
  ASSUME TableInv, ExpireBegin \/ ExpireLoop,
         NEW t \in Live, heap[t].idle < IdleTimeout
  PROVE  t \in Live' /\ heap'[t] = heap[t]
<1>0. t \in Ptr /\ heap[t].idle \in Nat /\ IdleTimeout \in Nat
  <2>1. t \in Ptr /\ heap[t].idle \in 0 .. IdleTimeout
    BY LiveFacts, Zenon DEF TableInv
  <2> QED
    BY <2>1, RangeFacts
<1>1. CASE ExpireErase
  <2>1. heap[sessions_[cursor]].idle >= IdleTimeout
    BY <1>1 DEF ExpireErase
  <2>2. t # sessions_[cursor]
    BY <1>0, <2>1
  <2>3. heap'[t] = heap[t]
    BY <1>0, <1>1, <2>2 DEF ExpireErase, EraseSession, TableInv, TableTypeOK
  <2> QED
    BY <2>3 DEF Live
<1>2. CASE UNCHANGED heap
  BY <1>2 DEF Live
<1> QED
  BY <1>1, <1>2 DEF ExpireBegin, ExpireLoop, ExpireKeep, ExpireEnd

(* Time adds the same amount to every idle time, up to the timeout. *)
LEMMA IdleForEffect ==
  ASSUME TableInv, NEW d \in Nat, IdleFor(d), NEW t \in Live
  PROVE  /\ t \in Live'
         /\ heap'[t].key = heap[t].key
         /\ heap'[t].up = heap[t].up
         /\ heap'[t].snat = heap[t].snat
         /\ heap'[t].idle = IF heap[t].idle + d < IdleTimeout
                              THEN heap[t].idle + d ELSE IdleTimeout
<1> DEFINE older == IF heap[t].idle + d < IdleTimeout
                      THEN heap[t].idle + d ELSE IdleTimeout
<1>1. t \in Ptr /\ heap[t] \in Session /\ heap[t].idle \in 0 .. IdleTimeout
  BY LiveFacts, Zenon DEF TableInv
<1>2. heap'[t] = [heap[t] EXCEPT !.idle = older]
  BY <1>1 DEF IdleFor, Live
<1>3. older \in 0 .. IdleTimeout
  BY <1>1, RangeFacts
<1>4. /\ heap'[t].key = heap[t].key
      /\ heap'[t].up = heap[t].up
      /\ heap'[t].snat = heap[t].snat
      /\ heap'[t].idle = older
      /\ heap'[t] \in Session
  <2> HIDE DEF older
  <2> QED
    BY <1>1, <1>2, <1>3 DEF Session
<1>5. t \in Live'
  BY <1>1, <1>4, NullFacts, Zenon DEF Live
<1> QED
  BY <1>4, <1>5

(* Only create adds a session, and none is redirected to another upstream. *)
LEMMA NoneNew ==
  ASSUME TableInv,
         \/ \E s \in Live : Touch(s)
         \/ ExpireBegin \/ ExpireLoop
         \/ \E d \in Nat : IdleFor(d),
         NEW t \in Live'
  PROVE  t \in Live /\ heap'[t].up = heap[t].up
<1>0. t \in Ptr /\ heap'[t] # nullptr
  BY DEF Live
<1>1. ASSUME NEW s \in Live, Touch(s)
      PROVE  t \in Live /\ heap'[t].up = heap[t].up
  BY <1>1, TouchEffect
<1>2. CASE ExpireErase
  <2>1. heap' = [heap EXCEPT ![sessions_[cursor]] = nullptr]
    BY <1>2 DEF ExpireErase, EraseSession
  <2>2. heap'[t] = heap[t]
    BY <1>0, <2>1 DEF TableInv, TableTypeOK
  <2> QED
    BY <1>0, <2>2 DEF Live
<1>3. CASE UNCHANGED heap
  BY <1>3 DEF Live
<1>4. ASSUME NEW d \in Nat, IdleFor(d)
      PROVE  t \in Live /\ heap'[t].up = heap[t].up
  <2>1. heap[t] # nullptr
    BY <1>0, <1>4 DEF IdleFor
  <2>2. t \in Live
    BY <1>0, <2>1 DEF Live
  <2> QED
    BY <1>4, <2>2, IdleForEffect
<1> QED
  BY <1>1, <1>2, <1>3, <1>4 DEF ExpireBegin, ExpireLoop, ExpireKeep, ExpireEnd

-----------------------------------------------------------------------------
(* Which sessions outlive a step. *)

(* The sessions that are not idle for the timeout stay, no older. *)
Kept ==
  \A t \in Live : heap[t].idle < IdleTimeout =>
    /\ t \in Live'
    /\ heap'[t].key = heap[t].key
    /\ heap'[t].up = heap[t].up
    /\ heap'[t].snat = heap[t].snat
    /\ heap'[t].idle <= heap[t].idle

(* A step that leaves the table alone keeps its sessions. *)
LEMMA SameTable ==
  ASSUME TableInv, UNCHANGED tableVars
  PROVE  TableInv' /\ Kept
<1>1. cursor' \in Nat
  BY DEF TableInv, TableTypeOK, tableVars
<1>2. TableInv'
  BY <1>1, StutterInv DEF tableVars
<1>3. \A t \in Live : t \in Live' /\ heap'[t] = heap[t]
  BY DEF Live, tableVars
<1>4. \A t \in Live : heap[t].idle \in 0 .. IdleTimeout
  BY LiveFacts, Zenon DEF TableInv
<1>5. \A t \in Live : heap[t].idle <= heap[t].idle
  BY <1>4
<1>6. Kept
  BY <1>3, <1>5, Zenon DEF Kept
<1> QED
  BY <1>2, <1>6

(* The sessions outlive a touch. *)
LEMMA TouchKeeps ==
  ASSUME TableInv, NEW s \in Live, Touch(s)
  PROVE  Kept
BY TouchEffect, Zenon DEF Kept

(* The sessions outlive a create. *)
LEMMA CreateKeeps ==
  ASSUME TableInv, NEW k \in FlowKey, NEW u \in Endpoint, Create(k, u)
  PROVE  Kept
<1>1. \A t \in Live : heap[t].idle \in 0 .. IdleTimeout
  BY LiveFacts, Zenon DEF TableInv
<1>2. \A t \in Live : heap[t].idle <= heap[t].idle
  BY <1>1
<1> QED
  BY <1>2, CreateEffect, Zenon DEF Kept

(* The sessions that are not idle outlive an iteration of expire. *)
LEMMA ExpireKeeps ==
  ASSUME TableInv, ExpireBegin \/ ExpireLoop
  PROVE  Kept
<1>1. \A t \in Live : heap[t].idle \in 0 .. IdleTimeout
  BY LiveFacts, Zenon DEF TableInv
<1>2. \A t \in Live : heap[t].idle <= heap[t].idle
  BY <1>1
<1> QED
  BY <1>2, ExpireEffect, Zenon DEF Kept

=============================================================================
