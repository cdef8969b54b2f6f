----------------------------- MODULE NetifProofs -----------------------------
(***************************************************************************)
(* Proofs about Netif for every ring size, burst size, pool and number of  *)
(* frames, in both modes, whichever loops could be launched and whatever   *)
(* the worker does with a packet: no mbuf is lost or freed twice, and the  *)
(* netif hands frames over in order.                                       *)
(***************************************************************************)
EXTENDS Netif, SequenceTheorems, TLAPS

-----------------------------------------------------------------------------
(* Sequences of frames *)

(* Every frame of s is older than every frame of t. *)
Before(s, t) == \A i \in 1 .. Len(s), j \in 1 .. Len(t) : s[i] < t[j]

Sorted(s) == \A i, j \in 1 .. Len(s) : i < j => s[i] < s[j]

(* Every frame of s is newer than the frame lo and not newer than hi. *)
Within(s, lo, hi) == \A i \in 1 .. Len(s) : lo < s[i] /\ s[i] <= hi

(* The length and the elements of a sequence. *)
LEMMA SeqFacts ==
  ASSUME NEW S, NEW s \in Seq(S)
  PROVE  Len(s) \in Nat /\ \A i \in 1 .. Len(s) : s[i] \in S
BY LenProperties, ElementOfSeq

(* What First and Rest return. *)
LEMMA FirstRest ==
  ASSUME NEW S, NEW s \in Seq(S), NEW n \in 0 .. Len(s)
  PROVE  /\ First(s, n) \in Seq(S) /\ Len(First(s, n)) = n
         /\ \A i \in 1 .. n : First(s, n)[i] = s[i]
         /\ Rest(s, n) \in Seq(S) /\ Len(Rest(s, n)) = Len(s) - n
         /\ \A i \in 1 .. (Len(s) - n) : Rest(s, n)[i] = s[n + i]
<1>1. Len(s) \in Nat /\ \A i \in 1 .. Len(s) : s[i] \in S
  BY SeqFacts
<1>2. \A i \in 1 .. n : s[i] \in S
  BY <1>1
<1>3. \A i \in n + 1 .. Len(s) : s[i] \in S
  BY <1>1
<1>4. n \in Int /\ n + 1 \in Int /\ Len(s) \in Int
  BY <1>1
<1>5. /\ SubSeq(s, 1, n) \in Seq(S)
      /\ Len(SubSeq(s, 1, n)) = IF 1 <= n THEN n - 1 + 1 ELSE 0
      /\ \A i \in 1 .. n - 1 + 1 : SubSeq(s, 1, n)[i] = s[1 + i - 1]
  BY <1>2, <1>4, SubSeqProperties
<1>6. /\ SubSeq(s, n + 1, Len(s)) \in Seq(S)
      /\ Len(SubSeq(s, n + 1, Len(s))) =
           IF n + 1 <= Len(s) THEN Len(s) - (n + 1) + 1 ELSE 0
      /\ \A i \in 1 .. Len(s) - (n + 1) + 1 :
           SubSeq(s, n + 1, Len(s))[i] = s[n + 1 + i - 1]
  BY <1>3, <1>4, SubSeqProperties
<1> QED
  BY <1>1, <1>5, <1>6 DEF First, Rest

(* Splitting a burst keeps the order, inside it and with any other. *)
LEMMA SplitOrder ==
  ASSUME NEW s \in Seq(Int), NEW n \in 0 .. Len(s)
  PROVE  /\ Sorted(s) => /\ Sorted(First(s, n)) /\ Sorted(Rest(s, n))
                         /\ Before(First(s, n), Rest(s, n))
         /\ \A u \in Seq(Int) :
              /\ Before(u, s) => Before(u, First(s, n)) /\ Before(u, Rest(s, n))
              /\ Before(s, u) => Before(First(s, n), u) /\ Before(Rest(s, n), u)
         /\ \A lo, hi \in Int :
              Within(s, lo, hi) => Within(First(s, n), lo, hi) /\ Within(Rest(s, n), lo, hi)
<1> DEFINE f == First(s, n)
           r == Rest(s, n)
<1>1. /\ Len(s) \in Nat /\ n \in Nat /\ n <= Len(s)
      /\ Len(f) = n /\ Len(r) = Len(s) - n
      /\ \A i \in 1 .. n : f[i] = s[i]
      /\ \A i \in 1 .. (Len(s) - n) : r[i] = s[n + i]
  <2>1. Len(s) \in Nat
    BY SeqFacts
  <2>2. n \in Nat /\ n <= Len(s)
    BY <2>1
  <2>3. /\ Len(f) = n /\ Len(r) = Len(s) - n
        /\ \A i \in 1 .. n : f[i] = s[i]
        /\ \A i \in 1 .. (Len(s) - n) : r[i] = s[n + i]
    BY FirstRest, Zenon
  <2> QED
    BY <2>1, <2>2, <2>3
<1> HIDE DEF f, r
<1>2. \A i \in 1 .. Len(f) : i \in 1 .. Len(s) /\ f[i] = s[i] /\ i <= n
  BY <1>1
<1>3. \A i \in 1 .. Len(r) : n + i \in 1 .. Len(s) /\ r[i] = s[n + i] /\ n < n + i
  BY <1>1
<1>5. ASSUME Sorted(s)
      PROVE  Sorted(f) /\ Sorted(r) /\ Before(f, r)
  <2>1. Sorted(f)
    BY <1>2, <1>5 DEF Sorted
  <2>2. \A i, j \in 1 .. Len(r) : i < j => n + i < n + j
    BY <1>1
  <2>3. Sorted(r)
    BY <1>3, <1>5, <2>2 DEF Sorted
  <2>4. \A i \in 1 .. Len(f), j \in 1 .. Len(r) : i < n + j
    BY <1>1
  <2>5. Before(f, r)
    BY <1>2, <1>3, <1>5, <2>4 DEF Sorted, Before
  <2> QED
    BY <2>1, <2>3, <2>5
<1>6. ASSUME NEW u \in Seq(Int)
      PROVE  /\ Before(u, s) => Before(u, f) /\ Before(u, r)
             /\ Before(s, u) => Before(f, u) /\ Before(r, u)
  BY <1>2, <1>3 DEF Before
<1>7. ASSUME NEW lo \in Int, NEW hi \in Int
      PROVE  Within(s, lo, hi) => Within(f, lo, hi) /\ Within(r, lo, hi)
  BY <1>2, <1>3 DEF Within
<1> QED
  BY <1>5, <1>6, <1>7 DEF f, r

(* Appending a newer burst keeps the order. *)
LEMMA ConcatOrder ==
  ASSUME NEW s \in Seq(Int), NEW t \in Seq(Int)
  PROVE  /\ Sorted(s) /\ Sorted(t) /\ Before(s, t) => Sorted(s \o t)
         /\ \A u \in Seq(Int) :
              /\ Before(u, s) /\ Before(u, t) => Before(u, s \o t)
              /\ Before(s, u) /\ Before(t, u) => Before(s \o t, u)
         /\ \A lo, hi \in Int :
              Within(s, lo, hi) /\ Within(t, lo, hi) => Within(s \o t, lo, hi)
<1> DEFINE c == s \o t
<1>1. /\ Len(s) \in Nat /\ Len(t) \in Nat /\ Len(c) = Len(s) + Len(t)
      /\ \A i \in 1 .. Len(c) : c[i] = IF i <= Len(s) THEN s[i] ELSE t[i - Len(s)]
  BY SeqFacts, ConcatProperties
<1> HIDE DEF c
<1>2. \A i \in 1 .. Len(c) :
        \/ i \in 1 .. Len(s) /\ c[i] = s[i]
        \/ i - Len(s) \in 1 .. Len(t) /\ c[i] = t[i - Len(s)]
  BY <1>1
<1>3. Sorted(s) /\ Sorted(t) /\ Before(s, t) => Sorted(c)
  <2> SUFFICES ASSUME Sorted(s), Sorted(t), Before(s, t),
                      NEW i \in 1 .. Len(c), NEW j \in 1 .. Len(c), i < j
               PROVE  c[i] < c[j]
    BY DEF Sorted
  <2>1. CASE j <= Len(s)
    <3>1. i \in 1 .. Len(s) /\ j \in 1 .. Len(s)
      BY <1>1, <2>1
    <3>2. c[i] = s[i] /\ c[j] = s[j]
      BY <1>1, <3>1
    <3>3. s[i] < s[j]
      BY <3>1 DEF Sorted
    <3> QED
      BY <3>2, <3>3
  <2>2. CASE i <= Len(s) /\ ~(j <= Len(s))
    <3>1. i \in 1 .. Len(s) /\ j - Len(s) \in 1 .. Len(t)
      BY <1>1, <2>2
    <3> QED
      BY <1>1, <2>2, <3>1 DEF Before
  <2>3. CASE ~(i <= Len(s))
    <3>1. /\ i - Len(s) \in 1 .. Len(t) /\ j - Len(s) \in 1 .. Len(t)
          /\ i - Len(s) < j - Len(s) /\ ~(j <= Len(s))
      BY <1>1, <2>3
    <3>2. t[i - Len(s)] < t[j - Len(s)]
      BY <3>1 DEF Sorted
    <3> QED
      BY <1>1, <2>3, <3>1, <3>2
  <2> QED
    BY <1>1, <2>1, <2>2, <2>3
<1>4. ASSUME NEW u \in Seq(Int)
      PROVE  /\ Before(u, s) /\ Before(u, t) => Before(u, c)
             /\ Before(s, u) /\ Before(t, u) => Before(c, u)
  BY <1>2 DEF Before
<1>5. ASSUME NEW lo \in Int, NEW hi \in Int
      PROVE  Within(s, lo, hi) /\ Within(t, lo, hi) => Within(c, lo, hi)
  BY <1>2 DEF Within
<1> QED
  BY <1>3, <1>4, <1>5 DEF c

(* The empty burst is in order with any other. *)
LEMMA EmptyOrder ==
  /\ <<>> \in Frames /\ Len(<<>>) = 0 /\ Sorted(<<>>)
  /\ \A u \in Seq(Int) : Before(u, <<>>) /\ Before(<<>>, u)
  /\ \A lo, hi \in Int : Within(<<>>, lo, hi)
<1>1. <<>> \in Frames /\ Len(<<>>) = 0
  BY EmptySeq DEF Frames
<1>2. \A i \in 1 .. 0 : FALSE
  OBVIOUS
<1> QED
  BY <1>1, <1>2 DEF Sorted, Before, Within

(* A burst that arrives after hi is newer than what arrived until then. *)
LEMMA NewerOrder ==
  ASSUME NEW q \in Seq(Int), NEW t \in Seq(Int),
         NEW lo \in Int, NEW hi \in Int, NEW top \in Int, lo <= hi, hi <= top,
         Within(q, lo, hi), Within(t, hi, top)
  PROVE  Within(q, lo, top) /\ Within(t, lo, top) /\ Before(q, t)
<1>1. /\ \A i \in 1 .. Len(q) : q[i] \in Int
      /\ \A i \in 1 .. Len(t) : t[i] \in Int
  BY SeqFacts
<1>2. Within(q, lo, top)
  BY <1>1, SMTT(20) DEF Within
<1>3. Within(t, lo, top)
  BY <1>1, SMTT(20) DEF Within
<1>4. Before(q, t)
  BY <1>1, SMTT(20) DEF Within, Before
<1> QED
  BY <1>2, <1>3, <1>4

(* A frame is a number. *)
LEMMA FramesAreInts == Frames \subseteq Seq(Int)
<1>1. Nat \subseteq Int
  OBVIOUS
<1> QED
  BY <1>1, SeqMonotonic DEF Frames

(* A burst numbered after last is in order and newer than last. *)
LEMMA NumberedOrder ==
  ASSUME NEW last \in Nat, NEW n \in Nat
  PROVE  /\ Numbered(last, n) \in Frames /\ Len(Numbered(last, n)) = n
         /\ Sorted(Numbered(last, n)) /\ Within(Numbered(last, n), last, last + n)
<1> DEFINE a == Numbered(last, n)
<1>1. a \in [1 .. n -> Nat] /\ \A i \in 1 .. n : a[i] = last + i
  BY DEF Numbered
<1> HIDE DEF a
<1>2. a \in Frames
  BY <1>1, SeqDef, Zenon DEF Frames
<1>3. Len(a) = n
  BY <1>1, <1>2, LenProperties DEF Frames
<1>4. Sorted(a) /\ Within(a, last, last + n)
  BY <1>1, <1>3 DEF Sorted, Within
<1> QED
  BY <1>2, <1>3, <1>4 DEF a

(* Concatenating frames keeps their type. *)
LEMMA ConcatFrames ==
  ASSUME NEW s \in Frames, NEW t \in Frames
  PROVE  s \o t \in Frames /\ Len(s \o t) = Len(s) + Len(t)
BY ConcatProperties, Zenon DEF Frames

(* The constants, one fact each. *)
LEMMA Constants ==
  /\ RxBurst \in Nat \ {0} /\ TxBurst \in Nat \ {0} /\ PoolSize \in Nat \ {0}
  /\ MaxFrames \in Nat /\ Capacity \in Nat
BY NetifAssumption DEF Capacity

(* push_burst pushes no more than there is, and than there is room for. *)
LEMMA PushedFits ==
  ASSUME NEW ring \in Frames, NEW pkts \in Frames, Len(ring) <= Capacity
  PROVE  /\ Pushed(ring, pkts) \in 0 .. Len(pkts)
         /\ Len(ring) + Pushed(ring, pkts) <= Capacity
<1>1. Len(ring) \in Nat /\ Len(pkts) \in Nat
  BY SeqFacts DEF Frames
<1> QED
  BY <1>1, Constants DEF Pushed, AtMost

(* pop_burst takes no more than there is, and than was asked for. *)
LEMMA PoppedFits ==
  ASSUME NEW ring \in Frames, NEW n \in Nat
  PROVE  Popped(ring, n) \in 0 .. Len(ring) /\ Popped(ring, n) <= n
<1>1. Len(ring) \in Nat
  BY SeqFacts DEF Frames
<1> QED
  BY <1>1 DEF Popped, AtMost

(* What holds when n frames move from the front of q to the back of ring,  *)
(* which become ring2 and q2: the order is kept.                           *)
Moved(ring, q, n, ring2, q2) ==
  /\ ring2 \in Frames /\ q2 \in Frames
  /\ Len(ring2) = Len(ring) + n /\ Len(q2) = Len(q) - n
  /\ Sorted(ring) /\ Sorted(q) /\ Before(ring, q) =>
       Sorted(ring2) /\ Sorted(q2) /\ Before(ring2, q2)
  /\ \A u \in Seq(Int) :
       /\ Before(u, ring) /\ Before(u, q) => Before(u, ring2) /\ Before(u, q2)
       /\ Before(ring, u) /\ Before(q, u) => Before(ring2, u) /\ Before(q2, u)
  /\ \A lo, hi \in Int :
       Within(ring, lo, hi) /\ Within(q, lo, hi) =>
         Within(ring2, lo, hi) /\ Within(q2, lo, hi)

(* Moving a burst from the front of q to the back of p keeps both in line. *)
LEMMA MoveBurst ==
  ASSUME NEW ring \in Frames, NEW q \in Frames, NEW n \in 0 .. Len(q)
  PROVE  Moved(ring, q, n, ring \o First(q, n), Rest(q, n))
<1> DEFINE f == First(q, n)
           r == Rest(q, n)
<1>1. f \in Frames /\ r \in Frames /\ Len(f) = n /\ Len(r) = Len(q) - n
  BY FirstRest, Zenon DEF Frames
<1>2. ring \o f \in Frames /\ Len(ring \o f) = Len(ring) + Len(f)
  BY <1>1, ConcatProperties, Zenon DEF Frames
<1>3. q \in Seq(Int) /\ ring \in Seq(Int) /\ f \in Seq(Int) /\ r \in Seq(Int)
  BY <1>1, FramesAreInts
<1>4. /\ Sorted(q) => Sorted(f) /\ Sorted(r) /\ Before(f, r)
      /\ \A u \in Seq(Int) :
           /\ Before(u, q) => Before(u, f) /\ Before(u, r)
           /\ Before(q, u) => Before(f, u) /\ Before(r, u)
      /\ \A lo, hi \in Int : Within(q, lo, hi) => Within(f, lo, hi) /\ Within(r, lo, hi)
  BY <1>3, SplitOrder, Zenon
<1>5. /\ Sorted(ring) /\ Sorted(f) /\ Before(ring, f) => Sorted(ring \o f)
      /\ \A u \in Seq(Int) :
           /\ Before(u, ring) /\ Before(u, f) => Before(u, ring \o f)
           /\ Before(ring, u) /\ Before(f, u) => Before(ring \o f, u)
      /\ \A lo, hi \in Int :
           Within(ring, lo, hi) /\ Within(f, lo, hi) => Within(ring \o f, lo, hi)
  BY <1>3, ConcatOrder, Zenon
<1> HIDE DEF f, r
<1>6. Sorted(ring) /\ Sorted(q) /\ Before(ring, q) =>
        Sorted(ring \o f) /\ Sorted(r) /\ Before(ring \o f, r)
  BY <1>3, <1>4, <1>5, Zenon
<1>7. ASSUME NEW u \in Seq(Int)
      PROVE  /\ Before(u, ring) /\ Before(u, q) => Before(u, ring \o f) /\ Before(u, r)
             /\ Before(ring, u) /\ Before(q, u) => Before(ring \o f, u) /\ Before(r, u)
  BY <1>4, <1>5, Zenon
<1>8. ASSUME NEW lo \in Int, NEW hi \in Int
      PROVE  Within(ring, lo, hi) /\ Within(q, lo, hi) =>
               Within(ring \o f, lo, hi) /\ Within(r, lo, hi)
  BY <1>4, <1>5, Zenon
<1>9. Len(ring \o f) = Len(ring) + n
  BY <1>1, <1>2
<1> QED
  BY <1>1, <1>2, <1>6, <1>7, <1>8, <1>9, Zenon DEF f, r, Moved

(* Taking a burst from q is moving it to the back of nothing. *)
LEMMA PopBurst ==
  ASSUME NEW q \in Frames, NEW n \in 0 .. Len(q)
  PROVE  Moved(<<>>, q, n, First(q, n), Rest(q, n))
<1>1. Moved(<<>>, q, n, <<>> \o First(q, n), Rest(q, n))
  BY EmptyOrder, MoveBurst
<1>2. First(q, n) \in Frames
  BY FirstRest, Zenon DEF Frames
<1>3. <<>> \o First(q, n) = First(q, n)
  BY <1>2, ConcatEmptySeq, Zenon DEF Frames
<1> QED
  BY <1>1, <1>3

-----------------------------------------------------------------------------
(* Lines of frames *)

(* Three places on the way, the one that is ahead first, hold frames in    *)
(* the order of their numbers, after lo and up to hi.                      *)
InLine(a, b, c, lo, hi) ==
  /\ Sorted(a) /\ Sorted(b) /\ Sorted(c)
  /\ Before(a, b) /\ Before(a, c) /\ Before(b, c)
  /\ Within(a, lo, hi) /\ Within(b, lo, hi) /\ Within(c, lo, hi)
  /\ lo <= hi

(* A burst that moves to the first place from the second, or to the second *)
(* from the third, keeps the line.                                         *)
LEMMA MovedInLine ==
  ASSUME NEW a \in Frames, NEW b \in Frames, NEW c \in Frames,
         NEW lo \in Nat, NEW hi \in Nat, InLine(a, b, c, lo, hi),
         NEW n, NEW s, NEW t
  PROVE  /\ Moved(a, b, n, s, t) => InLine(s, t, c, lo, hi)
         /\ Moved(b, c, n, s, t) => InLine(a, s, t, lo, hi)
<1>1. a \in Seq(Int) /\ c \in Seq(Int) /\ lo \in Int /\ hi \in Int
  BY FramesAreInts
<1>2. Moved(a, b, n, s, t) => InLine(s, t, c, lo, hi)
  BY <1>1, Zenon DEF InLine, Moved
<1>3. Moved(b, c, n, s, t) => InLine(a, s, t, lo, hi)
  BY <1>1, Zenon DEF InLine, Moved
<1> QED
  BY <1>2, <1>3

(* Frames that get the next n numbers join the end of the line. *)
LEMMA JoinedInLine ==
  ASSUME NEW a \in Frames, NEW b \in Frames, NEW c \in Frames,
         NEW lo \in Nat, NEW hi \in Nat, InLine(a, b, c, lo, hi), NEW n \in Nat
  PROVE  InLine(a, b, c \o Numbered(hi, n), lo, hi + n)
<1> DEFINE t == Numbered(hi, n)
<1>1. t \in Frames /\ Sorted(t) /\ Within(t, hi, hi + n)
  BY NumberedOrder
<1> HIDE DEF t
<1>2. /\ lo \in Int /\ hi \in Int /\ hi + n \in Int /\ lo <= hi /\ hi <= hi + n
      /\ lo <= hi + n
  BY DEF InLine
<1>3. /\ a \in Seq(Int) /\ b \in Seq(Int) /\ c \in Seq(Int) /\ t \in Seq(Int)
  BY <1>1, FramesAreInts
<1>4. ASSUME NEW q \in Seq(Int), Within(q, lo, hi)
      PROVE  Within(q, lo, hi + n) /\ Within(t, lo, hi + n) /\ Before(q, t)
  BY <1>1, <1>2, <1>3, <1>4, NewerOrder
<1>5. /\ Sorted(c) /\ Sorted(t) /\ Before(c, t) => Sorted(c \o t)
      /\ \A u \in Seq(Int) : Before(u, c) /\ Before(u, t) => Before(u, c \o t)
      /\ Within(c, lo, hi + n) /\ Within(t, lo, hi + n) => Within(c \o t, lo, hi + n)
  BY <1>2, <1>3, ConcatOrder
<1>6. /\ Within(a, lo, hi + n) /\ Within(b, lo, hi + n) /\ Within(c \o t, lo, hi + n)
      /\ Sorted(c \o t) /\ Before(a, c \o t) /\ Before(b, c \o t)
  BY <1>1, <1>3, <1>4, <1>5, Zenon DEF InLine
<1> QED
  BY <1>2, <1>6 DEF t, InLine

(* The first n frames of the line leave it. *)
LEMMA LeftInLine ==
  ASSUME NEW a \in Frames, NEW b \in Frames, NEW c \in Frames,
         NEW lo \in Nat, NEW hi \in Nat, InLine(a, b, c, lo, hi),
         NEW n \in 1 .. Len(a)
  PROVE  a[n] \in Nat /\ InLine(Rest(a, n), b, c, a[n], hi)
<1>1. /\ Len(a) \in Nat /\ n \in Nat /\ n \in 0 .. Len(a) /\ n \in 1 .. Len(a)
      /\ a[n] \in Nat
  <2>1. Len(a) \in Nat /\ \A i \in 1 .. Len(a) : a[i] \in Nat
    BY SeqFacts DEF Frames
  <2> QED
    BY <2>1
<1>2. a \in Seq(Int) /\ b \in Seq(Int) /\ c \in Seq(Int) /\ lo \in Int /\ hi \in Int
  BY FramesAreInts
<1>3. a[n] <= hi
  BY <1>1 DEF InLine, Within
<1>4. /\ Len(Rest(a, n)) = Len(a) - n
      /\ \A i \in 1 .. (Len(a) - n) : Rest(a, n)[i] = a[n + i]
  BY <1>1, FirstRest, Zenon DEF Frames
<1>5. \A i \in 1 .. (Len(a) - n) : n + i \in 1 .. Len(a) /\ n < n + i
  BY <1>1
<1>6. Within(Rest(a, n), a[n], hi)
  <2>1. ASSUME NEW i \in 1 .. (Len(a) - n)
        PROVE  a[n] < a[n + i] /\ a[n + i] <= hi
    <3>1. n + i \in 1 .. Len(a) /\ n < n + i
      BY <1>5
    <3>2. a[n] < a[n + i]
      BY <1>1, <3>1 DEF InLine, Sorted
    <3>3. a[n + i] <= hi
      BY <3>1 DEF InLine, Within
    <3> QED
      BY <3>2, <3>3
  <2> QED
    BY <1>4, <2>1 DEF Within
<1>7. ASSUME NEW u \in Seq(Int), Before(a, u), Within(u, lo, hi)
      PROVE  Within(u, a[n], hi)
  BY <1>1, <1>7 DEF Before, Within
<1>8. Within(b, a[n], hi) /\ Within(c, a[n], hi)
  BY <1>2, <1>7 DEF InLine
<1>9. Sorted(Rest(a, n)) /\ Before(Rest(a, n), b) /\ Before(Rest(a, n), c)
  BY <1>1, <1>2, SplitOrder DEF InLine
<1> QED
  BY <1>1, <1>3, <1>6, <1>8, <1>9 DEF InLine

(* The first place, or the last, is emptied. *)
LEMMA EmptiedInLine ==
  ASSUME NEW a \in Frames, NEW b \in Frames, NEW c \in Frames,
         NEW lo \in Nat, NEW hi \in Nat, InLine(a, b, c, lo, hi)
  PROVE  InLine(<<>>, b, c, lo, hi) /\ InLine(a, b, <<>>, lo, hi)
<1>1. a \in Seq(Int) /\ b \in Seq(Int) /\ c \in Seq(Int) /\ lo \in Int /\ hi \in Int
  BY FramesAreInts
<1> QED
  BY <1>1, EmptyOrder DEF InLine

(* What is alone in a line may be in any place of it. *)
LEMMA AloneInLine ==
  ASSUME NEW q \in Frames, NEW lo \in Nat, NEW hi \in Nat
  PROVE  InLine(<<>>, <<>>, q, lo, hi) <=> InLine(q, <<>>, <<>>, lo, hi)
<1>1. q \in Seq(Int) /\ <<>> \in Seq(Int) /\ lo \in Int /\ hi \in Int
  BY EmptyOrder, FramesAreInts
<1> QED
  BY <1>1, EmptyOrder DEF InLine

-----------------------------------------------------------------------------
(* The inductive invariant *)

(* Every place is counted. *)
Total(p, d, h, a, b, c, x, y, z) == p + d + h + a + b + c + x + y + z
Counted ==
  PoolSize = Total(pool, ndrop, held, Len(rx), Len(rx_ring), Len(rxl),
                   Len(txl), Len(tx_ring), Len(batch))

(* Which arrays the worker uses at each point of its loop, and that in     *)
(* run-to-completion mode nobody else holds anything.                      *)
Phases ==
  /\ wpc = "recv" => batch = <<>> /\ ndrop = 0
  /\ wpc # "handle" => rx = <<>>
  /\ wpc = "handle" => rx # <<>>
  /\ mode_ = "rtc" => loops = {} /\ rx_ring = <<>> /\ tx_ring = <<>> /\ rxl = <<>> /\ txl = <<>>

(* Frames are in line on the way to the worker and on the way from it; the *)
(* drops of a burst and what is left of it are no more than a burst.       *)
NetifInv ==
  /\ NetifTypeOK
  /\ Counted
  /\ Phases
  /\ ndrop + Len(rx) <= RxBurst
  /\ InLine(rx, rx_ring, rxl, handled, arrived)
  /\ InLine(txl, tx_ring, batch, sent, put)

(* The invariant gives every sequence its length and type. *)
LEMMA Lengths ==
  ASSUME NetifInv
  PROVE  /\ rx_ring \in Frames /\ tx_ring \in Frames /\ rxl \in Frames
         /\ txl \in Frames /\ rx \in Frames /\ batch \in Frames
         /\ Len(rx_ring) \in Nat /\ Len(tx_ring) \in Nat /\ Len(rxl) \in Nat
         /\ Len(txl) \in Nat /\ Len(rx) \in Nat /\ Len(batch) \in Nat
         /\ pool \in Nat /\ ndrop \in Nat /\ held \in Nat /\ arrived \in Nat
         /\ handled \in Nat /\ put \in Nat /\ sent \in Nat
<1>1. /\ rx_ring \in Frames /\ tx_ring \in Frames /\ rxl \in Frames
      /\ txl \in Frames /\ rx \in Frames /\ batch \in Frames
  BY DEF NetifInv, NetifTypeOK
<1>2. \A q \in Frames : Len(q) \in Nat
  BY SeqFacts DEF Frames
<1>3. pool \in Nat /\ ndrop \in Nat /\ held \in Nat /\ arrived \in Nat
  BY Constants DEF NetifInv, NetifTypeOK
<1>4. handled \in Nat /\ put \in Nat /\ sent \in Nat
  BY DEF NetifInv, NetifTypeOK
<1> QED
  BY <1>1, <1>2, <1>3, <1>4

(* The sum and the type of its terms, written out for the arithmetic. *)
Balance ==
  /\ PoolSize = pool + ndrop + held + Len(rx) + Len(rx_ring) + Len(rxl)
                  + Len(txl) + Len(tx_ring) + Len(batch)
  /\ PoolSize \in Nat /\ pool \in Nat /\ ndrop \in Nat /\ held \in Nat
  /\ Len(rx) \in Nat /\ Len(rx_ring) \in Nat /\ Len(rxl) \in Nat
  /\ Len(txl) \in Nat /\ Len(tx_ring) \in Nat /\ Len(batch) \in Nat
LEMMA Sum == NetifInv => Balance
<1> SUFFICES ASSUME NetifInv
             PROVE  Balance
  OBVIOUS
<1>1. PoolSize = pool + ndrop + held + Len(rx) + Len(rx_ring) + Len(rxl)
                   + Len(txl) + Len(tx_ring) + Len(batch)
  BY DEF NetifInv, Counted, Total
<1>2. PoolSize \in Nat
  BY Constants
<1> QED
  BY <1>1, <1>2, Lengths, Zenon DEF Balance

(* Counts that sum up to the pool are each within it. *)
LEMMA TotalBound ==
  ASSUME NEW p \in Nat, NEW d \in Nat, NEW h \in Nat,
         NEW a \in Nat, NEW b \in Nat, NEW c \in Nat,
         NEW x \in Nat, NEW y \in Nat, NEW z \in Nat,
         PoolSize = Total(p, d, h, a, b, c, x, y, z)
  PROVE  p \in 0 .. PoolSize /\ h \in 0 .. PoolSize
BY Constants DEF Total

(* Neither the pool nor the queues overflow when every place is counted. *)
LEMMA PoolBound ==
  ASSUME pool' \in Nat, ndrop' \in Nat, held' \in Nat, Counted',
         rx_ring' \in Frames, tx_ring' \in Frames, rxl' \in Frames,
         txl' \in Frames, rx' \in Frames, batch' \in Frames
  PROVE  pool' \in 0 .. PoolSize /\ held' \in 0 .. PoolSize
<1>1. \A q \in Frames : Len(q) \in Nat
  BY SeqFacts DEF Frames
<1>2. /\ Len(rx_ring') \in Nat /\ Len(tx_ring') \in Nat /\ Len(rxl') \in Nat
      /\ Len(txl') \in Nat /\ Len(rx') \in Nat /\ Len(batch') \in Nat
  BY <1>1
<1> QED
  BY <1>2, TotalBound, Zenon DEF Counted

-----------------------------------------------------------------------------
(* Every step preserves the invariant *)

(* nic_recv takes a burst from the driver. *)
LEMMA NicPollStep ==
  ASSUME NetifInv, NEW n \in 1 .. RxBurst, NicPoll(n)
  PROVE  NetifInv'
<1> USE DEF modeVars, txVars, workerVars
<1> DEFINE a == Arrivals(n)
<1>1. /\ rxl = <<>> /\ rxl' = a /\ arrived' = arrived + n /\ arrived + n <= MaxFrames
      /\ pool' = pool - n /\ n <= pool /\ n \in Nat /\ n <= RxBurst
      /\ "run_recv" \in loops
      /\ UNCHANGED <<mode_, loops, rx_ring, tx_ring, txl, sent>>
      /\ UNCHANGED <<wpc, rx, batch, ndrop, held, handled, put>>
  BY Constants DEF NicPoll, RxBurstReturns
<1>2. a \in Frames /\ Len(a) = n /\ a = <<>> \o a
  <2>1. a \in Frames /\ Len(a) = n
    BY <1>1, Lengths, NumberedOrder DEF Arrivals
  <2> QED
    BY <2>1, ConcatEmptySeq, Zenon DEF Frames
<1>3. InLine(rx, rx_ring, a, handled, arrived + n)
  <2>1. InLine(rx, rx_ring, <<>> \o a, handled, arrived + n)
    BY <1>1, Lengths, JoinedInLine DEF NetifInv, Arrivals
  <2> QED
    BY <1>2, <2>1
<1> HIDE DEF a
<1>4. Counted'
  <2>1. Len(rxl) = 0
    BY <1>1, EmptyOrder
  <2>2. PoolSize = Total(pool - n, ndrop, held, Len(rx), Len(rx_ring), n,
                         Len(txl), Len(tx_ring), Len(batch))
    <3>1. Balance
      BY Sum
    <3> QED
      BY <1>1, <2>1, <3>1 DEF Balance, Total
  <2> QED
    BY <1>1, <1>2, <2>2 DEF Counted
<1>5. NetifTypeOK'
  <2>1. pool' \in 0 .. PoolSize /\ arrived' \in 0 .. MaxFrames
    BY <1>1, Lengths, Constants DEF NetifInv, NetifTypeOK
  <2> QED
    BY <1>1, <1>2, <2>1 DEF NetifInv, NetifTypeOK
<1>6. Phases'
  BY <1>1 DEF NetifInv, Phases
<1> QED
  BY <1>1, <1>3, <1>4, <1>5, <1>6 DEF NetifInv

(* nic_recv pushes what fits on rx_ring and frees the rest. *)
LEMMA NicRecvStep ==
  ASSUME NetifInv, NicRecv
  PROVE  NetifInv'
<1> USE DEF modeVars, txVars, workerVars
<1> DEFINE got == Pushed(rx_ring, rxl)
<1>1. /\ rxl # <<>>
      /\ UNCHANGED <<mode_, loops, arrived, tx_ring, txl, sent>>
      /\ UNCHANGED <<wpc, rx, batch, ndrop, held, handled, put>>
  BY DEF NicRecv
<1>2. got \in 0 .. Len(rxl) /\ Len(rx_ring) + got <= Capacity
  BY Lengths, PushedFits DEF NetifInv, NetifTypeOK
<1>3. mode_ # "rtc"
  BY <1>1 DEF NetifInv, Phases
<1>4. Phases'
  BY <1>1, <1>3 DEF NetifInv, Phases
<1>5. CASE got = 0
  <2>1. pool' = pool + Len(rxl) /\ rxl' = <<>> /\ rx_ring' = rx_ring
    BY <1>5 DEF NicRecv
  <2>2. Counted'
    <3>1. PoolSize = Total(pool + Len(rxl), ndrop, held, Len(rx), Len(rx_ring), 0,
                           Len(txl), Len(tx_ring), Len(batch))
      <4>1. Balance
        BY Sum
      <4> QED
        BY <4>1 DEF Balance, Total
    <3> QED
      BY <1>1, <2>1, <3>1, EmptyOrder DEF Counted
  <2>3. pool' \in 0 .. PoolSize
    BY <1>1, <2>1, <2>2, Lengths, EmptyOrder, PoolBound
  <2>4. NetifTypeOK'
    BY <1>1, <2>1, <2>3, EmptyOrder, Constants DEF NetifInv, NetifTypeOK
  <2>5. InLine(rx, rx_ring, <<>>, handled, arrived)
    BY Lengths, EmptiedInLine DEF NetifInv
  <2> QED
    BY <1>1, <1>4, <2>1, <2>2, <2>4, <2>5 DEF NetifInv
<1>6. CASE got # 0
  <2>1. rx_ring' = rx_ring \o First(rxl, got) /\ rxl' = Rest(rxl, got) /\ pool' = pool
    BY <1>6 DEF NicRecv
  <2> HIDE DEF got
  <2>2. Moved(rx_ring, rxl, got, rx_ring', rxl')
    BY <1>2, <2>1, Lengths, MoveBurst
  <2>3. /\ rx_ring' \in Frames /\ rxl' \in Frames
        /\ Len(rx_ring') = Len(rx_ring) + got /\ Len(rxl') = Len(rxl) - got
    BY <2>2, Zenon DEF Moved
  <2>4. Counted'
    <3>1. PoolSize = Total(pool, ndrop, held, Len(rx), Len(rx_ring) + got, Len(rxl) - got,
                           Len(txl), Len(tx_ring), Len(batch))
      <4>1. Balance
        BY Sum
      <4> QED
        BY <1>2, <4>1 DEF Balance, Total
    <3> QED
      BY <1>1, <2>1, <2>3, <3>1 DEF Counted
  <2>5. Len(rx_ring') <= Capacity /\ Len(rxl') <= RxBurst
    BY <1>2, <2>3, Lengths, Constants DEF NetifInv, NetifTypeOK
  <2>6. NetifTypeOK'
    BY <1>1, <2>1, <2>3, <2>5 DEF NetifInv, NetifTypeOK
  <2>7. InLine(rx, rx_ring', rxl', handled, arrived)
    BY <2>2, Lengths, MovedInLine DEF NetifInv
  <2> QED
    BY <1>1, <1>4, <2>4, <2>6, <2>7 DEF NetifInv
<1> QED
  BY <1>5, <1>6

(* recv_burst in pipeline mode pops a burst from rx_ring. *)
LEMMA WorkerRecvStep ==
  ASSUME NetifInv, WorkerRecv
  PROVE  NetifInv'
<1> USE DEF modeVars, txVars
<1> DEFINE n == Popped(rx_ring, RxBurst)
<1>1. /\ mode_ = "pipeline" /\ wpc = "recv"
      /\ rx' = First(rx_ring, n) /\ rx_ring' = Rest(rx_ring, n)
      /\ wpc' = IF rx' = <<>> THEN "recv" ELSE "handle"
      /\ UNCHANGED <<mode_, loops, pool, arrived, rxl, tx_ring, txl, sent>>
      /\ UNCHANGED <<batch, ndrop, held, handled, put>>
  BY DEF WorkerRecv, Received
<1>2. rx = <<>> /\ batch = <<>> /\ ndrop = 0 /\ Len(rx) = 0
  BY <1>1, EmptyOrder DEF NetifInv, Phases
<1>3. n \in 0 .. Len(rx_ring) /\ n <= RxBurst
  <2>1. RxBurst \in Nat
    BY Constants
  <2> QED
    BY <2>1, Lengths, PoppedFits
<1> HIDE DEF n
<1>4. Moved(rx, rx_ring, n, rx', rx_ring')
  BY <1>1, <1>2, <1>3, Lengths, PopBurst
<1>5. /\ rx' \in Frames /\ rx_ring' \in Frames
      /\ Len(rx') = Len(rx) + n /\ Len(rx_ring') = Len(rx_ring) - n
  BY <1>4, Zenon DEF Moved
<1>6. Len(rx') = n
  BY <1>2, <1>3, <1>5, Lengths
<1>7. Counted'
  <2>1. PoolSize = Total(pool, ndrop, held, n, Len(rx_ring) - n, Len(rxl),
                         Len(txl), Len(tx_ring), Len(batch))
    <3>1. Balance
      BY Sum
    <3> QED
      BY <1>2, <1>3, <3>1 DEF Balance, Total
  <2> QED
    BY <1>1, <1>5, <1>6, <2>1 DEF Counted
<1>8. NetifTypeOK'
  <2>1. Len(rx_ring') <= Capacity /\ Len(rx') <= RxBurst
    BY <1>3, <1>5, <1>6, Lengths, Constants DEF NetifInv, NetifTypeOK
  <2> QED
    BY <1>1, <1>5, <2>1 DEF NetifInv, NetifTypeOK
<1>9. InLine(rx', rx_ring', rxl, handled, arrived)
  BY <1>4, Lengths, MovedInLine DEF NetifInv
<1>10. Phases'
  BY <1>1, <1>2 DEF NetifInv, Phases
<1>11. ndrop' + Len(rx') <= RxBurst
  BY <1>1, <1>2, <1>3, <1>6, Lengths, Constants
<1> QED
  BY <1>1, <1>7, <1>8, <1>9, <1>10, <1>11 DEF NetifInv

(* recv_burst in run-to-completion mode takes a burst from the driver. *)
LEMMA RtcRecvStep ==
  ASSUME NetifInv, NEW n \in 0 .. RxBurst, RtcRecv(n)
  PROVE  NetifInv'
<1> USE DEF modeVars, txVars
<1> DEFINE a == Arrivals(n)
<1>1. /\ mode_ = "rtc" /\ wpc = "recv" /\ rx' = a
      /\ wpc' = IF a = <<>> THEN "recv" ELSE "handle"
      /\ arrived + n <= MaxFrames /\ n <= pool /\ n \in Nat /\ n <= RxBurst
      /\ arrived' = arrived + n /\ pool' = pool - n
      /\ UNCHANGED <<mode_, loops, rxl, rx_ring, tx_ring, txl, sent>>
      /\ UNCHANGED <<batch, ndrop, held, handled, put>>
  BY Constants DEF RtcRecv, RxBurstReturns, Received
<1>2. /\ rx = <<>> /\ batch = <<>> /\ ndrop = 0 /\ Len(rx) = 0
      /\ rx_ring = <<>> /\ rxl = <<>>
  BY <1>1, EmptyOrder DEF NetifInv, Phases
<1>3. a \in Frames /\ Len(a) = n /\ a = <<>> \o a
  <2>1. a \in Frames /\ Len(a) = n
    BY <1>1, Lengths, NumberedOrder DEF Arrivals
  <2> QED
    BY <2>1, ConcatEmptySeq, Zenon DEF Frames
<1>4. InLine(a, <<>>, <<>>, handled, arrived + n)
  <2>1. InLine(rx, rx_ring, rxl \o a, handled, arrived + n)
    BY <1>1, Lengths, JoinedInLine DEF NetifInv, Arrivals
  <2>2. InLine(<<>>, <<>>, a, handled, arrived + n)
    BY <1>2, <1>3, <2>1
  <2>3. handled \in Nat /\ arrived + n \in Nat
    BY <1>1, Lengths
  <2> QED
    BY <1>3, <2>2, <2>3, AloneInLine
<1> HIDE DEF a
<1>5. Counted'
  <2>1. PoolSize = Total(pool - n, ndrop, held, n, Len(rx_ring), Len(rxl),
                         Len(txl), Len(tx_ring), Len(batch))
    <3>1. Balance
      BY Sum
    <3> QED
      BY <1>1, <1>2, <3>1 DEF Balance, Total
  <2> QED
    BY <1>1, <1>3, <2>1 DEF Counted
<1>6. NetifTypeOK'
  <2>1. pool' \in 0 .. PoolSize /\ arrived' \in 0 .. MaxFrames
    BY <1>1, Lengths, Constants DEF NetifInv, NetifTypeOK
  <2> QED
    BY <1>1, <1>3, <2>1 DEF NetifInv, NetifTypeOK
<1>7. Phases'
  BY <1>1, <1>2 DEF NetifInv, Phases
<1>8. ndrop' + Len(rx') <= RxBurst
  BY <1>1, <1>2, <1>3, Constants
<1> QED
  BY <1>1, <1>2, <1>4, <1>5, <1>6, <1>7, <1>8 DEF NetifInv

(* Whatever becomes of a packet of the burst, and of the packets held. *)
LEMMA HandleStep ==
  ASSUME NetifInv, NEW f \in 0 .. held, NEW e \in 0 .. held, NEW probe \in BOOLEAN,
         NEW result \in {"drop", "transmit", "hold", "refuse"},
         Handle(f, e, result, probe)
  PROVE  NetifInv'
<1> USE DEF modeVars, rxVars, txVars
<1> DEFINE d == One(result = "drop")
           t == One(result = "transmit")
           h == One(result = "hold")
           u == One(result = "refuse")
           p == One(probe)
           n == f + t + p
<1>1. /\ d \in 0 .. 1 /\ t \in 0 .. 1 /\ h \in 0 .. 1 /\ u \in 0 .. 1 /\ p \in 0 .. 1
      /\ d + t + h + u = 1 /\ n = f + t + p
  BY DEF One
<1>2. p = 1 => pool + e + u > 0
  BY DEF Handle, One
<1>3. /\ wpc = "handle" /\ f + e <= held
      /\ batch' = batch \o Numbered(put, n) /\ put' = put + n
      /\ ndrop' = ndrop + d /\ held' = held - f - e + h
      /\ pool' = pool + e + u - p
      /\ rx' = Rest(rx, 1) /\ handled' = rx[1]
      /\ wpc' \in {"handle", "send"} /\ (wpc' = "send" <=> Len(rx) = 1)
      /\ UNCHANGED <<mode_, loops, arrived, rxl, rx_ring, tx_ring, txl, sent>>
  BY DEF Handle
<1> HIDE DEF d, t, h, u, p, n
<1>4. /\ f \in Nat /\ e \in Nat /\ n \in Nat
      /\ pool' \in Nat /\ held' \in Nat /\ ndrop' \in Nat /\ put' \in Nat
  <2>1. pool \in Nat /\ held \in Nat /\ ndrop \in Nat /\ put \in Nat
    BY Lengths
  <2>2. f \in Nat /\ e \in Nat /\ n \in Nat
    BY <1>1, <2>1
  <2>3. pool' \in Nat
    BY <1>1, <1>2, <1>3, <2>1, <2>2
  <2> QED
    BY <1>1, <1>3, <2>1, <2>2, <2>3
<1>5. rx # <<>> /\ 1 \in 1 .. Len(rx) /\ 1 \in 0 .. Len(rx)
  <2>1. rx # <<>> /\ rx \in Frames /\ Len(rx) \in Nat
    BY <1>3, Lengths DEF NetifInv, Phases
  <2>2. Len(rx) # 0
    BY <2>1, EmptySeq DEF Frames
  <2> QED
    BY <2>1, <2>2
<1>6. rx' \in Frames /\ Len(rx') = Len(rx) - 1
  <2>1. rx \in Seq(Nat)
    BY Lengths DEF Frames
  <2>2. Rest(rx, 1) \in Seq(Nat) /\ Len(Rest(rx, 1)) = Len(rx) - 1
    BY <1>5, <2>1, FirstRest, Zenon
  <2> QED
    BY <1>3, <2>2 DEF Frames
<1>7. batch' \in Frames /\ Len(batch') = Len(batch) + n
  <2>1. put \in Nat /\ batch \in Frames
    BY Lengths
  <2>2. Numbered(put, n) \in Frames /\ Len(Numbered(put, n)) = n
    BY <1>4, <2>1, NumberedOrder
  <2>3. /\ batch \o Numbered(put, n) \in Frames
        /\ Len(batch \o Numbered(put, n)) = Len(batch) + Len(Numbered(put, n))
    BY <2>1, <2>2, ConcatFrames
  <2> QED
    BY <1>3, <2>2, <2>3
<1>8. handled' \in Nat /\ InLine(rx', rx_ring, rxl, handled', arrived)
  BY <1>3, <1>5, Lengths, LeftInLine DEF NetifInv
<1>9. InLine(txl, tx_ring, batch', sent, put')
  BY <1>3, <1>4, Lengths, JoinedInLine DEF NetifInv
<1>10. Counted'
  <2>1. PoolSize = Total(pool + e + u - p, ndrop + d, held - f - e + h, Len(rx) - 1,
                         Len(rx_ring), Len(rxl), Len(txl), Len(tx_ring), Len(batch) + n)
    <3>1. Balance
      BY Sum
    <3>2. /\ d \in Nat /\ t \in Nat /\ h \in Nat /\ u \in Nat /\ p \in Nat
          /\ d + t + h + u = 1 /\ n = f + t + p /\ f \in Nat /\ e \in Nat
      BY <1>1, <1>4
    <3>3. PoolSize = (pool + e + u - p) + (ndrop + d) + (held - f - e + h)
                       + (Len(rx) - (d + t + h + u)) + Len(rx_ring) + Len(rxl)
                       + Len(txl) + Len(tx_ring) + (Len(batch) + (f + t + p))
      BY <3>1, <3>2 DEF Balance
    <3>4. PoolSize = (pool + e + u - p) + (ndrop + d) + (held - f - e + h)
                       + (Len(rx) - 1) + Len(rx_ring) + Len(rxl)
                       + Len(txl) + Len(tx_ring) + (Len(batch) + n)
      BY <3>2, <3>3
    <3> QED
      BY <3>4, Zenon DEF Total
  <2> QED
    BY <1>3, <1>6, <1>7, <2>1 DEF Counted
<1>11. ndrop' + Len(rx') <= RxBurst /\ Len(rx') <= RxBurst /\ ndrop' \in 0 .. RxBurst
  <2>1. /\ ndrop \in Nat /\ Len(rx) \in Nat /\ Len(rx) # 0
        /\ ndrop + Len(rx) <= RxBurst /\ RxBurst \in Nat
    BY <1>5, Lengths, Constants DEF NetifInv
  <2>2. ndrop + d + (Len(rx) - 1) <= RxBurst /\ d \in Nat
    BY <1>1, <2>1
  <2> QED
    BY <1>3, <1>6, <2>1, <2>2
<1>12. NetifTypeOK'
  <2>1. pool' \in 0 .. PoolSize /\ held' \in 0 .. PoolSize
    BY <1>3, <1>4, <1>6, <1>7, <1>10, Lengths, PoolBound
  <2>2. wpc' \in {"recv", "handle", "send"}
    BY <1>3
  <2>3. UNCHANGED <<mode_, loops, arrived, rxl, rx_ring, tx_ring, txl, sent>>
    BY <1>3
  <2> QED
    BY <1>4, <1>6, <1>7, <1>8, <1>11, <2>1, <2>2, <2>3 DEF NetifInv, NetifTypeOK
<1>13. Phases'
  <2>1. Len(rx) = 1 <=> Len(rx') = 0
    BY <1>6, Lengths
  <2>2. Len(rx') = 0 <=> rx' = <<>>
    BY <1>6, EmptySeq DEF Frames
  <2>3. /\ wpc' \in {"handle", "send"} /\ (wpc' = "send" <=> rx' = <<>>)
        /\ UNCHANGED <<mode_, loops, rxl, rx_ring, tx_ring, txl>>
    BY <1>3, <2>1, <2>2
  <2> QED
    BY <2>3 DEF NetifInv, Phases
<1> QED
  BY <1>3, <1>8, <1>9, <1>10, <1>11, <1>12, <1>13 DEF NetifInv

(* expire_pending gives held packets back. *)
LEMMA ExpirePendingStep ==
  ASSUME NetifInv, NEW e \in 1 .. held, ExpirePending(e)
  PROVE  NetifInv'
<1> USE DEF modeVars, rxVars, txVars
<1>1. /\ held' = held - e /\ pool' = pool + e /\ e \in Nat /\ e <= held
      /\ UNCHANGED <<mode_, loops, arrived, rxl, rx_ring, tx_ring, txl, sent>>
      /\ UNCHANGED <<wpc, rx, batch, ndrop, handled, put>>
  BY Lengths DEF ExpirePending
<1>2. Counted'
  <2>1. PoolSize = Total(pool + e, ndrop, held - e, Len(rx), Len(rx_ring), Len(rxl),
                         Len(txl), Len(tx_ring), Len(batch))
    <3>1. Balance
      BY Sum
    <3> QED
      BY <1>1, <3>1 DEF Balance, Total
  <2> QED
    BY <1>1, <2>1 DEF Counted
<1>3. pool' \in 0 .. PoolSize /\ held' \in 0 .. PoolSize
  <2>1. pool' \in Nat /\ held' \in Nat /\ ndrop' \in Nat
    BY <1>1, Lengths
  <2> QED
    BY <1>1, <1>2, <2>1, Lengths, PoolBound
<1>4. NetifTypeOK'
  BY <1>1, <1>3 DEF NetifInv, NetifTypeOK
<1>5. Phases'
  BY <1>1 DEF NetifInv, Phases
<1> QED
  BY <1>1, <1>2, <1>4, <1>5 DEF NetifInv

(* send_burst pushes what fits on tx_ring and goes on from there. *)
LEMMA SendBurstStep ==
  ASSUME NetifInv, SendBurst
  PROVE  NetifInv'
<1> USE DEF modeVars, rxVars
<1> DEFINE en == Pushed(tx_ring, batch)
<1>1. /\ mode_ = "pipeline" /\ wpc = "send"
      /\ tx_ring' = tx_ring \o First(batch, en) /\ batch' = Rest(batch, en)
      /\ UNCHANGED <<mode_, loops, pool, arrived, rxl, rx_ring, txl, sent>>
      /\ UNCHANGED <<wpc, rx, ndrop, held, handled, put>>
  BY DEF SendBurst
<1>2. en \in 0 .. Len(batch) /\ Len(tx_ring) + en <= Capacity
  BY Lengths, PushedFits DEF NetifInv, NetifTypeOK
<1> HIDE DEF en
<1>3. Moved(tx_ring, batch, en, tx_ring', batch')
  BY <1>1, <1>2, Lengths, MoveBurst
<1>4. /\ tx_ring' \in Frames /\ batch' \in Frames
      /\ Len(tx_ring') = Len(tx_ring) + en /\ Len(batch') = Len(batch) - en
  BY <1>3, Zenon DEF Moved
<1>5. Counted'
  <2>1. PoolSize = Total(pool, ndrop, held, Len(rx), Len(rx_ring), Len(rxl),
                         Len(txl), Len(tx_ring) + en, Len(batch) - en)
    <3>1. Balance
      BY Sum
    <3> QED
      BY <1>2, <3>1 DEF Balance, Total
  <2> QED
    BY <1>1, <1>4, <2>1 DEF Counted
<1>6. NetifTypeOK'
  <2>1. Len(tx_ring') <= Capacity
    BY <1>2, <1>4
  <2> QED
    BY <1>1, <1>4, <2>1 DEF NetifInv, NetifTypeOK
<1>7. InLine(txl, tx_ring', batch', sent, put)
  BY <1>3, Lengths, MovedInLine DEF NetifInv
<1>8. Phases'
  BY <1>1 DEF NetifInv, Phases
<1> QED
  BY <1>1, <1>5, <1>6, <1>7, <1>8 DEF NetifInv

(* In run-to-completion mode the driver takes part of the array; when it   *)
(* takes none the worker frees the rest.                                   *)
LEMMA RtcSendStep ==
  ASSUME NetifInv, NEW n \in 0 .. RxBurst, RtcSend(n)
  PROVE  NetifInv'
<1> USE DEF modeVars, rxVars
<1>1. /\ mode_ = "rtc" /\ wpc = "send" /\ n <= Len(batch)
      /\ UNCHANGED <<mode_, loops, arrived, rxl, rx_ring, tx_ring, txl>>
      /\ UNCHANGED <<wpc, rx, ndrop, held, handled, put>>
  BY DEF RtcSend
<1>2. tx_ring = <<>> /\ txl = <<>>
  BY <1>1 DEF NetifInv, Phases
<1>3. n \in Nat /\ n \in 0 .. Len(batch)
  BY <1>1, Lengths, Constants
<1>4. InLine(<<>>, <<>>, batch, sent, put) /\ InLine(batch, <<>>, <<>>, sent, put)
  <2>1. InLine(<<>>, <<>>, batch, sent, put)
    BY <1>2 DEF NetifInv
  <2> QED
    BY <2>1, Lengths, AloneInLine
<1>5. PICK k \in 0 .. Len(batch) :
        /\ pool' = pool + k /\ batch' \in Frames /\ Len(batch') = Len(batch) - k
        /\ sent' \in Nat /\ InLine(<<>>, <<>>, batch', sent', put)
  <2>1. CASE n = 0
    <3>1. batch' = <<>> /\ pool' = pool + Len(batch) /\ sent' = sent
      BY <2>1 DEF RtcSend
    <3>2. Len(batch) \in 0 .. Len(batch) /\ 0 = Len(batch) - Len(batch)
      BY Lengths
    <3>3. InLine(<<>>, <<>>, <<>>, sent, put)
      BY <1>4, Lengths, EmptyOrder, EmptiedInLine
    <3> WITNESS Len(batch) \in 0 .. Len(batch)
    <3> QED
      BY <3>1, <3>2, <3>3, Lengths, EmptyOrder
  <2>2. CASE n # 0
    <3>1. batch' = Rest(batch, n) /\ pool' = pool + n /\ sent' = batch[n]
      BY <2>2 DEF RtcSend
    <3>2. n \in 1 .. Len(batch)
      BY <1>3, <2>2, Lengths
    <3>3. batch[n] \in Nat /\ InLine(Rest(batch, n), <<>>, <<>>, batch[n], put)
      BY <1>4, <3>2, Lengths, EmptyOrder, LeftInLine
    <3>4. Rest(batch, n) \in Frames /\ Len(Rest(batch, n)) = Len(batch) - n
      BY <1>3, Lengths, FirstRest, Zenon DEF Frames
    <3>5. InLine(<<>>, <<>>, Rest(batch, n), batch[n], put)
      BY <3>3, <3>4, Lengths, AloneInLine
    <3> WITNESS n \in 0 .. Len(batch)
    <3> QED
      BY <3>1, <3>3, <3>4, <3>5
  <2> QED
    BY <2>1, <2>2
<1>6. Counted'
  <2>1. PoolSize = Total(pool + k, ndrop, held, Len(rx), Len(rx_ring), Len(rxl),
                         Len(txl), Len(tx_ring), Len(batch) - k)
    <3>1. Balance
      BY Sum
    <3> QED
      BY <3>1 DEF Balance, Total
  <2> QED
    BY <1>1, <1>5, <2>1 DEF Counted
<1>7. pool' \in 0 .. PoolSize
  <2>1. pool' \in Nat
    <3>1. pool \in Nat /\ Len(batch) \in Nat
      BY Lengths
    <3> QED
      BY <1>5, <3>1
  <2> QED
    BY <1>1, <1>5, <1>6, <2>1, Lengths, PoolBound
<1>8. NetifTypeOK'
  BY <1>1, <1>5, <1>7 DEF NetifInv, NetifTypeOK
<1>9. Phases'
  BY <1>1 DEF NetifInv, Phases
<1> QED
  BY <1>1, <1>2, <1>5, <1>6, <1>8, <1>9 DEF NetifInv

(* The worker frees what it drops once its array is sent. *)
LEMMA WorkerDoneStep ==
  ASSUME NetifInv, WorkerDone
  PROVE  NetifInv'
<1> USE DEF modeVars, rxVars, txVars
<1>1. /\ wpc = "send" /\ batch = <<>> /\ pool' = pool + ndrop /\ ndrop' = 0 /\ wpc' = "recv"
      /\ UNCHANGED <<mode_, loops, arrived, rxl, rx_ring, tx_ring, txl, sent>>
      /\ UNCHANGED <<rx, batch, held, handled, put>>
  BY DEF WorkerDone
<1>2. Counted'
  <2>1. PoolSize = Total(pool + ndrop, 0, held, Len(rx), Len(rx_ring), Len(rxl),
                         Len(txl), Len(tx_ring), Len(batch))
    <3>1. Balance
      BY Sum
    <3> QED
      BY <3>1 DEF Balance, Total
  <2> QED
    BY <1>1, <2>1 DEF Counted
<1>3. pool' \in 0 .. PoolSize
  <2>1. pool' \in Nat /\ ndrop' \in Nat
    BY <1>1, Lengths
  <2> QED
    BY <1>1, <1>2, <2>1, Lengths, PoolBound
<1>4. NetifTypeOK'
  BY <1>1, <1>3, Constants DEF NetifInv, NetifTypeOK
<1>5. Phases'
  BY <1>1 DEF NetifInv, Phases
<1>6. ndrop' + Len(rx') <= RxBurst
  BY <1>1, Lengths, Constants DEF NetifInv
<1> QED
  BY <1>1, <1>2, <1>4, <1>5, <1>6 DEF NetifInv

(* nic_send pops a burst from tx_ring. *)
LEMMA NicPopStep ==
  ASSUME NetifInv, NicPop
  PROVE  NetifInv'
<1> USE DEF modeVars, rxVars, workerVars
<1> DEFINE n == Popped(tx_ring, TxBurst)
<1>1. /\ "run_send" \in loops /\ txl = <<>>
      /\ txl' = First(tx_ring, n) /\ tx_ring' = Rest(tx_ring, n)
      /\ UNCHANGED <<mode_, loops, pool, arrived, rxl, rx_ring, sent>>
      /\ UNCHANGED <<wpc, rx, batch, ndrop, held, handled, put>>
  BY DEF NicPop
<1>2. n \in 0 .. Len(tx_ring) /\ n <= TxBurst
  <2>1. TxBurst \in Nat
    BY Constants
  <2> QED
    BY <2>1, Lengths, PoppedFits
<1> HIDE DEF n
<1>3. Moved(txl, tx_ring, n, txl', tx_ring')
  BY <1>1, <1>2, Lengths, PopBurst
<1>4. /\ txl' \in Frames /\ tx_ring' \in Frames
      /\ Len(txl') = Len(txl) + n /\ Len(tx_ring') = Len(tx_ring) - n
  BY <1>3, Zenon DEF Moved
<1>5. Counted'
  <2>1. PoolSize = Total(pool, ndrop, held, Len(rx), Len(rx_ring), Len(rxl),
                         Len(txl) + n, Len(tx_ring) - n, Len(batch))
    <3>1. Balance
      BY Sum
    <3> QED
      BY <1>2, <3>1 DEF Balance, Total
  <2> QED
    BY <1>1, <1>4, <2>1 DEF Counted
<1>6. NetifTypeOK'
  <2>1. Len(txl) = 0
    BY <1>1, EmptyOrder
  <2>2. Len(txl') <= TxBurst /\ Len(tx_ring') <= Capacity
    BY <1>2, <1>4, <2>1, Lengths, Constants DEF NetifInv, NetifTypeOK
  <2> QED
    BY <1>1, <1>4, <2>2 DEF NetifInv, NetifTypeOK
<1>7. InLine(txl', tx_ring', batch, sent, put)
  BY <1>3, Lengths, MovedInLine DEF NetifInv
<1>8. Phases'
  BY <1>1 DEF NetifInv, Phases
<1> QED
  BY <1>1, <1>5, <1>6, <1>7, <1>8 DEF NetifInv

(* nic_send hands the driver part of a burst and frees the rest. *)
LEMMA NicSendStep ==
  ASSUME NetifInv, NEW n \in 0 .. TxBurst, NicSend(n)
  PROVE  NetifInv'
<1> USE DEF modeVars, rxVars, workerVars
<1>1. /\ txl # <<>> /\ n <= Len(txl) /\ sent' = IF n = 0 THEN sent ELSE txl[n]
      /\ pool' = pool + Len(txl) /\ txl' = <<>>
      /\ UNCHANGED <<mode_, loops, arrived, rxl, rx_ring, tx_ring>>
      /\ UNCHANGED <<wpc, rx, batch, ndrop, held, handled, put>>
  BY DEF NicSend
<1>2. Counted'
  <2>1. PoolSize = Total(pool + Len(txl), ndrop, held, Len(rx), Len(rx_ring), Len(rxl),
                         0, Len(tx_ring), Len(batch))
    <3>1. Balance
      BY Sum
    <3> QED
      BY <3>1 DEF Balance, Total
  <2> QED
    BY <1>1, <2>1, EmptyOrder DEF Counted
<1>3. pool' \in 0 .. PoolSize
  <2>1. pool' \in Nat /\ txl' \in Frames
    BY <1>1, Lengths, EmptyOrder
  <2> QED
    BY <1>1, <1>2, <2>1, Lengths, PoolBound
<1>4. sent' \in Nat /\ InLine(<<>>, tx_ring, batch, sent', put)
  <2>1. CASE n = 0
    BY <1>1, <2>1, Lengths, EmptiedInLine DEF NetifInv
  <2>2. CASE n # 0
    <3>1. n \in 1 .. Len(txl) /\ n \in 0 .. Len(txl) /\ sent' = txl[n]
      BY <1>1, <2>2, Lengths, Constants
    <3>2. txl[n] \in Nat /\ InLine(Rest(txl, n), tx_ring, batch, txl[n], put)
      BY <3>1, Lengths, LeftInLine DEF NetifInv
    <3>3. Rest(txl, n) \in Frames
      BY <3>1, Lengths, FirstRest, Zenon DEF Frames
    <3>4. InLine(<<>>, tx_ring, batch, txl[n], put)
      BY <3>2, <3>3, Lengths, EmptiedInLine
    <3> QED
      BY <3>1, <3>2, <3>4
  <2> QED
    BY <2>1, <2>2
<1>5. NetifTypeOK'
  BY <1>1, <1>3, <1>4, EmptyOrder, Constants DEF NetifInv, NetifTypeOK
<1>6. Phases'
  BY <1>1 DEF NetifInv, Phases
<1> QED
  BY <1>1, <1>2, <1>4, <1>5, <1>6 DEF NetifInv

-----------------------------------------------------------------------------
(* The theorems *)

(* Initially every place is empty. *)
LEMMA NetifInvInit == NetifInit => NetifInv
<1> SUFFICES ASSUME NetifInit
             PROVE  NetifInv
  OBVIOUS
<1>1. NetifTypeOK
  BY EmptyOrder, Constants DEF NetifInit, NetifTypeOK
<1>2. Counted
  <2>1. PoolSize = Total(PoolSize, 0, 0, 0, 0, 0, 0, 0, 0)
    BY Constants DEF Total
  <2> QED
    BY <2>1, EmptyOrder DEF NetifInit, Counted
<1>3. InLine(<<>>, <<>>, <<>>, 0, 0)
  <2>1. <<>> \in Seq(Int) /\ 0 \in Int
    BY EmptyOrder, FramesAreInts
  <2>2. Sorted(<<>>) /\ Before(<<>>, <<>>) /\ Within(<<>>, 0, 0)
    BY <2>1, EmptyOrder, Zenon
  <2> QED
    BY <2>2 DEF InLine
<1>4. Phases
  BY DEF NetifInit, Phases
<1>5. ndrop + Len(rx) <= RxBurst
  BY EmptyOrder, Constants DEF NetifInit
<1> QED
  BY <1>1, <1>2, <1>3, <1>4, <1>5 DEF NetifInit, NetifInv

(* Every step of every loop keeps the invariant. *)
LEMMA NetifInvNext == NetifInv /\ [NetifNext]_netifVars => NetifInv'
<1> SUFFICES ASSUME NetifInv, [NetifNext]_netifVars
             PROVE  NetifInv'
  OBVIOUS
<1>1. CASE RxLcore
  BY <1>1, NicPollStep, NicRecvStep DEF RxLcore
<1>2. CASE RtcPoll
  BY <1>2, RtcRecvStep DEF RtcPoll
<1>3. CASE Expire
  BY <1>3, ExpirePendingStep DEF Expire
<1>4. CASE Worker
  <2>1. CASE WorkerRecv
    BY <2>1, WorkerRecvStep
  <2>2. CASE HandleNext
    BY <2>2, HandleStep DEF HandleNext
  <2>3. CASE SendNext
    BY <2>3, SendBurstStep, RtcSendStep, WorkerDoneStep DEF SendNext
  <2> QED
    BY <1>4, <2>1, <2>2, <2>3 DEF Worker
<1>5. CASE TxLcore
  BY <1>5, NicPopStep, NicSendStep DEF TxLcore
<1>6. CASE UNCHANGED netifVars
  BY <1>6 DEF netifVars, modeVars, rxVars, txVars, workerVars, NetifInv, NetifTypeOK,
              Counted, Phases
<1> QED
  BY <1>1, <1>2, <1>3, <1>4, <1>5, <1>6 DEF NetifNext, Overrun

(* The invariant holds in every behaviour. *)
LEMMA NetifAlways == NetifSpec => []NetifInv
BY NetifInvInit, NetifInvNext, PTL DEF NetifSpec

(* Every ring stays within its capacity, every array but the tx array      *)
(* within its burst, and the pool within its size.                         *)
THEOREM NetifTyped == NetifSpec => []NetifTypeOK
<1>1. NetifInv => NetifTypeOK
  BY DEF NetifInv
<1> QED
  BY <1>1, NetifAlways, PTL

(* The length of three places in a row. *)
LEMMA ThreeLong ==
  ASSUME NEW a \in Frames, NEW b \in Frames, NEW c \in Frames
  PROVE  /\ a \o b \in Frames /\ a \o b \o c \in Frames
         /\ Len(a \o b \o c) = Len(a) + Len(b) + Len(c)
<1>1. a \o b \in Frames /\ Len(a \o b) = Len(a) + Len(b)
  BY ConcatFrames
<1>2. (a \o b) \o c \in Frames /\ Len((a \o b) \o c) = Len(a \o b) + Len(c)
  BY <1>1, ConcatFrames
<1> QED
  BY <1>1, <1>2

(* No mbuf is lost or freed twice on the way from the NIC to the worker,   *)
(* in its hands, or on the way back, for every size of rings, bursts and   *)
(* pool and in both modes.                                                 *)
THEOREM NetifConserved == NetifSpec => []Conserved
<1>1. NetifInv => Conserved
  <2> SUFFICES ASSUME NetifInv
               PROVE  Conserved
    OBVIOUS
  <2>1. /\ Len(Incoming) = Len(rx) + Len(rx_ring) + Len(rxl)
        /\ Len(Outgoing) = Len(txl) + Len(tx_ring) + Len(batch)
    BY Lengths, ThreeLong DEF Incoming, Outgoing
  <2>2. PoolSize = pool + ndrop + held + (Len(rx) + Len(rx_ring) + Len(rxl))
                     + (Len(txl) + Len(tx_ring) + Len(batch))
    <3>1. Balance
      BY Sum
    <3> QED
      BY <3>1 DEF Balance
  <2> QED
    BY <2>1, <2>2 DEF Conserved
<1> QED
  BY <1>1, NetifAlways, PTL

(* What is in line, after the last that left it, is increasing. *)
LEMMA LineIncreasing ==
  ASSUME NEW a \in Frames, NEW b \in Frames, NEW c \in Frames,
         NEW lo \in Nat, NEW hi \in Nat, InLine(a, b, c, lo, hi)
  PROVE  Increasing(<<lo>> \o (a \o b \o c))
<1> DEFINE ab == a \o b
           abc == ab \o c
           q == <<lo>> \o abc
<1>1. /\ a \in Seq(Int) /\ b \in Seq(Int) /\ c \in Seq(Int)
      /\ ab \in Seq(Int) /\ abc \in Seq(Int) /\ lo \in Int /\ hi \in Int
  BY ThreeLong, FramesAreInts
<1>2. Sorted(ab) /\ Within(ab, lo, hi) /\ Before(ab, c)
  BY <1>1, ConcatOrder DEF InLine
<1> HIDE DEF ab
<1>3. Sorted(abc) /\ Within(abc, lo, hi)
  BY <1>1, <1>2, ConcatOrder DEF InLine
<1> HIDE DEF abc
<1>4. <<lo>> \in Seq(Int) /\ Len(<<lo>>) = 1 /\ <<lo>>[1] = lo
  BY <1>1
<1>5. Sorted(<<lo>>) /\ Before(<<lo>>, abc)
  BY <1>3, <1>4 DEF Sorted, Before, Within
<1>6. Sorted(q) /\ Len(q) \in Nat
  <2>1. Sorted(q)
    BY <1>1, <1>3, <1>4, <1>5, ConcatOrder
  <2>2. q \in Seq(Int)
    BY <1>1, <1>4, ConcatProperties, Zenon
  <2> QED
    BY <2>1, <2>2, SeqFacts
<1> HIDE DEF q
<1>7. \A i \in 1 .. (Len(q) - 1) : i \in 1 .. Len(q) /\ i + 1 \in 1 .. Len(q) /\ i < i + 1
  BY <1>6
<1>8. Increasing(q)
  BY <1>6, <1>7 DEF Sorted, Increasing
<1> QED
  BY <1>8 DEF q, abc, ab

(* The netif hands frames to the worker in the order of their arrival and  *)
(* to the NIC in the order in which the worker transmits them, and none    *)
(* twice, whatever part of a burst each hop moves, drops or refuses.       *)
THEOREM NetifInOrder == NetifSpec => []InOrder
<1>1. NetifInv => InOrder
  BY Lengths, LineIncreasing DEF NetifInv, InOrder, Incoming, Outgoing
<1> QED
  BY <1>1, NetifAlways, PTL

=============================================================================
