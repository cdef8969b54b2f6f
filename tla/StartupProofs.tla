---------------------------- MODULE StartupProofs ----------------------------
(***************************************************************************)
(* Proofs about Startup for every command line, every value of the flags,  *)
(* every width of the integer types and every number of ports and lcores:  *)
(* how the command line is divided, that no flag is cut on its way into    *)
(* the configuration, and the state in which the worker loop starts.       *)
(***************************************************************************)
EXTENDS Startup, SequenceTheorems, TLAPS

(* How long a prover may try a step. *)
USE SMTT(20), ZenonT(20), Z3T(20)

-----------------------------------------------------------------------------
(* Sequences of indices *)

(* What is appended behind smaller indices keeps the order. *)
LEMMA Extended ==
  ASSUME NEW k \in Nat, NEW n \in Nat, k <= n,
         NEW s \in Seq(1 .. k), Increasing(s),
         NEW t \in Seq((k + 1) .. n), Increasing(t)
  PROVE  /\ s \o t \in Seq(1 .. n)
         /\ Increasing(s \o t)
         /\ Listed(s \o t) = Listed(s) \cup Listed(t)
<1>1. /\ Len(s) \in Nat /\ Len(t) \in Nat
      /\ \A a \in 1 .. Len(s) : s[a] \in 1 .. k
      /\ \A a \in 1 .. Len(t) : t[a] \in (k + 1) .. n
  BY LenProperties, ElementOfSeq
<1>2. s \in Seq(1 .. n) /\ t \in Seq(1 .. n)
  <2>1. /\ s = [a \in 1 .. Len(s) |-> s[a]] /\ t = [a \in 1 .. Len(t) |-> t[a]]
    BY LenProperties
  <2>2. /\ \A a \in 1 .. Len(s) : s[a] \in 1 .. n
        /\ \A a \in 1 .. Len(t) : t[a] \in 1 .. n
    BY <1>1
  <2> QED
    BY <1>1, <2>1, <2>2
<1> DEFINE u == s \o t
<1>3. /\ u \in Seq(1 .. n)
      /\ Len(u) = Len(s) + Len(t)
      /\ \A a \in 1 .. (Len(s) + Len(t)) :
           u[a] = IF a <= Len(s) THEN s[a] ELSE t[a - Len(s)]
  BY <1>2, ConcatProperties, ZenonT(20)
<1> HIDE DEF u
<1>4. ASSUME NEW a \in 1 .. Len(u)
      PROVE  \/ a \in 1 .. Len(s) /\ u[a] = s[a] /\ u[a] <= k
             \/ a - Len(s) \in 1 .. Len(t) /\ u[a] = t[a - Len(s)] /\ u[a] > k
  <2>1. CASE a <= Len(s)
    <3>1. a \in 1 .. Len(s) /\ u[a] = s[a]
      BY <1>1, <1>3, <2>1
    <3> QED
      BY <1>1, <3>1
  <2>2. CASE ~(a <= Len(s))
    <3>1. a - Len(s) \in 1 .. Len(t) /\ u[a] = t[a - Len(s)]
      BY <1>1, <1>3, <2>2
    <3>2. t[a - Len(s)] \in (k + 1) .. n
      BY <1>1, <3>1
    <3> QED
      BY <3>1, <3>2
  <2> QED
    BY <2>1, <2>2
<1>5. Increasing(u)
  <2> SUFFICES ASSUME NEW a \in 1 .. Len(u), NEW b \in 1 .. Len(u), a < b
               PROVE  u[a] < u[b]
    BY DEF Increasing
  <2>1. u[a] \in Nat /\ u[b] \in Nat
    BY <1>3
  <2>2. CASE a \in 1 .. Len(s) /\ b \in 1 .. Len(s)
    <3>1. u[a] = s[a] /\ u[b] = s[b]
      BY <1>1, <1>3, <2>2
    <3> QED
      BY <2>2, <3>1 DEF Increasing
  <2>3. CASE a \in 1 .. Len(s) /\ b \notin 1 .. Len(s)
    <3>1. u[a] <= k
      <4>1. a <= Len(s) /\ u[a] = s[a]
        BY <1>1, <1>3, <2>3
      <4> QED
        BY <1>1, <2>3, <4>1
    <3>2. u[b] > k
      <4>1. b - Len(s) \in 1 .. Len(t) /\ u[b] = t[b - Len(s)]
        BY <1>1, <1>3, <2>3
      <4>2. t[b - Len(s)] \in (k + 1) .. n
        BY <1>1, <4>1
      <4> QED
        BY <4>1, <4>2
    <3> QED
      BY <2>1, <3>1, <3>2
  <2>4. CASE a \notin 1 .. Len(s)
    <3>1. Len(u) = Len(s) + Len(t) /\ Len(s) \in Nat /\ Len(t) \in Nat
      BY <1>1, <1>3
    <3>2. /\ ~(a <= Len(s)) /\ a - Len(s) \in 1 .. Len(t)
          /\ ~(b <= Len(s)) /\ b - Len(s) \in 1 .. Len(t)
          /\ a - Len(s) < b - Len(s)
          /\ a \in 1 .. (Len(s) + Len(t)) /\ b \in 1 .. (Len(s) + Len(t))
      BY <2>4, <3>1
    <3>3. u[a] = t[a - Len(s)] /\ u[b] = t[b - Len(s)]
      BY <1>3, <3>2, ZenonT(20)
    <3> QED
      <4>1. t[a - Len(s)] < t[b - Len(s)]
        BY <3>2, ZenonT(20) DEF Increasing
      <4> QED
        BY <3>3, <4>1, ZenonT(20)
  <2> QED
    BY <2>2, <2>3, <2>4
<1>6. Listed(u) = Listed(s) \cup Listed(t)
  <2>1. ASSUME NEW x \in Listed(u)
        PROVE  x \in Listed(s) \cup Listed(t)
    BY <1>4 DEF Listed
  <2>2. ASSUME NEW a \in 1 .. Len(s)
        PROVE  a \in 1 .. Len(u) /\ u[a] = s[a]
    <3>1. a \in 1 .. (Len(s) + Len(t)) /\ a <= Len(s)
      BY <1>1
    <3> QED
      BY <1>3, <3>1, ZenonT(20)
  <2>3. ASSUME NEW a \in 1 .. Len(t)
        PROVE  a + Len(s) \in 1 .. Len(u) /\ u[a + Len(s)] = t[a]
    <3>1. a + Len(s) \in 1 .. (Len(s) + Len(t)) /\ ~(a + Len(s) <= Len(s))
      BY <1>1
    <3>2. (a + Len(s)) - Len(s) = a
      BY <1>1
    <3> QED
      BY <1>3, <3>1, <3>2, ZenonT(20)
  <2>4. Listed(s) \cup Listed(t) \subseteq Listed(u)
    BY <2>2, <2>3 DEF Listed
  <2> QED
    BY <2>1, <2>4
<1> QED
  BY <1>3, <1>5, <1>6 DEF u

(* Appending nothing, the next index or the next two. *)
LEMMA ExtendedBy ==
  ASSUME NEW k \in Nat, NEW n \in Nat, k <= n,
         NEW s \in Seq(1 .. k), Increasing(s)
  PROVE  /\ s \in Seq(1 .. n)
         /\ k + 1 <= n => /\ Append(s, k + 1) \in Seq(1 .. n)
                          /\ Increasing(Append(s, k + 1))
                          /\ Listed(Append(s, k + 1)) = Listed(s) \cup {k + 1}
         /\ k + 2 <= n => /\ s \o <<k + 1, k + 2>> \in Seq(1 .. n)
                          /\ Increasing(s \o <<k + 1, k + 2>>)
                          /\ Listed(s \o <<k + 1, k + 2>>) = Listed(s) \cup {k + 1, k + 2}
<1>1. s \in Seq(1 .. n)
  <2>1. <<>> \in Seq((k + 1) .. n) /\ Increasing(<<>>)
    BY DEF Increasing
  <2>2. s \o <<>> \in Seq(1 .. n)
    BY <2>1, Extended
  <2> QED
    BY <2>2, ConcatEmptySeq
<1>2. ASSUME k + 1 <= n
      PROVE  /\ Append(s, k + 1) \in Seq(1 .. n)
             /\ Increasing(Append(s, k + 1))
             /\ Listed(Append(s, k + 1)) = Listed(s) \cup {k + 1}
  <2> DEFINE t == <<k + 1>>
  <2>1. t \in Seq((k + 1) .. n) /\ Increasing(t) /\ Listed(t) = {k + 1}
    BY <1>2 DEF Increasing, Listed
  <2>2. Append(s, k + 1) = s \o t
    BY <1>1, <1>2, AppendIsConcat
  <2> HIDE DEF t
  <2>3. /\ s \o t \in Seq(1 .. n) /\ Increasing(s \o t)
        /\ Listed(s \o t) = Listed(s) \cup {k + 1}
    BY <2>1, Extended
  <2> QED
    BY <2>2, <2>3
<1>3. ASSUME k + 2 <= n
      PROVE  /\ s \o <<k + 1, k + 2>> \in Seq(1 .. n)
             /\ Increasing(s \o <<k + 1, k + 2>>)
             /\ Listed(s \o <<k + 1, k + 2>>) = Listed(s) \cup {k + 1, k + 2}
  <2> DEFINE t == <<k + 1, k + 2>>
  <2>1. t \in Seq((k + 1) .. n) /\ Increasing(t) /\ Listed(t) = {k + 1, k + 2}
    <3>1. Len(t) = 2 /\ t[1] = k + 1 /\ t[2] = k + 2 /\ t \in Seq((k + 1) .. n)
      BY <1>3
    <3>2. \A a \in 1 .. Len(t) : a = 1 \/ a = 2
      BY <3>1
    <3> HIDE DEF t
    <3>3. Increasing(t)
      BY <3>1, <3>2 DEF Increasing
    <3>4. Listed(t) = {k + 1, k + 2}
      BY <3>1, <3>2 DEF Listed
    <3> QED
      BY <3>1, <3>3, <3>4
  <2> HIDE DEF t
  <2>2. /\ s \o t \in Seq(1 .. n) /\ Increasing(s \o t)
        /\ Listed(s \o t) = Listed(s) \cup {k + 1, k + 2}
    BY <2>1, Extended
  <2> QED
    BY <2>2 DEF t
<1> QED
  BY <1>1, <1>2, <1>3

(* The arguments from one on, as the "--" passes them on. *)
LEMMA IndicesFacts ==
  ASSUME argv \in Seq(Argument), NEW from \in 1 .. Len(argv)
  PROVE  /\ Indices(from) \in Seq(from .. Len(argv))
         /\ Increasing(Indices(from))
         /\ Listed(Indices(from)) = from .. Len(argv)
<1> DEFINE s == Indices(from)
           n == Len(argv) - from + 1
<1>1. Len(argv) \in Nat /\ n \in Nat
  BY LenProperties
<1>2. s = [a \in 1 .. n |-> from + a - 1]
  BY DEF Indices
<1>3. \A a \in 1 .. n : from + a - 1 \in from .. Len(argv)
  BY <1>1
<1>4. s \in Seq(from .. Len(argv)) /\ Len(s) = n
  BY <1>1, <1>2, <1>3
<1>5. \A a \in 1 .. n : s[a] = from + a - 1
  BY <1>2
<1> HIDE DEF s
<1>6. Increasing(s)
  BY <1>1, <1>4, <1>5 DEF Increasing
<1>7. Listed(s) = from .. Len(argv)
  <2>1. Listed(s) \subseteq from .. Len(argv)
    BY <1>3, <1>4, <1>5 DEF Listed
  <2>2. ASSUME NEW x \in from .. Len(argv)
        PROVE  x \in Listed(s)
    <3>1. x - from + 1 \in 1 .. n /\ from + (x - from + 1) - 1 = x
      BY <1>1
    <3>2. s[x - from + 1] = x
      BY <1>5, <3>1
    <3> QED
      BY <1>4, <3>1, <3>2 DEF Listed
  <2> QED
    BY <2>1, <2>2
<1> QED
  BY <1>4, <1>6, <1>7 DEF s

-----------------------------------------------------------------------------
(* How the command line is divided *)

(* The first k - 1 arguments of A are divided: O is the gateway's part and *)
(* T is DPDK's.  While there are more to look at, no "--" has been seen.   *)
Divided(A, k, O, T) ==
  /\ O \cup T = 1 .. (k - 1)
  /\ O \cap T = {1}
  /\ \A n \in O \ {1} :
       \/ A[n].vgw_flag
       \/ n - 1 \in O /\ A[n - 1].requires_value /\ ~A[n - 1].has_value
  /\ \A n \in T \ {1} : A[n].vgw_flag => \E m \in T \ {1} : m <= n /\ A[m].dashes
  /\ \A m \in T \ {1}, n \in O : A[m].dashes => n < m
  /\ k <= Len(A) => \A m \in T \ {1} : ~A[m].dashes

(* A "--" gives DPDK everything that is left. *)
LEMMA DividedDashes ==
  ASSUME NEW A \in Seq(Argument), NEW k \in 2 .. Len(A), NEW O, NEW T,
         Divided(A, k, O, T), A[k].dashes
  PROVE  Divided(A, Len(A) + 1, O, T \cup (k .. Len(A)))
<1> DEFINE T1 == T \cup (k .. Len(A))
<1>1. Len(A) \in Nat
  BY LenProperties
<1>2. O \cup T1 = 1 .. ((Len(A) + 1) - 1) /\ O \cap T1 = {1}
  BY <1>1 DEF Divided
<1>3. /\ \A n \in O \ {1} :
           \/ A[n].vgw_flag
           \/ n - 1 \in O /\ A[n - 1].requires_value /\ ~A[n - 1].has_value
  BY DEF Divided
<1>4. ASSUME NEW n \in T1 \ {1}, A[n].vgw_flag
      PROVE  \E m \in T1 \ {1} : m <= n /\ A[m].dashes
  <2>1. CASE n \in T
    BY <1>4, <2>1 DEF Divided
  <2>2. CASE n \in k .. Len(A)
    <3>1. k \in T1 \ {1} /\ k <= n
      BY <1>1, <2>2
    <3> QED
      BY <3>1
  <2> QED
    BY <2>1, <2>2
<1>5. ASSUME NEW m \in T1 \ {1}, NEW n \in O, A[m].dashes
      PROVE  n < m
  <2>1. CASE m \in T
    BY <1>5, <2>1 DEF Divided
  <2>2. CASE m \in k .. Len(A)
    <3>1. n \in 1 .. (k - 1)
      BY DEF Divided
    <3> QED
      BY <1>1, <2>2, <3>1
  <2> QED
    BY <2>1, <2>2
<1>6. ~(Len(A) + 1 <= Len(A))
  BY <1>1
<1> QED
  BY <1>2, <1>3, <1>4, <1>5, <1>6 DEF Divided

(* An argument that is not the gateway's goes to DPDK. *)
LEMMA DividedPlain ==
  ASSUME NEW A \in Seq(Argument), NEW k \in 2 .. Len(A), NEW O, NEW T,
         Divided(A, k, O, T), ~A[k].dashes, ~A[k].vgw_flag
  PROVE  Divided(A, k + 1, O, T \cup {k})
<1>1. Len(A) \in Nat
  BY LenProperties
<1>2. O \cup (T \cup {k}) = 1 .. ((k + 1) - 1) /\ O \cap (T \cup {k}) = {1}
  BY <1>1 DEF Divided
<1>3. \A m \in T \ {1} : ~A[m].dashes
  BY DEF Divided
<1>4. \A n \in (T \cup {k}) \ {1} : ~A[n].vgw_flag /\ ~A[n].dashes
  BY <1>3 DEF Divided
<1> QED
  BY <1>2, <1>4 DEF Divided

(* A flag of the gateway, and the argument behind it when that is its      *)
(* value, go to the gateway.                                               *)
LEMMA DividedFlag ==
  ASSUME NEW A \in Seq(Argument), NEW k \in 2 .. Len(A), NEW O, NEW T,
         Divided(A, k, O, T), ~A[k].dashes, A[k].vgw_flag
  PROVE  /\ Divided(A, k + 1, O \cup {k}, T)
         /\ ValueFollows(A[k]) /\ k < Len(A) => Divided(A, k + 2, O \cup {k, k + 1}, T)
<1>1. Len(A) \in Nat
  BY LenProperties
<1>2. \A m \in T \ {1} : ~A[m].dashes
  BY DEF Divided
<1>3. T \subseteq 1 .. (k - 1) /\ O \subseteq 1 .. (k - 1)
  BY DEF Divided
<1>4. Divided(A, k + 1, O \cup {k}, T)
  <2>1. (O \cup {k}) \cup T = 1 .. ((k + 1) - 1) /\ (O \cup {k}) \cap T = {1}
    BY <1>1, <1>3 DEF Divided
  <2>2. \A n \in (O \cup {k}) \ {1} :
          \/ A[n].vgw_flag
          \/ n - 1 \in O \cup {k} /\ A[n - 1].requires_value /\ ~A[n - 1].has_value
    BY DEF Divided
  <2>3. \A n \in T \ {1} : A[n].vgw_flag => \E m \in T \ {1} : m <= n /\ A[m].dashes
    BY DEF Divided
  <2> QED
    BY <1>2, <2>1, <2>2, <2>3 DEF Divided
<1>5. ASSUME ValueFollows(A[k]), k < Len(A)
      PROVE  Divided(A, k + 2, O \cup {k, k + 1}, T)
  <2> DEFINE O2 == O \cup {k, k + 1}
  <2>1. O2 \cup T = 1 .. ((k + 2) - 1) /\ O2 \cap T = {1}
    BY <1>1, <1>3 DEF Divided
  <2>2. ASSUME NEW n \in O2 \ {1}
        PROVE  \/ A[n].vgw_flag
               \/ n - 1 \in O2 /\ A[n - 1].requires_value /\ ~A[n - 1].has_value
    <3>1. CASE n \in O
      BY <3>1 DEF Divided
    <3>2. CASE n = k
      BY <3>2
    <3>3. CASE n = k + 1
      BY <1>5, <3>3 DEF ValueFollows
    <3> QED
      BY <3>1, <3>2, <3>3
  <2>3. \A n \in T \ {1} : A[n].vgw_flag => \E m \in T \ {1} : m <= n /\ A[m].dashes
    BY DEF Divided
  <2> QED
    BY <1>2, <2>1, <2>2, <2>3 DEF Divided
<1> QED
  BY <1>4, <1>5

(* The inductive invariant of parse_vgw_command_line_flags: each side has  *)
(* its part of the arguments looked at so far, in order.                   *)
SplitInv ==
  /\ argv \in Seq(Argument)
  /\ i \in 2 .. (Len(argv) + 1)
  /\ vgw_argv \in Seq(1 .. (i - 1)) /\ Increasing(vgw_argv)
  /\ eal_argv \in Seq(1 .. (i - 1)) /\ Increasing(eal_argv)
  /\ Divided(argv, i, Listed(vgw_argv), Listed(eal_argv))

(* It holds when only the program name has been looked at. *)
LEMMA NameDivided ==
  ASSUME NEW A \in Seq(Argument), A # <<>>
  PROVE  /\ 2 \in 2 .. (Len(A) + 1)
         /\ <<1>> \in Seq(1 .. (2 - 1)) /\ Increasing(<<1>>)
         /\ Divided(A, 2, Listed(<<1>>), Listed(<<1>>))
<1>1. Len(A) \in Nat \ {0}
  BY LenProperties, EmptySeq
<1>2. <<1>> \in Seq(1 .. (2 - 1)) /\ Increasing(<<1>>)
  BY DEF Increasing
<1>3. Listed(<<1>>) = {1}
  BY DEF Listed
<1>4. 1 .. (2 - 1) = {1}
  OBVIOUS
<1>5. Divided(A, 2, {1}, {1})
  BY <1>4 DEF Divided
<1>6. 2 \in 2 .. (Len(A) + 1)
  BY <1>1
<1> QED
  BY <1>2, <1>3, <1>5, <1>6, ZenonT(20)

(* Splitting starts behind the program name. *)
LEMMA SplitInvInit == StartInit => SplitInv
<1> SUFFICES ASSUME StartInit
             PROVE  SplitInv
  OBVIOUS
<1>1. argv \in Seq(Argument) /\ argv # <<>>
  BY StartupAssumption DEF StartInit
<1>2. i = 2 /\ vgw_argv = <<1>> /\ eal_argv = <<1>>
  BY DEF StartInit
<1> QED
  BY <1>1, <1>2, NameDivided DEF SplitInv

(* Every argument is given to one side, and the rest of main looks at none. *)
LEMMA SplitInvNext == SplitInv /\ [StartNext]_startVars => SplitInv'
<1> SUFFICES ASSUME SplitInv, [StartNext]_startVars
             PROVE  SplitInv'
  OBVIOUS
<1>1. CASE UNCHANGED argVars
  BY <1>1 DEF SplitInv, argVars
<1>2. CASE ArgsDone
  <2>1. Len(argv) \in Nat \ {0}
    <3>1. Len(argv) \in Nat /\ i \in 2 .. (Len(argv) + 1)
      BY LenProperties DEF SplitInv
    <3> QED
      BY <3>1
  <2>2. argv[1] \in Argument
    BY <2>1, ElementOfSeq DEF SplitInv
  <2>3. argv' \in Seq(Argument) /\ argv' # <<>>
    BY <1>2, <2>2 DEF ArgsDone
  <2>4. i' = 2 /\ vgw_argv' = <<1>> /\ eal_argv' = <<1>>
    BY <1>2 DEF ArgsDone
  <2> QED
    BY <2>3, <2>4, NameDivided DEF SplitInv
<1>3. CASE ParseArg
  <2> DEFINE k == i - 1
             n == Len(argv)
             ours == Listed(vgw_argv)
             theirs == Listed(eal_argv)
  <2>1. /\ n \in Nat /\ i \in 2 .. n /\ k \in Nat /\ k + 1 = i /\ k + 2 = i + 1
        /\ k <= n /\ k + 1 <= n
    <3>1. n \in Nat /\ i \in 2 .. (n + 1) /\ i <= n
      BY <1>3, LenProperties DEF SplitInv, ParseArg
    <3> QED
      BY <3>1
  <2>2. /\ argv' = argv /\ argv \in Seq(Argument)
        /\ vgw_argv \in Seq(1 .. k) /\ Increasing(vgw_argv)
        /\ eal_argv \in Seq(1 .. k) /\ Increasing(eal_argv)
        /\ Divided(argv, i, ours, theirs)
    BY <1>3 DEF SplitInv, ParseArg
  <2> DEFINE After(j, o, t) ==
               /\ j \in 2 .. (n + 1)
               /\ o \in Seq(1 .. (j - 1)) /\ Increasing(o)
               /\ t \in Seq(1 .. (j - 1)) /\ Increasing(t)
               /\ Divided(argv, j, Listed(o), Listed(t))
  <2>3. SUFFICES After(i', vgw_argv', eal_argv')
    BY <2>2 DEF SplitInv, Divided, Listed, Increasing
  <2>4. CASE /\ argv[i].dashes /\ vgw_argv' = vgw_argv
             /\ eal_argv' = eal_argv \o Indices(i) /\ i' = n + 1
    <3>1. i \in 1 .. Len(argv) /\ (n + 1) - 1 = n /\ n + 1 \in 2 .. (n + 1)
      BY <2>1
    <3>2. /\ Indices(i) \in Seq((k + 1) .. n) /\ Increasing(Indices(i))
          /\ Listed(Indices(i)) = i .. n
      BY <2>1, <2>2, <3>1, IndicesFacts
    <3> DEFINE t == eal_argv \o Indices(i)
    <3>3. /\ t \in Seq(1 .. n) /\ Increasing(t)
          /\ Listed(t) = theirs \cup (i .. n)
      BY <2>1, <2>2, <3>2, Extended
    <3>4. vgw_argv \in Seq(1 .. n)
      BY <2>1, <2>2, ExtendedBy
    <3>5. Divided(argv, n + 1, ours, theirs \cup (i .. n))
      BY <2>1, <2>2, <2>4, DividedDashes
    <3> HIDE DEF t
    <3>6. After(n + 1, vgw_argv, t)
      BY <2>2, <3>1, <3>3, <3>4, <3>5
    <3> QED
      BY <2>4, <3>6 DEF t
  <2>5. CASE /\ ~argv[i].dashes /\ ~argv[i].vgw_flag /\ vgw_argv' = vgw_argv
             /\ eal_argv' = Append(eal_argv, i) /\ i' = i + 1
    <3>1. i \in Nat /\ k <= i /\ k + 1 <= i /\ (i + 1) - 1 = i /\ i + 1 \in 2 .. (n + 1)
      BY <2>1
    <3> DEFINE t == Append(eal_argv, i)
    <3>2. t \in Seq(1 .. i) /\ Increasing(t) /\ Listed(t) = theirs \cup {i}
      BY <2>1, <2>2, <3>1, ExtendedBy
    <3>3. vgw_argv \in Seq(1 .. i)
      BY <2>1, <2>2, <3>1, ExtendedBy
    <3>4. Divided(argv, i + 1, ours, theirs \cup {i})
      BY <2>1, <2>2, <2>5, DividedPlain
    <3> HIDE DEF t
    <3>5. After(i + 1, vgw_argv, t)
      BY <2>2, <3>1, <3>2, <3>3, <3>4
    <3> QED
      BY <2>5, <3>5 DEF t
  <2>6. CASE /\ ~argv[i].dashes /\ argv[i].vgw_flag /\ eal_argv' = eal_argv
             /\ vgw_argv' = Append(vgw_argv, i) /\ i' = i + 1
    <3>1. i \in Nat /\ k <= i /\ k + 1 <= i /\ (i + 1) - 1 = i /\ i + 1 \in 2 .. (n + 1)
      BY <2>1
    <3> DEFINE o == Append(vgw_argv, i)
    <3>2. o \in Seq(1 .. i) /\ Increasing(o) /\ Listed(o) = ours \cup {i}
      BY <2>1, <2>2, <3>1, ExtendedBy
    <3>3. eal_argv \in Seq(1 .. i)
      BY <2>1, <2>2, <3>1, ExtendedBy
    <3>4. Divided(argv, i + 1, ours \cup {i}, theirs)
      BY <2>1, <2>2, <2>6, DividedFlag
    <3> HIDE DEF o
    <3>5. After(i + 1, o, eal_argv)
      BY <2>2, <3>1, <3>2, <3>3, <3>4
    <3> QED
      BY <2>6, <3>5 DEF o
  <2>7. CASE /\ ~argv[i].dashes /\ argv[i].vgw_flag /\ eal_argv' = eal_argv
             /\ ValueFollows(argv[i]) /\ i < n
             /\ vgw_argv' = vgw_argv \o <<i, i + 1>> /\ i' = i + 2
    <3>1. /\ i + 1 \in Nat /\ k <= i + 1 /\ k + 2 <= i + 1
          /\ (i + 2) - 1 = i + 1 /\ i + 2 \in 2 .. (n + 1)
      BY <2>1, <2>7
    <3> DEFINE o == vgw_argv \o <<i, i + 1>>
    <3>2. o \in Seq(1 .. (i + 1)) /\ Increasing(o) /\ Listed(o) = ours \cup {i, i + 1}
      BY <2>1, <2>2, <3>1, ExtendedBy
    <3>3. eal_argv \in Seq(1 .. (i + 1))
      BY <2>1, <2>2, <3>1, ExtendedBy
    <3>4. Divided(argv, i + 2, ours \cup {i, i + 1}, theirs)
      BY <2>1, <2>2, <2>7, DividedFlag
    <3> HIDE DEF o
    <3>5. After(i + 2, o, eal_argv)
      BY <2>2, <3>1, <3>2, <3>3, <3>4
    <3> QED
      BY <2>7, <3>5 DEF o
  <2> QED
    BY <1>3, <2>4, <2>5, <2>6, <2>7 DEF ParseArg
<1> QED
  BY <1>1, <1>2, <1>3 DEF StartNext, StartStep, startVars, ParseFlags, Configure,
     DpdkInitFails, PortInit, CheckLinkStatus, ManagerBegin, MakeRingFails, InitNetif,
     InitServices, Started

(* StartSpec => []ArgsSplit: whatever the command line, the program name   *)
(* goes to both sides and every other argument to exactly one of them, in  *)
(* order; the gateway gets its own flags with their values, DPDK the rest  *)
(* and everything from a "--" on (parse_vgw_command_line_flags).           *)
THEOREM CommandLineSplit == StartSpec => []ArgsSplit
<1>1. SplitInv => ArgsSplit
  <2> SUFFICES ASSUME SplitInv, i > Len(argv)
               PROVE  ArgsSplit
    BY DEF ArgsSplit
  <2>1. i - 1 = Len(argv)
    <3>1. Len(argv) \in Nat /\ i \in 2 .. (Len(argv) + 1)
      BY LenProperties DEF SplitInv
    <3> QED
      BY <3>1
  <2> QED
    BY <2>1 DEF SplitInv, Divided, ArgsSplit
<1> QED
  BY <1>1, SplitInvInit, SplitInvNext, PTL DEF StartSpec

-----------------------------------------------------------------------------
(* The configuration *)

Config ==
  [mode : {"pipeline", "rtc"}, mask : 1 .. (Span32 - 1), worker_port : 0 .. (Span16 - 1),
   ring_size : 0 .. (Span16 - 1), rx : BOOLEAN, tx : BOOLEAN, sleep : Int,
   steer : {"auto", "hw_rss", "soft_rr"}, workers : 1 .. (Span16 - 1)]

(* A number below the width of its field is stored as it is. *)
LEMMA NotCut ==
  ASSUME NEW x \in Nat, NEW w \in Nat, x < w
  PROVE  x % w = x /\ x \in 0 .. (w - 1)
  OBVIOUS

(* datapath_config_from_flags returns a configuration with the numbers of  *)
(* the flags in it, whatever it accepts.                                   *)
LEMMA ConfigFacts ==
  ASSUME flags \in Flags, FlagsAccepted
  PROVE  /\ ConfigFromFlags \in Config
         /\ ConfigFromFlags.worker_port = flags.worker_port
         /\ ConfigFromFlags.mask = IF flags.port_mask = 0 THEN DefaultMask ELSE flags.port_mask
         /\ flags.mode = "pipeline" => ConfigFromFlags.ring_size = flags.ring_size
         /\ flags.mode = "rtc" => ConfigFromFlags.workers = RtcWorkers(flags.workers)
<1> DEFINE mask == IF flags.port_mask # 0 THEN flags.port_mask % Span32 ELSE DefaultMask
           port == flags.worker_port % Span16
           ring == flags.ring_size % Span16
           workers == RtcWorkers(flags.workers % Span16)
<1>1. /\ flags.mode \in {"pipeline", "rtc"}
      /\ flags.port_mask \in Nat /\ flags.worker_port \in Nat
      /\ flags.ring_size \in Nat /\ flags.workers \in Nat
      /\ flags.rx \in BOOLEAN /\ flags.tx \in BOOLEAN /\ flags.sleep \in Int
      /\ flags.port_mask < Span32 /\ flags.worker_port < Span16 /\ flags.ring_size < Span16
      /\ flags.mode = "rtc" =>
           flags.workers < Span16 /\ flags.steer \in {"auto", "hw_rss", "soft_rr"}
  BY DEF Flags, FlagsAccepted, CheckUint16Flag, ParseDatapathMode, ParseRtcSteer
<1>2. Span16 \in Nat \ {0, 1} /\ Span32 \in Nat /\ DefaultMask \in 1 .. (Span32 - 1)
  BY StartupAssumption
<1>3. /\ mask = IF flags.port_mask = 0 THEN DefaultMask ELSE flags.port_mask
      /\ mask \in 1 .. (Span32 - 1)
  BY <1>1, <1>2, NotCut
<1>4. port = flags.worker_port /\ port \in 0 .. (Span16 - 1)
  BY <1>1, <1>2, NotCut
<1>5. ring = flags.ring_size /\ ring \in 0 .. (Span16 - 1)
  BY <1>1, <1>2, NotCut
<1>6. ASSUME flags.mode = "rtc"
      PROVE  workers = RtcWorkers(flags.workers) /\ workers \in 1 .. (Span16 - 1)
  <2>1. flags.workers % Span16 = flags.workers
    BY <1>1, <1>2, <1>6, NotCut
  <2> QED
    BY <1>1, <1>2, <1>6, <2>1 DEF RtcWorkers
<1> HIDE DEF mask, port, ring, workers
<1>7. 0 \in 0 .. (Span16 - 1) /\ 1 \in 1 .. (Span16 - 1) /\ 10 \in Int
  BY <1>2
<1>8. CASE flags.mode = "pipeline"
  <2> DEFINE c == [mode |-> flags.mode, mask |-> mask, worker_port |-> port,
                   ring_size |-> ring, rx |-> flags.rx, tx |-> flags.tx,
                   sleep |-> flags.sleep, steer |-> "auto", workers |-> 1]
  <2>1. ConfigFromFlags = c
    BY <1>8, ZenonT(20) DEF ConfigFromFlags, Defaults, mask, port, ring
  <2>2. c \in Config
    BY <1>1, <1>3, <1>4, <1>5, <1>7 DEF Config
  <2>3. c.worker_port = port /\ c.mask = mask /\ c.ring_size = ring
    OBVIOUS
  <2> HIDE DEF c
  <2> QED
    BY <1>3, <1>4, <1>5, <1>8, <2>1, <2>2, <2>3
<1>9. CASE flags.mode = "rtc"
  <2> DEFINE c == [mode |-> flags.mode, mask |-> mask, worker_port |-> port,
                   ring_size |-> 0, rx |-> TRUE, tx |-> TRUE,
                   sleep |-> 10, steer |-> flags.steer, workers |-> workers]
  <2>1. ConfigFromFlags = c
    BY <1>9, ZenonT(20) DEF ConfigFromFlags, Defaults, mask, port, workers
  <2>2. c \in Config
    BY <1>1, <1>3, <1>4, <1>6, <1>7, <1>9 DEF Config
  <2>3. c.worker_port = port /\ c.mask = mask /\ c.workers = workers
    OBVIOUS
  <2> HIDE DEF c
  <2> QED
    BY <1>3, <1>4, <1>6, <1>9, <2>1, <2>2, <2>3
<1> QED
  BY <1>1, <1>8, <1>9

(* The configuration keeps its types, and the flags are those it was made  *)
(* from once it has been made.                                             *)
ConfigInv ==
  /\ at \in {"args", "flags", "config", "eal", "link", "manager", "netif", "run", "exit"}
  /\ cfg \in Config
  /\ at = "config" => flags \in Flags
  /\ ConfigFaithful

(* The defaults are a configuration. *)
LEMMA ConfigInvInit == StartInit => ConfigInv
<1> SUFFICES ASSUME StartInit
             PROVE  ConfigInv
  OBVIOUS
<1>1. Span16 \in Nat \ {0, 1} /\ Span32 \in Nat /\ DefaultMask \in 1 .. (Span32 - 1)
  BY StartupAssumption
<1>2. 0 \in 0 .. (Span16 - 1) /\ 1 \in 1 .. (Span16 - 1) /\ 10 \in Int
  BY <1>1
<1>3. Defaults \in Config
  BY <1>1, <1>2 DEF Defaults, Config
<1> QED
  BY <1>3 DEF StartInit, ConfigInv, ConfigFaithful

(* Only datapath_config_from_flags writes the configuration. *)
LEMMA ConfigInvNext == ConfigInv /\ [StartNext]_startVars => ConfigInv'
<1> SUFFICES ASSUME ConfigInv, [StartNext]_startVars
             PROVE  ConfigInv'
  OBVIOUS
<1> USE DEF flagVars
<1>1. CASE ParseArg
  BY <1>1 DEF ParseArg, ConfigInv, ConfigFaithful
<1>2. CASE ArgsDone
  BY <1>2 DEF ArgsDone, ConfigInv, ConfigFaithful
<1>3. CASE ParseFlags
  BY <1>3, StartupAssumption DEF ParseFlags, Exit, ConfigInv, ConfigFaithful
<1>4. CASE Configure
  <2>1. CASE ~FlagsAccepted
    BY <1>4, <2>1 DEF Configure, Exit, ConfigInv, ConfigFaithful
  <2>2. CASE FlagsAccepted
    <3>1. flags \in Flags /\ flags' = flags /\ cfg' = ConfigFromFlags /\ at' = "eal"
      BY <1>4, <2>2 DEF Configure, ConfigInv
    <3>2. ConfigFaithful'
      BY <2>2, <3>1, ConfigFacts DEF ConfigFaithful, RtcWorkers
    <3>3. cfg' \in Config
      BY <2>2, <3>1, ConfigFacts
    <3> QED
      BY <3>1, <3>2, <3>3 DEF ConfigInv
  <2> QED
    BY <2>1, <2>2
<1>5. CASE DpdkInitFails
  BY <1>5 DEF DpdkInitFails, Exit, ConfigInv, ConfigFaithful
<1>6. CASE PortInit
  BY <1>6 DEF PortInit, ConfigInv, ConfigFaithful
<1>7. CASE CheckLinkStatus
  BY <1>7 DEF CheckLinkStatus, RetryLink, ConfigInv, ConfigFaithful
<1>8. CASE ManagerBegin
  BY <1>8 DEF ManagerBegin, Exit, ConfigInv, ConfigFaithful
<1>9. CASE MakeRingFails
  BY <1>9 DEF MakeRingFails, Exit, ConfigInv, ConfigFaithful
<1>10. CASE InitNetif
  BY <1>10 DEF InitNetif, ConfigInv, ConfigFaithful
<1>11. CASE InitServices
  BY <1>11 DEF InitServices, Exit, ConfigInv, ConfigFaithful
<1>12. CASE UNCHANGED startVars
  BY <1>12 DEF startVars, ConfigInv, ConfigFaithful
<1> QED
  BY <1>1, <1>2, <1>3, <1>4, <1>5, <1>6, <1>7, <1>8, <1>9, <1>10, <1>11, <1>12
     DEF StartNext, StartStep, Started

(* StartSpec => []ConfigFaithful: a gateway that gets past                 *)
(* datapath_config_from_flags runs with the numbers on its command line,   *)
(* whatever they are and however wide the fields they are stored in.       *)
THEOREM FlagsNotCut == StartSpec => []ConfigFaithful
<1>1. ConfigInv => ConfigFaithful
  BY DEF ConfigInv
<1> QED
  BY <1>1, ConfigInvInit, ConfigInvNext, PTL DEF StartSpec

-----------------------------------------------------------------------------
(* The ports, the netifs and the loops *)

Loop == [run : {"run_recv", "run_send"}, port : Port] \cup {Idle}

(* What runs on lcore l when p has the first lcore pair to itself. *)
PairLoop(p, l) ==
  IF l = 1 /\ cfg.rx THEN [run |-> "run_recv", port |-> p]
  ELSE IF l = 2 /\ cfg.tx THEN [run |-> "run_send", port |-> p]
  ELSE Idle

(* Nothing runs before the first netif or in run-to-completion mode; the   *)
(* first netif of pipeline mode gets the first lcore pair.                 *)
LoopsAsked ==
  /\ netifs_ = {} => rx_id = 1 /\ tx_id = 2 /\ \A l \in Lcore : loop[l] = Idle
  /\ cfg.mode = "rtc" => \A l \in Lcore : loop[l] = Idle
  /\ cfg.mode = "pipeline" /\ lcores >= 2 =>
       \A p \in Port : netifs_ = {p} => \A l \in Lcore : loop[l] = PairLoop(p, l)

(* The inductive invariant behind StartTypeOK and RunReady: what each      *)
(* stage of main has established when the next begins.                     *)
PortsInv ==
  /\ devices \subseteq Port /\ started \subseteq devices
  /\ attempt \in 0 .. LinkAttempts
  /\ at = "link" => attempt < LinkAttempts
  /\ at \in {"args", "flags", "config", "eal"} => attempt = 0
  /\ netifs_ \subseteq Port /\ lcores \in 0 .. MaxLcores
  /\ rx_id \in Nat \ {0} /\ tx_id \in Nat \ {0}
  /\ loop \in [Lcore -> Loop]
  /\ gateway_mac \in {"config", "nic", "zero"}
  /\ at \in {"link", "manager", "netif", "run"} => started \subseteq Bits(cfg.mask)
  /\ at \in {"manager", "netif", "run"} => link_up /\ started # {}
  /\ at \in {"netif", "run"} /\ cfg.mode = "rtc" => cfg.workers = 1
  /\ at \in {"args", "flags", "config", "eal", "link", "manager"} => netifs_ = {}
  /\ LoopsAsked
  /\ at = "run" =>
       cfg.worker_port \in netifs_ /\ (cfg.worker_port \in started => gateway_mac = "nic")

(* A launch puts a loop on an idle lcore that exists, or does nothing. *)
LEMMA LaunchFacts ==
  ASSUME NEW loops \in [Lcore -> Loop], NEW run \in {"run_recv", "run_send"},
         NEW p \in Port, NEW lcore \in Nat \ {0}, lcores \in 0 .. MaxLcores
  PROVE  /\ RemoteLaunch(loops, run, p, lcore) \in [Lcore -> Loop]
         /\ lcore <= lcores /\ loops[lcore] = Idle =>
              \A l \in Lcore : RemoteLaunch(loops, run, p, lcore)[l] =
                                 IF l = lcore THEN [run |-> run, port |-> p] ELSE loops[l]
<1>1. MaxLcores \in Nat
  BY StartupAssumption
<1>2. [run |-> run, port |-> p] \in Loop
  BY DEF Loop
<1>3. lcore <= lcores => lcore \in Lcore
  BY <1>1 DEF Lcore
<1> QED
  BY <1>2, <1>3 DEF RemoteLaunch

(* main starts with no port, no netif and no loop. *)
LEMMA PortsInvInit == StartInit => PortsInv
<1> SUFFICES ASSUME StartInit
             PROVE  PortsInv
  OBVIOUS
<1>1. MaxLcores \in Nat /\ LinkAttempts \in Nat \ {0}
  BY StartupAssumption
<1>2. loop \in [Lcore -> Loop]
  BY DEF StartInit, Loop
<1>3. LoopsAsked
  BY DEF StartInit, LoopsAsked
<1> QED
  BY <1>1, <1>2, <1>3 DEF StartInit, PortsInv

(* One netif more. *)
LEMMA PortsInvNetif == ConfigInv /\ PortsInv /\ InitNetif => PortsInv'
<1> SUFFICES ASSUME ConfigInv, PortsInv, InitNetif
             PROVE  PortsInv'
  OBVIOUS
<1> USE DEF flagVars, portVars
<1>1. PICK p \in Bits(cfg.mask) \ netifs_ :
        /\ netifs_' = netifs_ \cup {p}
        /\ LET pipeline == cfg.mode = "pipeline"
               withRx == IF pipeline /\ cfg.rx
                           THEN RemoteLaunch(loop, "run_recv", p, rx_id) ELSE loop
           IN /\ loop' = IF pipeline /\ cfg.tx
                           THEN RemoteLaunch(withRx, "run_send", p, tx_id) ELSE withRx
              /\ IF ~pipeline THEN UNCHANGED <<cnt, rx_id, tx_id>>
                 ELSE IF cnt + 1 = PortsPerPair
                   THEN cnt' = 0 /\ rx_id' = tx_id + 1 /\ tx_id' = tx_id + 2
                   ELSE cnt' = cnt + 1 /\ UNCHANGED <<rx_id, tx_id>>
  BY DEF InitNetif
<1> DEFINE withRx == IF cfg.mode = "pipeline" /\ cfg.rx
                       THEN RemoteLaunch(loop, "run_recv", p, rx_id) ELSE loop
           withTx == IF cfg.mode = "pipeline" /\ cfg.tx
                       THEN RemoteLaunch(withRx, "run_send", p, tx_id) ELSE withRx
<1>2. p \in Port /\ p \notin netifs_ /\ netifs_' = netifs_ \cup {p} /\ loop' = withTx
  BY <1>1 DEF Bits
<1>3. /\ UNCHANGED <<at, cfg, devices, lcores, started, attempt, link_up, gateway_mac>>
      /\ at = "netif"
  BY DEF InitNetif
<1>4. rx_id \in Nat \ {0} /\ tx_id \in Nat \ {0} /\ lcores \in 0 .. MaxLcores
  BY DEF PortsInv
<1>5. rx_id' \in Nat \ {0} /\ tx_id' \in Nat \ {0}
  BY <1>1, <1>4
<1>6. withRx \in [Lcore -> Loop]
  BY <1>2, <1>4, LaunchFacts DEF PortsInv
<1>7. withTx \in [Lcore -> Loop]
  BY <1>2, <1>4, <1>6, LaunchFacts
<1>8. ASSUME cfg.mode = "rtc"
      PROVE  \A l \in Lcore : loop'[l] = Idle
  BY <1>2, <1>8 DEF PortsInv, LoopsAsked
<1>9. ASSUME cfg.mode = "pipeline", lcores >= 2, netifs_ = {}, NEW l \in Lcore
      PROVE  loop'[l] = PairLoop(p, l)
  <2>1. /\ rx_id = 1 /\ tx_id = 2 /\ 1 <= lcores /\ 2 <= lcores
        /\ 1 \in Lcore /\ 2 \in Lcore /\ 1 # 2
    BY <1>4, <1>9, StartupAssumption DEF PortsInv, LoopsAsked, Lcore
  <2>2. \A k \in Lcore : loop[k] = Idle
    BY <1>9 DEF PortsInv, LoopsAsked
  <2>3. loop \in [Lcore -> Loop]
    BY DEF PortsInv
  <2>4. \A k \in Lcore :
          withRx[k] = IF k = 1 /\ cfg.rx THEN [run |-> "run_recv", port |-> p] ELSE Idle
    <3>1. cfg.rx => \A k \in Lcore :
            RemoteLaunch(loop, "run_recv", p, 1)[k] =
              IF k = 1 THEN [run |-> "run_recv", port |-> p] ELSE loop[k]
      BY <1>2, <1>4, <2>1, <2>2, <2>3, LaunchFacts
    <3> QED
      BY <1>9, <2>1, <2>2, <3>1
  <2>5. withRx[2] = Idle
    BY <2>1, <2>4
  <2> HIDE DEF withRx
  <2>6. cfg.tx => \A k \in Lcore :
          RemoteLaunch(withRx, "run_send", p, 2)[k] =
            IF k = 2 THEN [run |-> "run_send", port |-> p] ELSE withRx[k]
    BY <1>2, <1>4, <1>6, <2>1, <2>5, LaunchFacts
  <2>7. withTx[l] = IF l = 2 /\ cfg.tx THEN [run |-> "run_send", port |-> p] ELSE withRx[l]
    BY <1>9, <2>1, <2>6
  <2> QED
    BY <1>2, <2>1, <2>4, <2>7 DEF PairLoop
<1> HIDE DEF withRx, withTx
<1>10. netifs_' # {} /\ \A q \in Port : netifs_' = {q} => netifs_ = {} /\ q = p
  BY <1>2
<1>11. LoopsAsked'
  BY <1>3, <1>8, <1>9, <1>10 DEF LoopsAsked, PairLoop
<1> QED
  BY <1>2, <1>3, <1>5, <1>7, <1>11 DEF PortsInv

(* The rest of main leaves the netifs and the loops alone. *)
LEMMA LoopsAskedKept ==
  ASSUME PortsInv, UNCHANGED <<netifs_, rx_id, tx_id, loop>>,
         netifs_ = {} \/ UNCHANGED <<cfg, lcores>>
  PROVE  LoopsAsked'
<1>1. LoopsAsked
  BY DEF PortsInv
<1>2. CASE netifs_ = {}
  BY <1>1, <1>2 DEF LoopsAsked
<1>3. CASE UNCHANGED <<cfg, lcores>>
  BY <1>1, <1>3 DEF LoopsAsked, PairLoop
<1> QED
  BY <1>2, <1>3

(* Every stage hands the next one what that relies on. *)
LEMMA PortsInvNext == ConfigInv /\ PortsInv /\ [StartNext]_startVars => PortsInv'
<1> SUFFICES ASSUME ConfigInv, PortsInv, [StartNext]_startVars
             PROVE  PortsInv'
  OBVIOUS
<1> USE DEF flagVars, portVars, managerVars
<1>1. CASE ParseArg
  <2>1. LoopsAsked'
    BY <1>1, LoopsAskedKept DEF ParseArg
  <2> QED
    BY <1>1, <2>1 DEF ParseArg, PortsInv
<1>2. CASE ArgsDone
  <2>1. LoopsAsked'
    BY <1>2, LoopsAskedKept DEF ArgsDone
  <2> QED
    BY <1>2, <2>1 DEF ArgsDone, PortsInv
<1>3. CASE ParseFlags
  <2>1. LoopsAsked'
    BY <1>3, LoopsAskedKept DEF ParseFlags
  <2> QED
    BY <1>3, <2>1 DEF ParseFlags, Exit, PortsInv
<1>4. CASE Configure
  <2>1. netifs_ = {}
    BY <1>4 DEF Configure, PortsInv
  <2>2. LoopsAsked'
    BY <1>4, <2>1, LoopsAskedKept DEF Configure
  <2>3. at' \in {"eal", "exit"} /\ at = "config"
    BY <1>4 DEF Configure, Exit
  <2> QED
    BY <1>4, <2>2, <2>3 DEF Configure, PortsInv
<1>5. CASE DpdkInitFails
  <2>1. LoopsAsked'
    BY <1>5, LoopsAskedKept DEF DpdkInitFails
  <2> QED
    BY <1>5, <2>1 DEF DpdkInitFails, Exit, PortsInv
<1>6. CASE PortInit
  <2>1. netifs_ = {}
    BY <1>6 DEF PortInit, PortsInv
  <2>2. LoopsAsked'
    BY <1>6, <2>1, LoopsAskedKept DEF PortInit
  <2>3. LinkAttempts \in Nat \ {0}
    BY StartupAssumption
  <2> QED
    BY <1>6, <2>2, <2>3 DEF PortInit, PortsInv
<1>7. CASE CheckLinkStatus
  <2>1. LoopsAsked'
    BY <1>7, LoopsAskedKept DEF CheckLinkStatus
  <2>2. LinkAttempts \in Nat \ {0} /\ attempt \in Nat /\ attempt < LinkAttempts /\ at = "link"
    BY <1>7, StartupAssumption DEF CheckLinkStatus, PortsInv
  <2>3. /\ attempt' = attempt + 1
        /\ at' \in {"manager", "exit", "link"}
        /\ at' = "manager" => link_up' /\ started # {}
        /\ at' = "link" => attempt' # LinkAttempts
    <3>1. PICK up \in IF started = {} THEN {FALSE} ELSE BOOLEAN :
            link_up' = up /\ RetryLink(up)
      BY <1>7 DEF CheckLinkStatus
    <3>2. up \in BOOLEAN /\ (started = {} => ~up)
      BY <3>1, ZenonT(20)
    <3>3. CASE up
      BY <3>1, <3>2, <3>3 DEF RetryLink
    <3>4. CASE ~up
      BY <3>1, <3>4 DEF RetryLink
    <3> QED
      BY <3>2, <3>3, <3>4
  <2>4. attempt' \in 0 .. LinkAttempts /\ (at' = "link" => attempt' < LinkAttempts)
    BY <2>2, <2>3
  <2> QED
    BY <1>7, <2>1, <2>2, <2>3, <2>4 DEF CheckLinkStatus, PortsInv
<1>8. CASE ManagerBegin
  <2>1. LoopsAsked'
    BY <1>8, LoopsAskedKept DEF ManagerBegin
  <2>2. at = "manager" /\ at' \in {"netif", "exit"}
    BY <1>8 DEF ManagerBegin, Exit
  <2>3. ASSUME at' = "netif", cfg.mode = "rtc"
        PROVE  cfg.workers = 1
    <3>1. cfg.workers \in 1 .. (Span16 - 1) /\ Span16 \in Nat
      BY StartupAssumption DEF ConfigInv, Config
    <3>2. cfg.workers <= 1
      BY <1>8, <2>3, <3>1 DEF ManagerBegin, Exit, ResolveRtcPath
    <3> QED
      BY <3>1, <3>2
  <2> QED
    BY <1>8, <2>1, <2>2, <2>3 DEF ManagerBegin, PortsInv
<1>9. CASE MakeRingFails
  <2>1. LoopsAsked'
    BY <1>9, LoopsAskedKept DEF MakeRingFails
  <2> QED
    BY <1>9, <2>1 DEF MakeRingFails, Exit, PortsInv
<1>10. CASE InitNetif
  BY <1>10, PortsInvNetif
<1>11. CASE InitServices
  <2>1. LoopsAsked'
    BY <1>11, LoopsAskedKept DEF InitServices
  <2> QED
    BY <1>11, <2>1 DEF InitServices, Exit, PortsInv
<1>12. CASE UNCHANGED startVars
  <2>1. LoopsAsked'
    BY <1>12, LoopsAskedKept DEF startVars
  <2> QED
    BY <1>12, <2>1 DEF startVars, PortsInv
<1> QED
  BY <1>1, <1>2, <1>3, <1>4, <1>5, <1>6, <1>7, <1>8, <1>9, <1>10, <1>11, <1>12
     DEF StartNext, StartStep, Started

(* The three invariants hold in every reachable state. *)
LEMMA StartInvariant == StartSpec => [](SplitInv /\ ConfigInv /\ PortsInv)
  BY SplitInvInit, SplitInvNext, ConfigInvInit, ConfigInvNext, PortsInvInit, PortsInvNext,
     PTL DEF StartSpec

(* StartSpec => []StartTypeOK: every variable of the way to the worker     *)
(* loop keeps its range; the configuration never holds an empty mask, a    *)
(* port or ring size wider than its field or a worker count of 0, and no   *)
(* loop is launched on a lcore that does not exist.                        *)
THEOREM StartTypes == StartSpec => []StartTypeOK
<1>1. SplitInv /\ ConfigInv /\ PortsInv => StartTypeOK
  <2> SUFFICES ASSUME SplitInv, ConfigInv, PortsInv
               PROVE  StartTypeOK
    OBVIOUS
  <2>1. Len(argv) \in Nat /\ i \in 2 .. (Len(argv) + 1)
    BY LenProperties DEF SplitInv
  <2>2. i \in 1 .. (Len(argv) + 1) /\ i - 1 \in Nat /\ i - 1 <= Len(argv)
    BY <2>1
  <2>3. vgw_argv \in Seq(1 .. Len(argv)) /\ eal_argv \in Seq(1 .. Len(argv))
    BY <2>1, <2>2, ExtendedBy DEF SplitInv
  <2>4. /\ cfg.mask \in 1 .. (Span32 - 1)
        /\ cfg.worker_port \in 0 .. (Span16 - 1) /\ cfg.ring_size \in 0 .. (Span16 - 1)
        /\ cfg.workers \in 1 .. (Span16 - 1)
    BY DEF ConfigInv, Config
  <2> QED
    BY <2>2, <2>3, <2>4 DEF StartTypeOK, ConfigInv, PortsInv, Loop
<1> QED
  BY <1>1, StartInvariant, PTL

(* To tell how many netifs there are, the theorems on finite sets. *)
INSTANCE FiniteSetTheorems

(* StartSpec => []RunReady: whatever was on the command line and whatever  *)
(* devices and lcores there are, when the worker loop starts some enabled  *)
(* port has its link up, the worker's port has a netif, the gateway has    *)
(* the MAC address of that port if it was started, run-to-completion mode  *)
(* has one worker and no loop, and one port in pipeline mode has the loops *)
(* that were asked for, when there are two lcores (VioletGW::init).        *)
THEOREM WorkerReady == StartSpec => []RunReady
<1>1. PortsInv => RunReady
  <2> SUFFICES ASSUME PortsInv, at = "run"
               PROVE  RunReady
    BY DEF RunReady
  <2>1. /\ link_up /\ started # {} /\ started \subseteq Bits(cfg.mask)
        /\ cfg.worker_port \in netifs_
        /\ cfg.worker_port \in started => gateway_mac = "nic"
        /\ cfg.mode = "rtc" => cfg.workers = 1 /\ \A l \in Lcore : loop[l] = Idle
    BY DEF PortsInv, LoopsAsked
  <2>2. ASSUME cfg.mode = "pipeline", lcores >= 2, Cardinality(netifs_) = 1
        PROVE  /\ RunsOn("run_recv", cfg.worker_port) <=> cfg.rx
               /\ RunsOn("run_send", cfg.worker_port) <=> cfg.tx
    <3> DEFINE p == cfg.worker_port
    <3>1. IsFiniteSet(netifs_)
      <4>1. IsFiniteSet(Port)
        <5>1. 0 \in Int /\ PortBits - 1 \in Int
          BY StartupAssumption
        <5> QED
          BY <5>1, FS_Interval DEF Port
      <4> QED
        BY <4>1, FS_Subset DEF PortsInv
    <3>2. netifs_ = {p} /\ p \in Port
      <4>1. PICK x : netifs_ = {x}
        BY <2>2, <3>1, FS_Singleton
      <4> QED
        BY <2>1, <4>1 DEF PortsInv
    <3>3. \A l \in Lcore : loop[l] = PairLoop(p, l)
      BY <2>2, <3>2 DEF PortsInv, LoopsAsked
    <3>4. 1 \in Lcore /\ 2 \in Lcore /\ 1 # 2
      BY <2>2, StartupAssumption DEF PortsInv, Lcore
    <3>5. /\ [run |-> "run_recv", port |-> p] # Idle /\ [run |-> "run_send", port |-> p] # Idle
          /\ [run |-> "run_recv", port |-> p] # [run |-> "run_send", port |-> p]
      BY DEF Idle
    <3> HIDE DEF p
    <3>6. RunsOn("run_recv", p) <=> cfg.rx
      BY <3>3, <3>4, <3>5 DEF RunsOn, PairLoop
    <3>7. RunsOn("run_send", p) <=> cfg.tx
      BY <3>3, <3>4, <3>5 DEF RunsOn, PairLoop
    <3> QED
      BY <3>6, <3>7 DEF p
  <2> QED
    BY <2>1, <2>2 DEF RunReady
<1> QED
  BY <1>1, StartInvariant, PTL

=============================================================================
