------------------------- MODULE Connections_proofs -------------------------
(***************************************************************************)
(* Proofs about three connections.  What a connection promises (Channel):  *)
(* no message is handed over twice, and a message is overtaken only by     *)
(* smaller ones, for every set of messages and their sizes.  The           *)
(* connection inside a process (DirectConnection): however the ends send,  *)
(* fetch, refuse and leave, the buffers keep every message and the order   *)
(* of those that were never refused, and the server hears the last words   *)
(* of the client.  The message queues (PosixMqueue): nothing is forgotten  *)
(* while both ends live, and only a message of a higher priority overtakes *)
(* one that did not meet a full queue.  The three share some names of      *)
(* constants and variables (Msgs, got, log), and nothing else.             *)
(***************************************************************************)
EXTENDS Channel, SequencesExt, SequenceTheorems, FiniteSetTheorems,
        WellFoundedInduction, TLAPS

CONSTANTS MaxSent, MaxRefused, Connectors, Owner, Priority, Capacity, Budgets
VARIABLES buffers, accepted, connected, there, usable, fetching, sent, refused, late
VARIABLES gen, named, accept, requests, stored, due, connect, data, linked, gone, outgoing,
          kept, sending, queue, incoming, retried, unheard, served, fails, budget

D == INSTANCE DirectConnection
Q == INSTANCE PosixMqueue

-----------------------------------------------------------------------------
(* Of the channel.                                                         *)

(* The order of acceptance only grows, and only at its end.                *)
LEMMA AppendKeepsBefore ==
    ASSUME log \in Seq(Msgs), NEW m \in Msgs, m \notin In(log),
           log' = Append(log, m), NEW k, NEW l \in In(log)
    PROVE  Before(k, l)' <=> Before(k, l)
<1>1. /\ Len(log') = Len(log) + 1 /\ log'[Len(log) + 1] = m
      /\ \A i \in 1 .. Len(log) : log'[i] = log[i]
      /\ Len(log) \in Nat
  OBVIOUS
<1>2. ASSUME NEW i \in 1 .. Len(log'), NEW j \in 1 .. Len(log'),
             i < j, log'[i] = k, log'[j] = l
      PROVE  Before(k, l)
  <2>1. j # Len(log) + 1
    BY <1>1, <1>2 DEF In
  <2>2. i \in 1 .. Len(log) /\ j \in 1 .. Len(log)
    BY <1>1, <1>2, <2>1
  <2> QED
    BY <1>1, <1>2, <2>2 DEF Before
<1>3. ASSUME NEW i \in 1 .. Len(log), NEW j \in 1 .. Len(log),
             i < j, log[i] = k, log[j] = l
      PROVE  Before(k, l)'
  BY <1>1, <1>3 DEF Before
<1> QED
  BY <1>2, <1>3 DEF Before

(* A message that is accepted comes after all others.                      *)
LEMMA NewIsLast ==
    ASSUME log \in Seq(Msgs), NEW m \in Msgs, m \notin In(log),
           log' = Append(log, m), NEW l \in In(log)
    PROVE  ~Before(m, l)'
<1>1. ~Before(m, l)
  BY DEF Before, In
<1> QED
  BY <1>1, AppendKeepsBefore

(* The channel starts with its invariant.                                  *)
LEMMA InitIInv == Init => IInv
  BY DEF Init, IInv, In, OnceOnly, OvertakenBySmaller

LEMMA AcceptStep ==
    ASSUME IInv, NEW m \in Msgs, Accept(m)
    PROVE  IInv'
<1>1. /\ log \in Seq(Msgs) /\ m \notin In(log)
      /\ log' = Append(log, m) /\ got' = got /\ todo' = todo \cup {m}
      /\ In(got) \subseteq In(log)
  BY DEF IInv, Accept
<1>2. log' \in Seq(Msgs) /\ got' \in Seq(Msgs)
  BY <1>1 DEF IInv
<1>3. In(log)' = In(log) \cup {m} /\ In(got)' = In(got)
  <2>1. /\ Len(log') = Len(log) + 1 /\ log'[Len(log) + 1] = m
        /\ \A i \in 1 .. Len(log) : log'[i] = log[i]
        /\ Len(log) \in Nat
    BY <1>1
  <2> QED
    BY <1>1, <2>1 DEF In
<1>4. (\A i, j \in 1 .. Len(log) : log[i] = log[j] => i = j)'
  <2>1. /\ Len(log') = Len(log) + 1 /\ log'[Len(log) + 1] = m
        /\ \A i \in 1 .. Len(log) : log'[i] = log[i] /\ log[i] # m
        /\ Len(log) \in Nat
    BY <1>1 DEF In
  <2> QED
    BY <2>1 DEF IInv
<1>5. \A i \in 1 .. Len(got) : got[i] \in In(log)
  BY <1>1 DEF In
<1>6. (\A k \in todo : \A i \in 1 .. Len(got) : Before(k, got[i]) => Size[got[i]] < Size[k])'
  <2>1. SUFFICES ASSUME NEW k \in todo', NEW i \in 1 .. Len(got)', Before(k, got[i])'
                 PROVE  (Size[got[i]] < Size[k])'
    OBVIOUS
  <2>2. got' = got /\ i \in 1 .. Len(got) /\ got[i] \in In(log)
    BY <1>1, <1>5
  <2>3. k # m
    BY <1>1, <2>1, <2>2, NewIsLast
  <2>4. k \in todo
    BY <1>1, <2>3
  <2>5. Before(k, got[i])
    BY <1>1, <2>1, <2>2, AppendKeepsBefore
  <2> QED
    BY <2>2, <2>4, <2>5 DEF IInv
<1>7. OnceOnly' /\ OvertakenBySmaller'
  BY <1>1, <1>5, AppendKeepsBefore DEF IInv, OnceOnly, OvertakenBySmaller
<1>8. (todo \subseteq In(log) /\ In(got) \subseteq In(log) /\ todo \cap In(got) = {})'
  BY <1>1, <1>3 DEF IInv
<1> QED
  BY <1>2, <1>4, <1>6, <1>7, <1>8 DEF IInv

(* A fetch keeps the invariant.  Its messages were waiting, so that what   *)
(* was fetched before and overtook them is smaller; and so is each one of  *)
(* them that overtakes a later one or one that goes on waiting.            *)
LEMMA FetchStep ==
    ASSUME IInv, NEW s \in Seq(todo), Fetch(s)
    PROVE  IInv'
<1>1. /\ log' = log /\ got' = got \o s /\ todo' = todo \ In(s)
      /\ log \in Seq(Msgs) /\ got \in Seq(Msgs)
      /\ todo \subseteq In(log) /\ In(got) \subseteq In(log) /\ todo \cap In(got) = {}
  BY DEF IInv, Fetch
<1>2. todo \subseteq Msgs
  BY <1>1, ElementOfSeq DEF In
<1>3. s \in Seq(Msgs)
  BY <1>2, SeqMonotonic
<1>4. /\ got' \in Seq(Msgs) /\ Len(got) \in Nat /\ Len(s) \in Nat
      /\ Len(got') = Len(got) + Len(s)
      /\ \A i \in 1 .. Len(got) + Len(s) :
            got'[i] = IF i <= Len(got) THEN got[i] ELSE s[i - Len(got)]
  BY <1>1, <1>3, ConcatProperties, LenProperties
<1>5. \A i \in 1 .. Len(got') : i \in 1 .. Len(got) \/ i - Len(got) \in 1 .. Len(s)
  BY <1>4
<1>6. \A k, l : Before(k, l)' <=> Before(k, l)
  BY <1>1 DEF Before
<1>7. \A i \in 1 .. Len(s) : s[i] \in todo /\ \A j \in 1 .. (i - 1) : s[j] # s[i]
  BY <1>4 DEF Fetch
<1>8. \A i, j \in 1 .. Len(s) : s[i] = s[j] => i = j
  <2> SUFFICES ASSUME NEW i \in 1 .. Len(s), NEW j \in 1 .. Len(s), i < j
               PROVE  s[i] # s[j]
    BY <1>4
  <2>1. i \in 1 .. (j - 1)
    BY <1>4
  <2> QED
    BY <1>7, <2>1
<1>9. \A i \in 1 .. Len(got) : got[i] \notin todo
  BY <1>1 DEF In
<1>10. \A i \in 1 .. Len(s) : \A k \in todo :
          (\A j \in 1 .. (i - 1) : s[j] # k) /\ Before(k, s[i]) => Size[s[i]] < Size[k]
  <2> SUFFICES ASSUME NEW i \in 1 .. Len(s), NEW k \in todo,
                      \A j \in 1 .. (i - 1) : s[j] # k, Before(k, s[i])
               PROVE  Size[s[i]] < Size[k]
    OBVIOUS
  <2> QED
    BY DEF Fetch
<1>11. OnceOnly'
  <2> SUFFICES ASSUME NEW i \in 1 .. Len(got'), NEW j \in 1 .. Len(got'), got'[i] = got'[j]
               PROVE  i = j
    BY DEF OnceOnly
  <2>1. CASE i \in 1 .. Len(got) /\ j \in 1 .. Len(got)
    BY <1>4, <2>1 DEF IInv, OnceOnly
  <2>2. CASE i - Len(got) \in 1 .. Len(s) /\ j - Len(got) \in 1 .. Len(s)
    <3>1. got'[i] = s[i - Len(got)] /\ got'[j] = s[j - Len(got)]
      BY <1>4, <2>2
    <3>2. i - Len(got) = j - Len(got)
      BY <1>8, <2>2, <3>1
    <3> QED
      BY <1>4, <3>2
  <2>3. ASSUME NEW x \in 1 .. Len(got), NEW y \in 1 .. Len(got'),
               y - Len(got) \in 1 .. Len(s)
        PROVE  got'[x] # got'[y]
    <3>1. got'[x] = got[x] /\ got'[y] = s[y - Len(got)]
      BY <1>4, <2>3
    <3> QED
      BY <1>7, <1>9, <2>3, <3>1
  <2> QED
    BY <1>5, <2>1, <2>2, <2>3
<1>12. OvertakenBySmaller'
  <2> SUFFICES ASSUME NEW i \in 1 .. Len(got'), NEW j \in 1 .. Len(got'),
                      i < j, Before(got'[j], got'[i])
               PROVE  Size[got'[i]] < Size[got'[j]]
    BY <1>6 DEF OvertakenBySmaller
  <2>1. CASE i \in 1 .. Len(got) /\ j \in 1 .. Len(got)
    BY <1>4, <2>1 DEF IInv, OvertakenBySmaller
  <2>2. CASE i \in 1 .. Len(got) /\ j - Len(got) \in 1 .. Len(s)
    <3>1. got'[i] = got[i] /\ got'[j] = s[j - Len(got)]
      BY <1>4, <2>2
    <3> QED
      BY <1>7, <2>2, <3>1 DEF IInv
  <2>3. CASE i - Len(got) \in 1 .. Len(s)
    <3> DEFINE x == i - Len(got)
               y == j - Len(got)
    <3>1. x \in 1 .. Len(s) /\ y \in 1 .. Len(s) /\ x < y
      BY <1>4, <2>3
    <3>2. got'[i] = s[x] /\ got'[j] = s[y]
      BY <1>4, <2>3, <3>1
    <3>3. \A z \in 1 .. (x - 1) : s[z] # s[y]
      <4> HIDE DEF x, y
      <4>1. \A z \in 1 .. (x - 1) : z \in 1 .. Len(s) /\ z # y
        BY <1>4, <3>1
      <4> QED
        BY <1>8, <3>1, <4>1
    <3> HIDE DEF x, y
    <3> QED
      BY <1>7, <1>10, <3>1, <3>2, <3>3
  <2> QED
    BY <1>5, <2>1, <2>2, <2>3
<1>13. (\A k \in todo : \A i \in 1 .. Len(got) : Before(k, got[i]) => Size[got[i]] < Size[k])'
  <2> SUFFICES ASSUME NEW k \in todo', NEW i \in 1 .. Len(got'), Before(k, got'[i])
               PROVE  Size[got'[i]] < Size[k]
    BY <1>6
  <2>1. k \in todo /\ \A x \in 1 .. Len(s) : s[x] # k
    BY <1>1 DEF In
  <2>2. CASE i \in 1 .. Len(got)
    <3>1. got'[i] = got[i] /\ Before(k, got[i])
      BY <1>4, <2>2
    <3> QED
      BY <2>1, <2>2, <3>1 DEF IInv
  <2>3. CASE i - Len(got) \in 1 .. Len(s)
    <3> DEFINE x == i - Len(got)
    <3>1. got'[i] = s[x] /\ x \in 1 .. Len(s)
      BY <1>4, <2>3
    <3>2. \A z \in 1 .. (x - 1) : z \in 1 .. Len(s)
      BY <1>4, <3>1
    <3> HIDE DEF x
    <3> QED
      BY <1>10, <2>1, <3>1, <3>2
  <2> QED
    BY <1>5, <2>2, <2>3
<1>14. In(s) \subseteq todo
  BY <1>7 DEF In
<1>15. \A i \in 1 .. Len(got') : got'[i] \in In(got) \cup In(s)
  BY <1>4, <1>5 DEF In
<1>16. In(got)' \subseteq In(got) \cup In(s)
  BY <1>15 DEF In
<1>17. In(log)' = In(log)
  BY <1>1
<1>18. (todo \subseteq In(log) /\ In(got) \subseteq In(log) /\ todo \cap In(got) = {})'
  BY <1>1, <1>14, <1>16, <1>17
<1>19. (log \in Seq(Msgs) /\ \A i, j \in 1 .. Len(log) : log[i] = log[j] => i = j)'
  BY <1>1 DEF IInv
<1> QED
  BY <1>4, <1>11, <1>12, <1>13, <1>18, <1>19 DEF IInv

LEMMA BreakStep ==
    ASSUME IInv, Break
    PROVE  IInv'
<1>1. log' = log /\ got' = got /\ todo' \subseteq todo
  BY DEF Break
<1> QED
  BY <1>1 DEF IInv, In, Before, OnceOnly, OvertakenBySmaller

LEMMA ReconnectStep ==
    ASSUME IInv, Reconnect
    PROVE  IInv'
<1>1. /\ log' = log /\ todo' \subseteq In(log)
      /\ got' = <<>> /\ got' \in Seq(Msgs) /\ Len(got') = 0
  BY EmptySeq DEF Reconnect
<1>2. In(log)' = In(log) /\ In(got)' = {}
  BY <1>1 DEF In
<1>3. OnceOnly' /\ OvertakenBySmaller'
  BY <1>1 DEF OnceOnly, OvertakenBySmaller
<1> QED
  BY <1>1, <1>2, <1>3 DEF IInv

(* Every step of the channel keeps its invariant.                          *)
LEMMA NextIInv == IInv /\ [Next]_vars => IInv'
<1> SUFFICES ASSUME IInv, [Next]_vars PROVE IInv'
  OBVIOUS
<1>1. ASSUME NEW m \in Msgs, Accept(m) PROVE IInv'
  BY <1>1, AcceptStep
<1>2. ASSUME NEW n \in 1 .. Cardinality(todo), NEW s \in [1 .. n -> todo], Fetch(s)
      PROVE  IInv'
  <2>1. s \in Seq(todo)
    OBVIOUS
  <2> QED
    BY <1>2, <2>1, FetchStep
<1>3. CASE Break
  BY <1>3, BreakStep
<1>4. CASE Reconnect
  BY <1>4, ReconnectStep
<1>5. CASE UNCHANGED vars
  BY <1>5, BreakStep DEF vars, Break
<1> QED
  BY <1>1, <1>2, <1>3, <1>4, <1>5 DEF Next

(* The invariant holds as long as the channel is used.                     *)
THEOREM ChannelInvariant == Spec => []IInv
  BY InitIInv, NextIInv, PTL DEF Spec

(* What a channel hands over: no message twice while a connection lasts.   *)
THEOREM ChannelHandsOverOnce == Spec => []OnceOnly
<1>1. IInv => OnceOnly
  BY DEF IInv
<1> QED
  BY <1>1, ChannelInvariant, PTL

(* A message is only overtaken by smaller ones, which were packed into the *)
(* room that it did not fit into.                                          *)
THEOREM ChannelKeepsTheOrder == Spec => []OvertakenBySmaller
<1>1. IInv => OvertakenBySmaller
  BY DEF IInv
<1> QED
  BY <1>1, ChannelInvariant, PTL

-----------------------------------------------------------------------------
(* Sequences that are gone through step by step.                           *)

(* A set of numbers that is not empty has a smallest one.                  *)
LEMMA SmallestNumber ==
  ASSUME NEW S \in SUBSET Nat, S # {}
  PROVE  \E x \in S : \A y \in S : x <= y
<1>1. PICK x \in S : \A y \in S : ~(<<y, x>> \in OpToRel(<, Nat))
  BY NatLessThanWellFounded, WFMin
<1>2. OpToRel(<, Nat) = {ss \in Nat \X Nat : ss[1] < ss[2]}
  BY DEF OpToRel
<1>3. ASSUME NEW y \in S PROVE x <= y
  <2>1. ~(y < x)
    BY <1>1, <1>2
  <2>2. QED
    BY <2>1
<1>4. QED
  BY <1>3

(* Each step after the first leads from one of the sets to the next.       *)
LEMMA StepsStay ==
  ASSUME NEW N \in Nat, NEW T, 0 \in T,
         \A i \in 1 .. N : i - 1 \in T => i \in T
  PROVE  \A i \in 0 .. N : i \in T
<1> DEFINE U == (0 .. N) \ T
<1>1. SUFFICES ASSUME U # {} PROVE FALSE
  OBVIOUS
<1>2. PICK x \in U : \A y \in U : x <= y
  <2>1. U \in SUBSET Nat
    OBVIOUS
  <2> HIDE DEF U
  <2>2. QED
    BY <1>1, <2>1, SmallestNumber
<1>3. x \in 1 .. N /\ x \notin T /\ x - 1 \in 0 .. N /\ ~(x <= x - 1)
  OBVIOUS
<1>4. x - 1 \in T
  BY <1>2, <1>3
<1>5. QED
  BY <1>3, <1>4

(* What holds of the first value, and is kept, holds of all.               *)
LEMMA StaysWithin ==
  ASSUME NEW N \in Nat, NEW S, NEW f, f[0] \in S[0],
         \A i \in 1 .. N : f[i - 1] \in S[i - 1] => f[i] \in S[i]
  PROVE  \A i \in 0 .. N : f[i] \in S[i]
<1> DEFINE T == {i \in 0 .. N : f[i] \in S[i]}
<1>1. 0 \in T /\ \A i \in 1 .. N : i - 1 \in T => i \in T
  OBVIOUS
<1> HIDE DEF T
<1>2. \A i \in 0 .. N : i \in T
  BY <1>1, StepsStay
<1> USE DEF T
<1>3. QED
  BY <1>2

(* A computation of N steps F that begins with first, and that there is one. *)
Computes(f, N, first, F) ==
    f = [i \in 0 .. N |-> IF i = 0 THEN first ELSE F[<<i, f[i - 1]>>]]

(* There is a function that is computed step by step.                      *)
LEMMA StepByStep ==
  ASSUME NEW N \in Nat, NEW first, NEW F
  PROVE  \E f : Computes(f, N, first, F)
<1> USE DEF Computes
<1> DEFINE Is(f, k) == Computes(f, k, first, F)
           T == {k \in 0 .. N : \E f : Is(f, k)}
<1>1. 0 \in T
  <2> DEFINE f == [i \in 0 .. 0 |-> first]
             g == [i \in 0 .. 0 |-> IF i = 0 THEN first ELSE F[<<i, f[i - 1]>>]]
  <2>1. f = g
    <3>1. \A i \in 0 .. 0 : i = 0
      OBVIOUS
    <3>2. QED
      BY <3>1
  <2>2. Is(f, 0)
    BY <2>1
  <2> HIDE DEF Is, Computes
  <2>3. QED
    BY <2>2
<1>2. ASSUME NEW k \in 1 .. N, k - 1 \in T PROVE k \in T
  <2>1. PICK f : Is(f, k - 1)
    BY <1>2
  <2> DEFINE g == [i \in 0 .. k |-> IF i = k THEN F[<<k, f[k - 1]>>] ELSE f[i]]
             h == [i \in 0 .. k |-> IF i = 0 THEN first ELSE F[<<i, g[i - 1]>>]]
  <2>2. ASSUME NEW i \in 0 .. k PROVE g[i] = h[i]
    <3>1. CASE i = 0
      <4>1. i # k /\ i \in 0 .. k - 1
        BY <3>1
      <4>2. f[i] = first
        BY <2>1, <3>1, <4>1
      <4>3. QED
        BY <3>1, <4>1, <4>2
    <3>2. CASE i \in 1 .. k - 1
      <4>1. i # k /\ i # 0 /\ i - 1 \in 0 .. k /\ i - 1 # k /\ i \in 0 .. k - 1
        BY <3>2
      <4>2. f[i] = F[<<i, f[i - 1]>>]
        BY <2>1, <4>1
      <4>3. g[i] = f[i] /\ g[i - 1] = f[i - 1]
        BY <4>1
      <4>4. h[i] = F[<<i, g[i - 1]>>]
        BY <4>1
      <4> HIDE DEF g, h
      <4>5. QED
        BY <4>2, <4>3, <4>4
    <3>3. CASE i = k
      <4>1. i # 0 /\ i - 1 \in 0 .. k /\ i - 1 # k
        BY <3>3
      <4>2. g[i] = F[<<k, f[k - 1]>>] /\ g[i - 1] = f[k - 1]
        BY <3>3, <4>1
      <4>3. h[i] = F[<<i, g[i - 1]>>]
        BY <4>1
      <4> HIDE DEF g, h
      <4>4. QED
        BY <3>3, <4>2, <4>3
    <3>4. QED
      BY <3>1, <3>2, <3>3
  <2>3. g = h
    BY <2>2
  <2>4. Is(g, k)
    BY <2>3
  <2> HIDE DEF Is, Computes
  <2>5. QED
    BY <2>4
<1>3. N \in T
  <2> HIDE DEF T
  <2>1. \A i \in 0 .. N : i \in T
    BY <1>1, <1>2, StepsStay
  <2>2. QED
    BY <2>1
<1>4. \E f : Is(f, N)
  <2> HIDE DEF Is, Computes
  <2>1. QED
    BY <1>3
<1> HIDE DEF T, Computes
<1>5. QED
  BY <1>4, Zenon

(* What holds of the empty sequence and is kept by appending holds of all  *)
(* sequences.                                                              *)
LEMMA ByAppending ==
  ASSUME NEW S, NEW T, <<>> \in T,
         \A s \in Seq(S) : s \in T => \A x \in S : Append(s, x) \in T
  PROVE  \A s \in Seq(S) : s \in T
<1> SUFFICES ASSUME NEW s \in Seq(S) PROVE s \in T
  OBVIOUS
<1> DEFINE N == Len(s)
           first(i) == SubSeq(s, 1, i)
           U == {i \in 0 .. N : first(i) \in T}
<1>1. N \in Nat /\ \A i \in 1 .. N : s[i] \in S
  BY ElementOfSeq, LenProperties
<1>2. 0 \in U
  <2>1. first(0) = <<>>
    BY SubSeqEmpty
  <2>2. 0 \in 0 .. N
    BY <1>1
  <2> HIDE DEF first, N
  <2>3. QED
    BY <2>1, <2>2
<1>3. ASSUME NEW i \in 1 .. N, i - 1 \in U PROVE i \in U
  <2>1. i - 1 \in 0 .. N /\ i \in 0 .. N /\ i \in Nat
    BY <1>1
  <2>2. first(i - 1) \in Seq(S) /\ first(i) \in Seq(S) /\ Len(first(i - 1)) = i - 1 /\ Len(first(i)) = i
    BY <1>1, <2>1, SubSeqProperties
  <2>3. \A j \in 1 .. i : first(i)[j] = s[j] /\ (j <= i - 1 => first(i - 1)[j] = s[j])
    BY <1>1, <2>1, SubSeqProperties
  <2>4. first(i) = Append(first(i - 1), s[i])
    <3> DEFINE r == Append(first(i - 1), s[i])
    <3>1. r \in Seq(S) /\ Len(r) = i /\ r[i] = s[i] /\ \A j \in 1 .. i - 1 : r[j] = first(i - 1)[j]
      BY <1>1, <2>2, AppendProperties
    <3>2. \A j \in 1 .. i : r[j] = first(i)[j]
      BY <2>1, <2>3, <3>1
    <3> HIDE DEF r, first
    <3>3. QED
      BY <2>2, <3>1, <3>2, SeqEqual DEF r
  <2>5. first(i - 1) \in T
    BY <1>3
  <2> HIDE DEF first
  <2>6. QED
    BY <1>1, <2>1, <2>2, <2>4, <2>5
<1>4. \A i \in 0 .. N : i \in U
  <2> HIDE DEF U
  <2>1. QED
    BY <1>1, <1>2, <1>3, StepsStay
<1>5. first(N) = s
  BY SubSeqFull
<1>6. N \in U
  BY <1>1, <1>4
<1> HIDE DEF first, N
<1>7. QED
  BY <1>5, <1>6

-----------------------------------------------------------------------------
(* The elements of a sequence that are in a set.                           *)

(* What is in a sequence to which one is appended.                         *)
LEMMA AppendedRange ==
  ASSUME NEW T, NEW s \in Seq(T), NEW x \in T
  PROVE  /\ Append(s, x) \in Seq(T) /\ Len(Append(s, x)) = Len(s) + 1 /\ Len(s) \in Nat
         /\ Range(Append(s, x)) = Range(s) \cup {x}
<1> DEFINE r == Append(s, x)
<1>1. /\ r \in Seq(T) /\ Len(s) \in Nat /\ Len(r) = Len(s) + 1 /\ r[Len(s) + 1] = x
      /\ \A i \in 1 .. Len(s) : r[i] = s[i]
  BY AppendProperties, LenProperties
<1>2. DOMAIN r = 1 .. Len(s) + 1 /\ DOMAIN s = 1 .. Len(s)
  BY <1>1, LenProperties
<1> HIDE DEF r
<1>3. \A i \in 1 .. Len(s) + 1 : i \in 1 .. Len(s) \/ i = Len(s) + 1
  BY <1>1
<1>4. \A i \in 1 .. Len(s) : i \in 1 .. Len(s) + 1
  BY <1>1
<1>5. Range(r) = Range(s) \cup {x}
  BY <1>1, <1>2, <1>3, <1>4 DEF Range
<1>6. QED
  BY <1>1, <1>5 DEF r

(* How they are picked.                                                    *)
Picks(f, s, S) ==
    /\ f[0] = <<>> /\ D!Only(s, S) = f[Len(s)]
    /\ \A i \in 1 .. Len(s) : f[i] = IF s[i] \in S THEN Append(f[i - 1], s[i]) ELSE f[i - 1]

LEMMA OnlyPicks ==
  ASSUME NEW T, NEW s \in Seq(T), NEW S
  PROVE  \E f : Picks(f, s, S) /\ \A i \in 0 .. Len(s) : f[i] \in Seq(T)
<1> DEFINE N == Len(s)
           First == <<>>
           all == Seq(T)
           G(i, r) == IF s[i] \in S THEN Append(r, s[i]) ELSE r
           F == [z \in (1 .. N) \X all |-> G(z[1], z[2])]
           Eqn(f) == f = [i \in 0 .. N |-> IF i = 0 THEN First ELSE G(i, f[i - 1])]
           this == CHOOSE f : Eqn(f)
<1>1. D!Only(s, S) = this[N]
  BY DEF D!Only
<1>2. N \in Nat /\ First \in all /\ \A i \in 1 .. N : \A r \in all : G(i, r) \in all
  BY LenProperties, ElementOfSeq, EmptySeq, AppendProperties
<1> HIDE DEF N, First, G, all
<1>3. \A i \in 1 .. N : \A r \in all : F[<<i, r>>] = G(i, r)
  OBVIOUS
<1>4. PICK f : Computes(f, N, First, F)
  BY <1>2, StepByStep
<1>5. \A i \in 0 .. N : i = 0 \/ (i \in 1 .. N /\ i # 0 /\ i - 1 \in 0 .. N)
  BY <1>2
<1>6. f[0] = First /\ \A i \in 1 .. N : f[i] = F[<<i, f[i - 1]>>]
  <2> HIDE DEF F
  <2>1. 0 \in 0 .. N /\ \A i \in 1 .. N : i \in 0 .. N /\ i # 0
    BY <1>2
  <2>2. QED
    BY <1>4, <2>1 DEF Computes
<1>7. \A i \in 0 .. N : f[i] \in all
  <2> DEFINE U == {i \in 0 .. N : f[i] \in all}
  <2>1. 0 \in U
    BY <1>2, <1>6
  <2>2. ASSUME NEW i \in 1 .. N, i - 1 \in U PROVE i \in U
    <3>1. F[<<i, f[i - 1]>>] = G(i, f[i - 1])
      BY <1>3, <2>2
    <3> HIDE DEF F
    <3>2. QED
      BY <1>2, <1>6, <2>2, <3>1
  <2>3. \A i \in 0 .. N : i \in U
    <3> HIDE DEF U
    <3>1. QED
      BY <1>2, <2>1, <2>2, StepsStay
  <2>4. QED
    BY <2>3
<1>8. \A i \in 1 .. N : f[i] = G(i, f[i - 1])
  <2> HIDE DEF F
  <2>1. \A i \in 1 .. N : i - 1 \in 0 .. N
    BY <1>2
  <2>2. QED
    BY <1>3, <1>6, <1>7, <2>1
<1>9. Eqn(f)
  <2> HIDE DEF F
  <2>1. \A i \in 0 .. N : f[i] = IF i = 0 THEN First ELSE G(i, f[i - 1])
    BY <1>5, <1>6, <1>8
  <2>2. f = [i \in 0 .. N |-> f[i]]
    BY <1>4 DEF Computes
  <2>3. QED
    BY <2>1, <2>2
<1>10. Eqn(this)
  <2> HIDE DEF Eqn
  <2>1. QED
    BY <1>9
<1>11. this[0] = First /\ \A i \in 1 .. N : this[i] = G(i, this[i - 1])
  <2> HIDE DEF this
  <2>1. 0 \in 0 .. N /\ \A i \in 1 .. N : i \in 0 .. N /\ i # 0
    BY <1>2
  <2>2. QED
    BY <1>10, <2>1
<1> HIDE DEF this
<1>12. \A i \in 0 .. N : this[i] \in all
  <2> DEFINE U == {i \in 0 .. N : this[i] \in all}
  <2>1. 0 \in U
    BY <1>2, <1>11
  <2>2. ASSUME NEW i \in 1 .. N, i - 1 \in U PROVE i \in U
    BY <1>2, <1>11, <2>2
  <2>3. \A i \in 0 .. N : i \in U
    <3> HIDE DEF U
    <3>1. QED
      BY <1>2, <2>1, <2>2, StepsStay
  <2>4. QED
    BY <2>3
<1>13. Picks(this, s, S) /\ \A i \in 0 .. Len(s) : this[i] \in Seq(T)
  BY <1>1, <1>11, <1>12 DEF N, First, G, all, Picks
<1>14. QED
  BY <1>13

(* From the empty sequence nothing is picked.                              *)
LEMMA OnlyOfNone == ASSUME NEW S PROVE D!Only(<<>>, S) = <<>>
<1> DEFINE none == <<>>
<1>1. none \in Seq({}) /\ Len(none) = 0
  BY EmptySeq
<1> HIDE DEF none
<1>2. PICK f : Picks(f, none, S)
  BY <1>1, OnlyPicks
<1>3. QED
  BY <1>1, <1>2 DEF Picks, none

(* What is appended is picked last.                                        *)
Appends(s, x, S) ==
    D!Only(Append(s, x), S) = IF x \in S THEN Append(D!Only(s, S), x) ELSE D!Only(s, S)

LEMMA OnlyOfAppend ==
  ASSUME NEW T, NEW s \in Seq(T), NEW x \in T, NEW S
  PROVE  D!Only(s, S) \in Seq(T) /\ Appends(s, x, S)
<1> DEFINE N == Len(s)
           r == Append(s, x)
<1>1. /\ r \in Seq(T) /\ N \in Nat /\ Len(r) = N + 1 /\ r[N + 1] = x
      /\ \A i \in 1 .. N : r[i] = s[i]
  BY AppendProperties, LenProperties
<1> HIDE DEF r, N
<1>a. PICK f : Picks(f, s, S) /\ \A i \in 0 .. Len(s) : f[i] \in Seq(T)
  BY OnlyPicks
<1>b. PICK g : Picks(g, r, S)
  BY <1>1, OnlyPicks
<1>2. /\ f[0] = <<>> /\ D!Only(s, S) = f[N]
      /\ \A i \in 1 .. N : f[i] = IF s[i] \in S THEN Append(f[i - 1], s[i]) ELSE f[i - 1]
      /\ \A i \in 0 .. N : f[i] \in Seq(T)
  BY <1>a DEF Picks, N
<1>3. /\ g[0] = <<>> /\ D!Only(r, S) = g[N + 1]
      /\ \A i \in 1 .. N + 1 : g[i] = IF r[i] \in S THEN Append(g[i - 1], r[i]) ELSE g[i - 1]
  BY <1>1, <1>b DEF Picks
<1> DEFINE U == {i \in 0 .. N : f[i] = g[i]}
<1>4. 0 \in U
  BY <1>1, <1>2, <1>3
<1>5. ASSUME NEW i \in 1 .. N, i - 1 \in U PROVE i \in U
  <2>1. i \in 1 .. N + 1 /\ i \in 0 .. N
    BY <1>1
  <2>2. QED
    BY <1>1, <1>2, <1>3, <1>5, <2>1
<1>6. \A i \in 0 .. N : i \in U
  <2> HIDE DEF U
  <2>1. QED
    BY <1>1, <1>4, <1>5, StepsStay
<1>7. f[N] = g[N] /\ N \in 0 .. N /\ N + 1 \in 1 .. N + 1 /\ (N + 1) - 1 = N
  BY <1>1, <1>6
<1>8. QED
  BY <1>1, <1>2, <1>3, <1>7 DEF r, Appends

(* A part of a sequence has the elements that are in the set and is not    *)
(* longer than it; together with the others it is as long as the sequence. *)
LEMMA OnlyFacts ==
  ASSUME NEW T, NEW s \in Seq(T), NEW S
  PROVE  /\ D!Only(s, S) \in Seq(T) /\ D!Only(s, S) \in Seq(T \cap S)
         /\ Range(D!Only(s, S)) = Range(s) \cap S
         /\ Len(D!Only(s, S)) + Len(D!Only(s, T \ S)) = Len(s)
<1> DEFINE Good(q) == /\ D!Only(q, S) \in Seq(T \cap S)
                      /\ Range(D!Only(q, S)) = Range(q) \cap S
                      /\ Len(D!Only(q, S)) + Len(D!Only(q, T \ S)) = Len(q)
           U == {q \in Seq(T) : Good(q)}
           none == <<>>
<1>1. none \in U
  <2>1. Len(none) = 0 /\ none \in Seq(T) /\ none \in Seq(T \cap S) /\ Range(none) = {}
    BY EmptySeq DEF Range
  <2>2. D!Only(none, S) = none /\ D!Only(none, T \ S) = none
    BY OnlyOfNone
  <2>3. Good(none)
    <3> HIDE DEF none
    <3>1. QED
      BY <2>1, <2>2
  <2> HIDE DEF none, Good
  <2>4. QED
    BY <2>1, <2>3
<1>2. ASSUME NEW q \in Seq(T), q \in U, NEW x \in T PROVE Append(q, x) \in U
  <2> DEFINE a == Append(q, x)
             o == D!Only(q, S)
             n == D!Only(q, T \ S)
  <2>1. Good(q)
    BY <1>2
  <2>2. /\ a \in Seq(T) /\ Len(a) = Len(q) + 1 /\ Len(q) \in Nat
        /\ Range(a) = Range(q) \cup {x}
    BY AppendedRange
  <2>3. Appends(q, x, S)
    BY OnlyOfAppend
  <2>4. n \in Seq(T) /\ Appends(q, x, T \ S)
    BY OnlyOfAppend
  <2>5. Len(o) \in Nat /\ Len(n) \in Nat
    BY <2>1, <2>4, LenProperties
  <2>6. Good(a)
    <3>1. CASE x \in S
      <4>1. /\ Append(o, x) \in Seq(T \cap S) /\ Len(Append(o, x)) = Len(o) + 1
            /\ Range(Append(o, x)) = Range(o) \cup {x}
        BY <2>1, <3>1, AppendedRange
      <4>2. D!Only(a, S) = Append(o, x) /\ D!Only(a, T \ S) = n
        BY <2>3, <2>4, <3>1 DEF Appends
      <4> HIDE DEF a, o, n
      <4>3. o \in Seq(T \cap S) /\ Range(o) = Range(q) \cap S /\ Len(o) + Len(n) = Len(q)
        BY <2>1 DEF o, n
      <4>4. QED
        <5>1. D!Only(a, S) \in Seq(T \cap S) /\ Range(D!Only(a, S)) = Range(a) \cap S
          BY <2>2, <3>1, <4>1, <4>2, <4>3
        <5>2. Len(D!Only(a, S)) + Len(D!Only(a, T \ S)) = Len(a)
          BY <2>2, <2>5, <4>1, <4>2, <4>3
        <5>3. QED
          BY <5>1, <5>2
    <3>2. CASE x \notin S
      <4>1. Len(Append(n, x)) = Len(n) + 1
        BY <2>4, AppendedRange
      <4>2. D!Only(a, S) = o /\ D!Only(a, T \ S) = Append(n, x)
        BY <2>3, <2>4, <3>2 DEF Appends
      <4> HIDE DEF a, o, n
      <4>3. o \in Seq(T \cap S) /\ Range(o) = Range(q) \cap S /\ Len(o) + Len(n) = Len(q)
        BY <2>1 DEF o, n
      <4>4. QED
        <5>1. D!Only(a, S) \in Seq(T \cap S) /\ Range(D!Only(a, S)) = Range(a) \cap S
          BY <2>2, <3>2, <4>1, <4>2, <4>3
        <5>2. Len(D!Only(a, S)) + Len(D!Only(a, T \ S)) = Len(a)
          BY <2>2, <2>5, <4>1, <4>2, <4>3
        <5>3. QED
          BY <5>1, <5>2
    <3>3. QED
      BY <3>1, <3>2
  <2> HIDE DEF Good
  <2>7. QED
    BY <2>2, <2>6
<1>3. s \in U
  <2> HIDE DEF U
  <2>1. QED
    BY <1>1, <1>2, ByAppending
<1>4. Seq(T \cap S) \subseteq Seq(T)
  BY SeqMonotonic
<1>5. QED
  BY <1>3, <1>4

(* Appending to the second of two sequences appends to both.              *)
LEMMA ConcatOfAppend ==
  ASSUME NEW T, NEW r \in Seq(T), NEW s \in Seq(T), NEW x \in T
  PROVE  r \o Append(s, x) = Append(r \o s, x)
<1>1. <<x>> \in Seq(T) /\ r \o s \in Seq(T)
  BY ConcatProperties
<1>2. Append(s, x) = s \o <<x>> /\ Append(r \o s, x) = (r \o s) \o <<x>>
  BY <1>1, AppendIsConcat
<1>3. (r \o s) \o <<x>> = r \o (s \o <<x>>)
  BY <1>1, ConcatAssociative
<1>4. QED
  BY <1>2, <1>3

(* Of two sequences, one behind the other, and of a part of a sequence.    *)
Splits(r, s, S) == D!Only(r \o s, S) = D!Only(r, S) \o D!Only(s, S)

LEMMA OnlyOfConcat ==
  ASSUME NEW T, NEW r \in Seq(T), NEW s \in Seq(T), NEW S
  PROVE  Splits(r, s, S)
<1> DEFINE o == D!Only(r, S)
           Good(q) == D!Only(r \o q, S) = o \o D!Only(q, S)
           U == {q \in Seq(T) : Good(q)}
           none == <<>>
<1>0. o \in Seq(T)
  BY OnlyFacts
<1>1. none \in U
  <2>1. none \in Seq(T) /\ r \o none = r /\ o \o none = o /\ D!Only(none, S) = none
    BY <1>0, EmptySeq, ConcatEmptySeq, OnlyOfNone
  <2> HIDE DEF none
  <2>2. QED
    BY <2>1
<1>2. ASSUME NEW q \in Seq(T), q \in U, NEW x \in T PROVE Append(q, x) \in U
  <2> DEFINE n == D!Only(q, S)
  <2>1. r \o Append(q, x) = Append(r \o q, x) /\ r \o q \in Seq(T) /\ Append(q, x) \in Seq(T)
    BY ConcatOfAppend, ConcatProperties, AppendProperties
  <2>2. n \in Seq(T) /\ D!Only(r \o q, S) = o \o n
    BY <1>2, OnlyOfAppend
  <2>3. Appends(q, x, S) /\ Appends(r \o q, x, S)
    BY <2>1, OnlyOfAppend
  <2>4. D!Only(r \o Append(q, x), S)
          = IF x \in S THEN Append(o \o n, x) ELSE o \o n
    BY <2>1, <2>2, <2>3 DEF Appends
  <2>5. D!Only(Append(q, x), S) = IF x \in S THEN Append(n, x) ELSE n
    BY <2>3 DEF Appends
  <2>6. Good(Append(q, x))
    <3> HIDE DEF o, n
    <3>0. n \in Seq(T)
      BY <2>2
    <3>1. o \o Append(n, x) = Append(o \o n, x)
      BY <1>0, <3>0, ConcatOfAppend
    <3>2. QED
      BY <2>4, <2>5, <3>1
  <2> HIDE DEF Good
  <2>7. QED
    BY <2>1, <2>6
<1>3. s \in U
  <2> HIDE DEF U
  <2>1. QED
    BY <1>1, <1>2, ByAppending
<1>4. QED
  BY <1>3 DEF Splits

(* What is picked from what was picked.                                    *)
PicksAgain(s, S, R) == D!Only(D!Only(s, S), R) = D!Only(s, S \cap R)

LEMMA OnlyOfOnly ==
  ASSUME NEW T, NEW s \in Seq(T), NEW S, NEW R
  PROVE  PicksAgain(s, S, R)
<1> DEFINE Good(q) == D!Only(D!Only(q, S), R) = D!Only(q, S \cap R)
           U == {q \in Seq(T) : Good(q)}
<1>1. <<>> \in U
  BY OnlyOfNone, EmptySeq
<1>2. ASSUME NEW q \in Seq(T), q \in U, NEW x \in T PROVE Append(q, x) \in U
  <2> DEFINE n == D!Only(q, S)
             b == D!Only(q, S \cap R)
             a == Append(q, x)
  <2>1. n \in Seq(T) /\ Appends(q, x, S) /\ Appends(q, x, S \cap R)
    BY OnlyOfAppend
  <2>2. Appends(n, x, R)
    BY <2>1, OnlyOfAppend
  <2>3. /\ D!Only(a, S) = IF x \in S THEN Append(n, x) ELSE n
        /\ D!Only(a, S \cap R) = IF x \in S \cap R THEN Append(b, x) ELSE b
        /\ D!Only(Append(n, x), R) = IF x \in R THEN Append(D!Only(n, R), x) ELSE D!Only(n, R)
    BY <2>1, <2>2 DEF Appends
  <2>4. D!Only(n, R) = b /\ a \in Seq(T)
    BY <1>2, AppendProperties
  <2>5. Good(a)
    <3> HIDE DEF n, b, a
    <3>1. QED
      BY <2>1, <2>2, <2>3, <2>4
  <2> HIDE DEF Good
  <2>6. QED
    BY <2>4, <2>5
<1>3. s \in U
  <2> HIDE DEF U
  <2>1. QED
    BY <1>1, <1>2, ByAppending
<1>4. QED
  BY <1>3 DEF PicksAgain

(* Only the elements of the sequence matter; all is picked when all is in  *)
(* the set, nothing when nothing is.                                       *)
LEMMA OnlyOfAll ==
  ASSUME NEW T, NEW s \in Seq(T), NEW S, NEW R
  PROVE  /\ Range(s) \cap S = Range(s) \cap R => D!Only(s, S) = D!Only(s, R)
         /\ Range(s) \subseteq S => D!Only(s, S) = s
         /\ Range(s) \cap S = {} => D!Only(s, S) = <<>>
<1> DEFINE Good(q) == /\ Range(q) \cap S = Range(q) \cap R => D!Only(q, S) = D!Only(q, R)
                      /\ Range(q) \subseteq S => D!Only(q, S) = q
                      /\ Range(q) \cap S = {} => D!Only(q, S) = <<>>
           U == {q \in Seq(T) : Good(q)}
<1>1. <<>> \in U
  BY OnlyOfNone, EmptySeq
<1>2. ASSUME NEW q \in Seq(T), q \in U, NEW x \in T PROVE Append(q, x) \in U
  <2> DEFINE a == Append(q, x)
  <2>1. a \in Seq(T) /\ Range(a) = Range(q) \cup {x}
    BY AppendedRange
  <2>2. Appends(q, x, S) /\ Appends(q, x, R)
    BY OnlyOfAppend
  <2>3. /\ D!Only(a, S) = IF x \in S THEN Append(D!Only(q, S), x) ELSE D!Only(q, S)
        /\ D!Only(a, R) = IF x \in R THEN Append(D!Only(q, R), x) ELSE D!Only(q, R)
    BY <2>2 DEF Appends
  <2>4. Good(q)
    BY <1>2
  <2>5. Good(a)
    <3>1. a = Append(q, x)
      OBVIOUS
    <3> HIDE DEF a
    <3>2. QED
      BY <2>1, <2>2, <2>3, <2>4, <3>1
  <2> HIDE DEF Good
  <2>6. QED
    BY <2>1, <2>5
<1>3. s \in U
  <2> HIDE DEF U
  <2>1. QED
    BY <1>1, <1>2, ByAppending
<1>4. QED
  BY <1>3

-----------------------------------------------------------------------------
(* Sequences without duplicates, by the number of their elements.          *)

Counted(s) == IsFiniteSet(Range(s)) /\ Cardinality(Range(s)) \in Nat

LEMMA RangeIsCounted ==
  ASSUME NEW T, NEW s \in Seq(T)
  PROVE  Counted(s) /\ Cardinality(Range(s)) <= Len(s) /\ Range(s) \subseteq T
<1> DEFINE Good(q) == Counted(q) /\ Cardinality(Range(q)) <= Len(q) /\ Range(q) \subseteq T
           U == {q \in Seq(T) : Good(q)}
           none == <<>>
<1>1. none \in U
  <2>1. Len(none) = 0 /\ none \in Seq(T) /\ Range(none) = {}
    BY EmptySeq DEF Range
  <2>2. IsFiniteSet({}) /\ Cardinality({}) = 0
    BY FS_EmptySet
  <2> HIDE DEF none
  <2>3. Good(none)
    BY <2>1, <2>2 DEF Counted
  <2> HIDE DEF Good
  <2>4. QED
    BY <2>1, <2>3
<1>2. ASSUME NEW q \in Seq(T), q \in U, NEW x \in T PROVE Append(q, x) \in U
  <2> DEFINE a == Append(q, x)
  <2>1. /\ a \in Seq(T) /\ Len(a) = Len(q) + 1 /\ Len(q) \in Nat
        /\ Range(a) = Range(q) \cup {x}
    BY AppendedRange
  <2>2. Good(q)
    BY <1>2
  <2>3. /\ IsFiniteSet(Range(q) \cup {x})
        /\ \/ Cardinality(Range(q) \cup {x}) = Cardinality(Range(q))
           \/ Cardinality(Range(q) \cup {x}) = Cardinality(Range(q)) + 1
    BY <2>2, FS_AddElement DEF Counted
  <2> HIDE DEF a
  <2>4. Good(a)
    BY <2>1, <2>2, <2>3 DEF Counted
  <2> HIDE DEF Good
  <2>5. QED
    BY <2>1, <2>4 DEF a
<1>3. s \in U
  <2> HIDE DEF U
  <2>1. QED
    BY <1>1, <1>2, ByAppending
<1>4. QED
  BY <1>3

(* What is in two sequences, one behind the other.                         *)
LEMMA ConcatRange ==
  ASSUME NEW T, NEW r \in Seq(T), NEW s \in Seq(T)
  PROVE  /\ r \o s \in Seq(T) /\ Range(r \o s) = Range(r) \cup Range(s)
         /\ Len(r \o s) = Len(r) + Len(s) /\ Len(r) \in Nat /\ Len(s) \in Nat
<1> DEFINE c == r \o s
           n == Len(r)
           m == Len(s)
<1>1. /\ c \in Seq(T) /\ Len(c) = n + m /\ n \in Nat /\ m \in Nat
      /\ \A i \in 1 .. Len(c) : c[i] = IF i <= n THEN r[i] ELSE s[i - n]
      /\ DOMAIN c = 1 .. Len(c) /\ DOMAIN r = 1 .. n /\ DOMAIN s = 1 .. m
  BY ConcatProperties, LenProperties
<1> HIDE DEF c, n, m
<1>2. ASSUME NEW x \in Range(c) PROVE x \in Range(r) \cup Range(s)
  <2>1. PICK i \in 1 .. n + m : x = c[i]
    BY <1>1 DEF Range
  <2>2. (i <= n /\ i \in 1 .. n) \/ (~(i <= n) /\ i - n \in 1 .. m)
    BY <1>1
  <2>3. QED
    BY <1>1, <2>1, <2>2 DEF Range
<1>3. ASSUME NEW x \in Range(r) PROVE x \in Range(c)
  <2>1. PICK i \in 1 .. n : x = r[i]
    BY <1>1 DEF Range
  <2>2. i <= n /\ i \in 1 .. n + m
    BY <1>1
  <2>3. QED
    BY <1>1, <2>1, <2>2 DEF Range
<1>4. ASSUME NEW x \in Range(s) PROVE x \in Range(c)
  <2>1. PICK i \in 1 .. m : x = s[i]
    BY <1>1 DEF Range
  <2>2. ~(i + n <= n) /\ i + n \in 1 .. n + m /\ (i + n) - n = i
    BY <1>1
  <2>3. c[i + n] = x
    BY <1>1, <2>1, <2>2
  <2>4. QED
    BY <1>1, <2>2, <2>3 DEF Range
<1>5. Range(c) = Range(r) \cup Range(s)
  BY <1>2, <1>3, <1>4
<1>6. QED
  BY <1>1, <1>5 DEF c, n, m

(* Nothing is in it twice.                                                 *)
Distinct(s) == Cardinality(Range(s)) = Len(s)

(* A new element keeps it so.                                              *)
LEMMA DistinctAppend ==
  ASSUME NEW T, NEW s \in Seq(T), Distinct(s), NEW x \in T, x \notin Range(s)
  PROVE  Distinct(Append(s, x))
<1> DEFINE a == Append(s, x)
<1>1. Len(a) = Len(s) + 1 /\ Range(a) = Range(s) \cup {x}
  BY AppendedRange
<1>2. Cardinality(Range(s) \cup {x}) = Cardinality(Range(s)) + 1
  BY RangeIsCounted, FS_AddElement DEF Counted
<1> HIDE DEF a
<1>3. Distinct(a)
  BY <1>1, <1>2 DEF Distinct
<1>4. QED
  BY <1>3 DEF a

(* Then its parts have nothing in common.                                  *)
LEMMA DistinctParts ==
  ASSUME NEW T, NEW r \in Seq(T), NEW s \in Seq(T), Distinct(r \o s)
  PROVE  Range(r) \cap Range(s) = {}
<1> DEFINE A == Range(r)
           B == Range(s)
<1>1. /\ IsFiniteSet(A) /\ Cardinality(A) \in Nat /\ Cardinality(A) <= Len(r)
      /\ IsFiniteSet(B) /\ Cardinality(B) \in Nat /\ Cardinality(B) <= Len(s)
  BY RangeIsCounted DEF Counted
<1>2. Cardinality(A \cup B) = Len(r) + Len(s) /\ Len(r) \in Nat /\ Len(s) \in Nat
  <2>1. Range(r \o s) = A \cup B /\ Len(r \o s) = Len(r) + Len(s)
    BY ConcatRange
  <2>2. Cardinality(Range(r \o s)) = Len(r \o s)
    BY DEF Distinct
  <2>3. Len(r) \in Nat /\ Len(s) \in Nat
    BY LenProperties
  <2> HIDE DEF A, B
  <2>4. QED
    BY <2>1, <2>2, <2>3
<1> HIDE DEF A, B
<1>3. Cardinality(A \cup B) = Cardinality(A) + Cardinality(B) - Cardinality(A \cap B)
  BY <1>1, FS_Union
<1>4. IsFiniteSet(A \cap B) /\ Cardinality(A \cap B) \in Nat
  <2>1. A \cap B \in SUBSET A
    OBVIOUS
  <2>2. IsFiniteSet(A \cap B)
    BY <1>1, <2>1, FS_Subset
  <2>3. QED
    BY <2>2, FS_CardinalityType
<1>5. Cardinality(A \cap B) = 0
  BY <1>1, <1>2, <1>3, <1>4
<1>6. A \cap B = {}
  BY <1>4, <1>5, FS_EmptySet
<1>7. QED
  BY <1>6 DEF A, B
-----------------------------------------------------------------------------
(* What becomes of the messages on their way from one end of a connection  *)
(* inside a process to the other: s was sent, g is handled, c and n are in *)
(* the buffers, R was refused, and b says whether c was gone through.      *)
Kept(s, g, c, n, R, b) ==
    /\ Distinct(s)
    /\ Range((g \o c) \o n) = Range(s) /\ Len((g \o c) \o n) = Len(s)
    /\ D!Only((g \o c) \o n, Msgs \ R) = D!Only(s, Msgs \ R)
    /\ b => Range(c) \subseteq R

(* A message is sent.                                                      *)
LEMMA KeptSend ==
  ASSUME NEW s \in Seq(Msgs), NEW g \in Seq(Msgs), NEW c \in Seq(Msgs), NEW n \in Seq(Msgs),
         NEW R, NEW b, Kept(s, g, c, n, R, b), NEW m \in Msgs, m \notin Range(s)
  PROVE  Kept(Append(s, m), g, c, Append(n, m), R, b)
<1> DEFINE gc == g \o c
           l == gc \o n
           t == Append(s, m)
           k == Append(l, m)
           S == Msgs \ R
<1>1. gc \in Seq(Msgs) /\ l \in Seq(Msgs)
  BY ConcatProperties
<1>2. gc \o Append(n, m) = k
  <2> HIDE DEF gc
  <2>1. QED
    BY <1>1, ConcatOfAppend
<1>3. Range(l) = Range(s) /\ Len(l) = Len(s) /\ D!Only(l, S) = D!Only(s, S)
  BY DEF Kept
<1>4. Range(t) = Range(s) \cup {m} /\ Len(t) = Len(s) + 1
  BY AppendedRange
<1>5. Distinct(t)
  BY DistinctAppend DEF Kept
<1> HIDE DEF l, t, S
<1>6. Range(k) = Range(l) \cup {m} /\ Len(k) = Len(l) + 1
  BY <1>1, AppendedRange
<1>7. Appends(l, m, S) /\ Appends(s, m, S)
  BY <1>1, OnlyOfAppend
<1>8. D!Only(k, S) = D!Only(t, S)
  BY <1>3, <1>7 DEF Appends, t
<1> HIDE DEF k
<1>9. Range(k) = Range(t) /\ Len(k) = Len(t)
  BY <1>3, <1>4, <1>6
<1>10. b => Range(c) \subseteq R
  BY DEF Kept
<1>11. Kept(t, g, c, Append(n, m), R, b)
  BY <1>2, <1>5, <1>8, <1>9, <1>10 DEF Kept, gc, S
<1>12. QED
  BY <1>11 DEF t

(* The elements of three sequences that are in a set.                      *)
OfThree(g, c, n, S) ==
    /\ D!Only((g \o c) \o n, S) = (D!Only(g, S) \o D!Only(c, S)) \o D!Only(n, S)
    /\ Range((g \o c) \o n) = Range(g) \cup Range(c) \cup Range(n)
    /\ Len((g \o c) \o n) = Len(g) + Len(c) + Len(n)
    /\ g \o c \in Seq(Msgs) /\ (g \o c) \o n \in Seq(Msgs)

LEMMA OnlyOfThree ==
  ASSUME NEW g \in Seq(Msgs), NEW c \in Seq(Msgs), NEW n \in Seq(Msgs), NEW S
  PROVE  OfThree(g, c, n, S)
<1> DEFINE gc == g \o c
           l == gc \o n
<1>1. gc \in Seq(Msgs) /\ Range(gc) = Range(g) \cup Range(c) /\ Len(gc) = Len(g) + Len(c)
  BY ConcatRange
<1>2. D!Only(gc, S) = D!Only(g, S) \o D!Only(c, S)
  <2>1. Splits(g, c, S)
    BY OnlyOfConcat
  <2>2. QED
    BY <2>1 DEF Splits
<1>a. gc \in Seq(Msgs)
  BY <1>1
<1> HIDE DEF gc
<1>3. l \in Seq(Msgs) /\ Range(l) = Range(gc) \cup Range(n) /\ Len(l) = Len(gc) + Len(n)
  BY <1>1, ConcatRange
<1>4. D!Only(l, S) = D!Only(gc, S) \o D!Only(n, S)
  <2>1. Splits(gc, n, S)
    BY <1>a, OnlyOfConcat
  <2>2. QED
    BY <2>1 DEF Splits
<1> HIDE DEF l
<1>5. /\ D!Only(l, S) = (D!Only(g, S) \o D!Only(c, S)) \o D!Only(n, S)
      /\ Range(l) = Range(g) \cup Range(c) \cup Range(n)
      /\ Len(l) = Len(g) + Len(c) + Len(n)
  BY <1>1, <1>2, <1>3, <1>4
<1>6. QED
  BY <1>1, <1>3, <1>5 DEF l, gc, OfThree

(* The buffers are swapped.                                                *)
LEMMA KeptSwap ==
  ASSUME NEW s \in Seq(Msgs), NEW g \in Seq(Msgs), NEW c \in Seq(Msgs), NEW n \in Seq(Msgs),
         NEW R, Kept(s, g, c, n, R, TRUE)
  PROVE  Kept(s, g, n, c, R, FALSE)
<1> DEFINE S == Msgs \ R
           l == (g \o c) \o n
           k == (g \o n) \o c
<1>1. /\ D!Only(l, S) = (D!Only(g, S) \o D!Only(c, S)) \o D!Only(n, S)
      /\ Range(l) = Range(g) \cup Range(c) \cup Range(n)
      /\ Len(l) = Len(g) + Len(c) + Len(n)
  <2>1. OfThree(g, c, n, S)
    BY OnlyOfThree
  <2>2. QED
    BY <2>1 DEF OfThree
<1>2. /\ D!Only(k, S) = (D!Only(g, S) \o D!Only(n, S)) \o D!Only(c, S)
      /\ Range(k) = Range(g) \cup Range(n) \cup Range(c)
      /\ Len(k) = Len(g) + Len(n) + Len(c)
  <2>1. OfThree(g, n, c, S)
    BY OnlyOfThree
  <2>2. QED
    BY <2>1 DEF OfThree
<1>3. Range(c) \cap S = {}
  BY DEF Kept
<1>4. D!Only(c, S) = <<>>
  BY <1>3, OnlyOfAll
<1>5. D!Only(g, S) \in Seq(Msgs) /\ D!Only(n, S) \in Seq(Msgs)
  BY OnlyFacts
<1>6. D!Only(k, S) = D!Only(l, S)
  <2> DEFINE og == D!Only(g, S)
             on == D!Only(n, S)
             e == <<>>
  <2>1. og \o e = og /\ (og \o on) \o e = og \o on
    <3>1. og \o on \in Seq(Msgs)
      BY <1>5, ConcatProperties
    <3> HIDE DEF og, on
    <3>2. QED
      BY <1>5, <3>1, ConcatEmptySeq
  <2>2. D!Only(l, S) = (og \o e) \o on /\ D!Only(k, S) = (og \o on) \o e
    BY <1>1, <1>2, <1>4
  <2> HIDE DEF og, on, e
  <2>3. QED
    BY <2>1, <2>2
<1>7. Len(g) \in Nat /\ Len(c) \in Nat /\ Len(n) \in Nat
  BY LenProperties
<1>8. Distinct(s) /\ Range(l) = Range(s) /\ Len(l) = Len(s) /\ D!Only(l, S) = D!Only(s, S)
  BY DEF Kept
<1> HIDE DEF l, k, S
<1>9. Range(k) = Range(s) /\ Len(k) = Len(s) /\ D!Only(k, S) = D!Only(s, S)
  BY <1>1, <1>2, <1>6, <1>7, <1>8
<1>10. QED
  BY <1>8, <1>9 DEF Kept, k, S

(* More messages are refused, though not of this end's.                    *)
LEMMA KeptRefuse ==
  ASSUME NEW s \in Seq(Msgs), NEW g \in Seq(Msgs), NEW c \in Seq(Msgs), NEW n \in Seq(Msgs),
         NEW R, NEW b, Kept(s, g, c, n, R, b), NEW no
  PROVE  Kept(s, g, c, n, R \cup no, b)
<1> DEFINE S == Msgs \ R
           W == Msgs \ (R \cup no)
           l == (g \o c) \o n
<1>1. l \in Seq(Msgs)
  <2>1. OfThree(g, c, n, S)
    BY OnlyOfThree
  <2>2. QED
    BY <2>1 DEF OfThree
<1>2. S \cap W = W
  OBVIOUS
<1>3. /\ Distinct(s) /\ Range(l) = Range(s) /\ Len(l) = Len(s)
      /\ D!Only(l, S) = D!Only(s, S) /\ (b => Range(c) \subseteq R)
  BY DEF Kept
<1> HIDE DEF l, S, W
<1>4. D!Only(D!Only(l, S), W) = D!Only(l, S \cap W)
  <2>1. PicksAgain(l, S, W)
    BY <1>1, OnlyOfOnly
  <2>2. QED
    BY <2>1 DEF PicksAgain
<1>5. D!Only(D!Only(s, S), W) = D!Only(s, S \cap W)
  <2>1. PicksAgain(s, S, W)
    BY OnlyOfOnly
  <2>2. QED
    BY <2>1 DEF PicksAgain
<1>6. D!Only(l, W) = D!Only(s, W)
  BY <1>2, <1>3, <1>4, <1>5
<1>7. QED
  BY <1>3, <1>6 DEF Kept, l, W

(* What is handled goes before what stays, with the others as they were.   *)
LEMMA HandledBefore ==
  ASSUME NEW g \in Seq(Msgs), NEW c \in Seq(Msgs), NEW n \in Seq(Msgs),
         NEW y \in Seq(Msgs), NEW z \in Seq(Msgs), NEW W,
         Range(y) \cup Range(z) = Range(c), Len(y) + Len(z) = Len(c),
         D!Only(y, W) = D!Only(c, W), D!Only(z, W) = <<>>
  PROVE  /\ Range(((g \o y) \o z) \o n) = Range((g \o c) \o n)
         /\ Len(((g \o y) \o z) \o n) = Len((g \o c) \o n)
         /\ D!Only(((g \o y) \o z) \o n, W) = D!Only((g \o c) \o n, W)
<1> DEFINE h == g \o y
           k == (h \o z) \o n
           l == (g \o c) \o n
<1>1. /\ D!Only(l, W) = (D!Only(g, W) \o D!Only(c, W)) \o D!Only(n, W)
      /\ Range(l) = Range(g) \cup Range(c) \cup Range(n)
      /\ Len(l) = Len(g) + Len(c) + Len(n)
  <2>1. OfThree(g, c, n, W)
    BY OnlyOfThree
  <2>2. QED
    BY <2>1 DEF OfThree
<1>2. h \in Seq(Msgs) /\ Range(h) = Range(g) \cup Range(y) /\ Len(h) = Len(g) + Len(y)
  BY ConcatRange
<1>3. D!Only(h, W) = D!Only(g, W) \o D!Only(y, W)
  <2>1. Splits(g, y, W)
    BY OnlyOfConcat
  <2>2. QED
    BY <2>1 DEF Splits
<1>4. h \in Seq(Msgs)
  BY <1>2
<1> HIDE DEF h, l
<1>5. /\ D!Only(k, W) = (D!Only(h, W) \o D!Only(z, W)) \o D!Only(n, W)
      /\ Range(k) = Range(h) \cup Range(z) \cup Range(n)
      /\ Len(k) = Len(h) + Len(z) + Len(n)
  <2>1. OfThree(h, z, n, W)
    BY <1>4, OnlyOfThree
  <2>2. QED
    BY <2>1 DEF OfThree
<1> HIDE DEF k
<1>6. D!Only(h, W) \o <<>> = D!Only(h, W)
  <2>1. D!Only(h, W) \in Seq(Msgs)
    BY <1>4, OnlyFacts
  <2>2. QED
    BY <2>1, ConcatEmptySeq
<1>7. Range(k) = Range(l)
  BY <1>1, <1>2, <1>5
<1>8. Len(k) = Len(l)
  <2>1. /\ Len(g) \in Nat /\ Len(c) \in Nat /\ Len(n) \in Nat
        /\ Len(y) \in Nat /\ Len(z) \in Nat
    BY LenProperties
  <2>2. Len(k) = (Len(g) + Len(y)) + Len(z) + Len(n)
    BY <1>2, <1>5
  <2>3. Len(l) = Len(g) + (Len(y) + Len(z)) + Len(n)
    BY <1>1
  <2>4. QED
    BY <2>1, <2>2, <2>3
<1>9. D!Only(k, W) = D!Only(l, W)
  BY <1>1, <1>3, <1>5, <1>6
<1>10. QED
  BY <1>7, <1>8, <1>9 DEF k, l, h

(* The current buffer is gone through.                                     *)
LEMMA KeptHandle ==
  ASSUME NEW s \in Seq(Msgs), NEW g \in Seq(Msgs), NEW c \in Seq(Msgs), NEW n \in Seq(Msgs),
         NEW R, NEW b, Kept(s, g, c, n, R, b), NEW no
  PROVE  Kept(s, g \o D!Only(c, Msgs \ no), D!Only(c, no), n, R \cup no, TRUE)
<1> DEFINE W == Msgs \ (R \cup no)
           l == (g \o c) \o n
           yes == Msgs \ no
<1>1. Kept(s, g, c, n, R \cup no, b)
  BY KeptRefuse
<1>2. Distinct(s) /\ Range(l) = Range(s) /\ Len(l) = Len(s) /\ D!Only(l, W) = D!Only(s, W)
  BY <1>1 DEF Kept
<1>3. \E y \in Seq(Msgs) : y = D!Only(c, yes) /\ Range(y) = Range(c) \cap yes
  BY OnlyFacts
<1>4. PICK y \in Seq(Msgs) : y = D!Only(c, yes) /\ Range(y) = Range(c) \cap yes
  BY <1>3
<1>5. /\ D!Only(c, no) \in Seq(Msgs) /\ Range(D!Only(c, no)) = Range(c) \cap no
      /\ Len(D!Only(c, no)) + Len(D!Only(c, yes)) = Len(c)
  BY OnlyFacts
<1>6. PICK z \in Seq(Msgs) : /\ z = D!Only(c, no) /\ Range(z) = Range(c) \cap no
                             /\ Len(z) + Len(D!Only(c, yes)) = Len(c)
  BY <1>5
<1>7. D!Only(y, W) = D!Only(c, W)
  <2>1. D!Only(D!Only(c, yes), W) = D!Only(c, yes \cap W)
    <3>1. PicksAgain(c, yes, W)
      BY OnlyOfOnly
    <3>2. QED
      BY <3>1 DEF PicksAgain
  <2>2. yes \cap W = W
    OBVIOUS
  <2> HIDE DEF yes, W
  <2>3. QED
    BY <1>4, <2>1, <2>2
<1>8. D!Only(z, W) = <<>>
  <2>1. Range(z) \cap W = {}
    BY <1>6
  <2>2. QED
    BY <2>1, OnlyOfAll
<1>9. Range(y) \cup Range(z) = Range(c)
  <2>1. Range(c) \subseteq Msgs
    BY RangeIsCounted
  <2>2. QED
    BY <1>4, <1>6, <2>1
<1>10. Len(y) + Len(z) = Len(c)
  <2>1. Len(z) + Len(y) = Len(c)
    BY <1>4, <1>6
  <2>2. Len(y) \in Nat /\ Len(z) \in Nat
    BY LenProperties
  <2>3. QED
    BY <2>1, <2>2
<1> DEFINE k == ((g \o y) \o z) \o n
<1>11. Range(k) = Range(l) /\ Len(k) = Len(l) /\ D!Only(k, W) = D!Only(l, W)
  <2> HIDE DEF W
  <2>1. QED
    BY <1>7, <1>8, <1>9, <1>10, HandledBefore
<1>12. Range(z) \subseteq R \cup no
  BY <1>6
<1> HIDE DEF k, l
<1>13. Range(k) = Range(s) /\ Len(k) = Len(s) /\ D!Only(k, W) = D!Only(s, W)
  BY <1>2, <1>11
<1>14. Kept(s, g \o y, z, n, R \cup no, TRUE)
  BY <1>2, <1>12, <1>13 DEF Kept, k
<1>15. QED
  BY <1>4, <1>6, <1>14
-----------------------------------------------------------------------------
(* The connection inside a process: the inductive invariant.               *)

LEMMA ToSetIsRange == \A s : D!ToSet(s) = Range(s)
  BY DEF D!ToSet, Range

LEMMA SameCardinality == \A S : D!Cardinality(S) = Cardinality(S)
  BY DEF D!Cardinality, Cardinality

LEMMA TwoEnds ==
    /\ D!Ends = {"client", "server"}
    /\ D!Other("client") = "server" /\ D!Other("server") = "client"
    /\ \A e \in D!Ends : D!Other(e) \in D!Ends /\ D!Other(e) # e /\ D!Other(D!Other(e)) = e
  BY DEF D!Ends, D!Other

(* The invariant in terms of an end's sequences.                           *)
KeptAt(e) ==
    Kept(sent[D!Other(e)], got[e], buffers[e].current, buffers[e].next, refused,
         fetching[e] # "swapped")

LEMMA KeptAtEnds ==
  ASSUME NEW e PROVE D!KeptFor(e) <=> KeptAt(e)
<1>1. \A s : D!ToSet(s) = Range(s)
  BY ToSetIsRange
<1>2. D!Line(e) = (got[e] \o buffers[e].current) \o buffers[e].next
  BY DEF D!Line
<1>3. QED
  BY <1>1, <1>2, SameCardinality DEF D!KeptFor, KeptAt, Kept, Distinct

(* What an end has is of these types.                                      *)
Types ==
    /\ buffers \in [D!Ends -> [current : Seq(Msgs), next : Seq(Msgs)]]
    /\ sent \in [D!Ends -> Seq(Msgs)] /\ got \in [D!Ends -> Seq(Msgs)]
    /\ fetching \in [D!Ends -> {"no", "swapped", "handled"}]
    /\ connected \in [D!Ends -> BOOLEAN] /\ there \in [D!Ends -> BOOLEAN]
    /\ usable \in BOOLEAN /\ late \in BOOLEAN

AllKept == \A e \in D!Ends : KeptAt(e)

LEMMA IInvParts == D!IInv <=> Types /\ AllKept /\ D!GoneIsFound
  BY KeptAtEnds DEF D!IInv, Types, AllKept

(* The same after a step.                                                  *)
LEMMA IInvNext ==
  ASSUME Types', \A e \in D!Ends : KeptAt(e)', D!GoneIsFound'
  PROVE  D!IInv'
<1>1. AllKept'
  BY DEF AllKept, D!Ends
<1>2. QED
  BY <1>1, IInvParts, PTL

LEMMA TypesOfEnd ==
  ASSUME Types, NEW e \in D!Ends
  PROVE  /\ buffers[e].current \in Seq(Msgs) /\ buffers[e].next \in Seq(Msgs)
         /\ sent[e] \in Seq(Msgs) /\ got[e] \in Seq(Msgs) /\ D!Other(e) \in D!Ends
         /\ sent[D!Other(e)] \in Seq(Msgs)
<1>1. D!Other(e) \in D!Ends
  BY TwoEnds
<1>2. QED
  BY <1>1 DEF Types

(* It holds in the beginning.                                              *)
LEMMA DirectInit == D!Init => D!IInv
<1> SUFFICES ASSUME D!Init PROVE D!IInv
  OBVIOUS
<1> DEFINE none == <<>>
<1>1. none \in Seq(Msgs) /\ Len(none) = 0 /\ Range(none) = {} /\ none \o none = none
  BY EmptySeq, ConcatEmptySeq DEF Range
<1>2. /\ buffers = [e \in D!Ends |-> [current |-> none, next |-> none]]
      /\ sent = [e \in D!Ends |-> none] /\ got = [e \in D!Ends |-> none]
      /\ connected = [e \in D!Ends |-> TRUE] /\ there = [e \in D!Ends |-> e = "client"]
      /\ fetching = [e \in D!Ends |-> "no"] /\ usable = TRUE /\ late = FALSE
  BY DEF D!Init, D!Empty
<1>3. Cardinality({}) = 0
  BY FS_EmptySet
<1> HIDE DEF none
<1>4. Types
  BY <1>1, <1>2 DEF Types
<1>5. ASSUME NEW e \in D!Ends PROVE KeptAt(e)
  <2>1. D!Other(e) \in D!Ends
    BY TwoEnds
  <2>2. /\ sent[D!Other(e)] = none /\ got[e] = none
        /\ buffers[e].current = none /\ buffers[e].next = none
    BY <1>2, <2>1
  <2>3. Kept(none, none, none, none, refused, fetching[e] # "swapped")
    BY <1>1, <1>3 DEF Kept, Distinct
  <2>4. QED
    BY <2>2, <2>3 DEF KeptAt
<1>6. D!GoneIsFound
  BY <1>2, TwoEnds DEF D!GoneIsFound
<1>7. QED
  BY <1>4, <1>5, <1>6, IInvParts DEF AllKept

(* Steps that leave the messages where they are.                           *)
LEMMA SameMessages ==
  ASSUME \A e \in D!Ends : KeptAt(e), UNCHANGED <<buffers, sent, got, refused>>,
         \A e \in D!Ends : fetching'[e] # "swapped" => fetching[e] # "swapped"
  PROVE  \A e \in D!Ends : KeptAt(e)'
<1> SUFFICES ASSUME NEW e \in D!Ends PROVE KeptAt(e)'
  OBVIOUS
<1>1. KeptAt(e)
  OBVIOUS
<1>2. QED
  BY <1>1 DEF KeptAt, Kept

LEMMA DirectAccept == D!IInv /\ D!Accept => D!IInv'
<1> SUFFICES ASSUME D!IInv, D!Accept PROVE D!IInv'
  OBVIOUS
<1>1. Types /\ (\A e \in D!Ends : KeptAt(e)) /\ D!GoneIsFound
  BY IInvParts DEF AllKept
<1>2. /\ there' = [there EXCEPT !["server"] = TRUE]
      /\ UNCHANGED <<buffers, connected, usable, fetching, sent, got, refused, late>>
  BY DEF D!Accept
<1>3. Types'
  BY <1>1, <1>2 DEF Types, D!Ends
<1>4. \A e \in D!Ends : KeptAt(e)'
  BY <1>1, <1>2, SameMessages
<1>5. there'["client"] = there["client"]
  BY <1>1, <1>2, TwoEnds DEF Types
<1>6. D!GoneIsFound'
  BY <1>1, <1>2, <1>5 DEF D!GoneIsFound, D!ToSet
<1>7. QED
  BY <1>3, <1>4, <1>6, IInvNext

(* A message is sent.                                                      *)
LEMMA DirectSend ==
  ASSUME D!IInv, NEW e \in D!Ends, NEW m \in Msgs, D!Send(e, m)
  PROVE  D!IInv'
<1> DEFINE f == D!Other(e)
<1>1. Types /\ (\A a \in D!Ends : KeptAt(a)) /\ D!GoneIsFound
  BY IInvParts DEF AllKept
<1>2. f \in D!Ends /\ f # e /\ D!Other(f) = e /\ \A a \in D!Ends : a = f \/ (a = e /\ D!Other(a) = f)
  BY TwoEnds
<1>3. /\ there[e] /\ (e = "server" => usable /\ connected["client"])
      /\ \A a \in D!Ends : ~D!Contains(sent[a], m)
      /\ sent' = [sent EXCEPT ![e] = Append(@, m)]
      /\ buffers' = [buffers EXCEPT ![f] = D!Push(@, m)]
      /\ UNCHANGED <<accepted, connected, there, usable, fetching, got, refused, late>>
  BY DEF D!Send
<1> HIDE DEF f
<1>4. /\ sent[e] \in Seq(Msgs) /\ Append(sent[e], m) \in Seq(Msgs)
      /\ buffers[f].current \in Seq(Msgs) /\ got[f] \in Seq(Msgs)
      /\ buffers[f].next \in Seq(Msgs) /\ Append(buffers[f].next, m) \in Seq(Msgs)
  <2>1. sent[e] \in Seq(Msgs)
    BY <1>1, TypesOfEnd
  <2>2. buffers[f].current \in Seq(Msgs) /\ got[f] \in Seq(Msgs) /\ buffers[f].next \in Seq(Msgs)
    BY <1>1, <1>2, TypesOfEnd
  <2>3. QED
    BY <2>1, <2>2, AppendProperties
<1>5. /\ buffers' \in [D!Ends -> [current : Seq(Msgs), next : Seq(Msgs)]]
      /\ buffers'[f].current = buffers[f].current
      /\ buffers'[f].next = Append(buffers[f].next, m)
      /\ buffers'[e] = buffers[e]
  <2>1. D!Push(buffers[f], m) =
           [current |-> buffers[f].current, next |-> Append(buffers[f].next, m)]
    <3>1. buffers[f] \in [current : Seq(Msgs), next : Seq(Msgs)]
      BY <1>1, <1>2 DEF Types
    <3>2. \A b \in [current : Seq(Msgs), next : Seq(Msgs)] : \A q :
             [b EXCEPT !.next = q] = [current |-> b.current, next |-> q]
      OBVIOUS
    <3>3. QED
      BY <3>1, <3>2 DEF D!Push
  <2>2. buffers' = [buffers EXCEPT ![f] = D!Push(buffers[f], m)]
    BY <1>3
  <2>3. QED
    BY <1>1, <1>2, <1>4, <2>1, <2>2 DEF Types
<1>6. /\ sent' \in [D!Ends -> Seq(Msgs)]
      /\ sent'[e] = Append(sent[e], m) /\ sent'[f] = sent[f]
  BY <1>1, <1>2, <1>3, <1>4 DEF Types
<1>7. Types'
  BY <1>1, <1>3, <1>5, <1>6 DEF Types, D!Ends
<1>8. m \notin Range(sent[e])
  <2>1. ~D!Contains(sent[e], m)
    BY <1>3
  <2>2. DOMAIN sent[e] = 1 .. Len(sent[e])
    BY <1>4, LenProperties
  <2>3. QED
    BY <2>1, <2>2 DEF D!Contains, Range
<1>9. KeptAt(f)'
  <2>1. Kept(sent[e], got[f], buffers[f].current, buffers[f].next, refused, fetching[f] # "swapped")
    BY <1>1, <1>2 DEF KeptAt
  <2>2. Kept(Append(sent[e], m), got[f], buffers[f].current, Append(buffers[f].next, m), refused,
             fetching[f] # "swapped")
    BY <1>4, <1>8, <2>1, KeptSend
  <2>3. D!Other(f) = e
    BY <1>2
  <2>4. QED
    BY <1>3, <1>5, <1>6, <2>2, <2>3 DEF KeptAt
<1>10. KeptAt(e)'
  <2>1. KeptAt(e) /\ D!Other(e) = f
    BY <1>1 DEF f
  <2>2. QED
    BY <1>3, <1>5, <1>6, <2>1 DEF KeptAt
<1>11. \A a \in D!Ends : KeptAt(a)'
  BY <1>2, <1>9, <1>10
<1>12. D!GoneIsFound'
  <2>1. CASE e = "client"
    BY <1>1, <1>3, <2>1 DEF D!GoneIsFound
  <2>2. CASE e = "server"
    BY <1>1, <1>3, <1>5, <2>2 DEF D!GoneIsFound, D!ToSet
  <2>3. QED
    BY <2>1, <2>2, TwoEnds
<1>13. QED
  BY <1>7, <1>11, <1>12, IInvNext

(* An end swaps its buffers.                                               *)
LEMMA DirectBeginFetch ==
  ASSUME D!IInv, NEW e \in D!Ends, D!BeginFetch(e)
  PROVE  D!IInv'
<1>1. Types /\ (\A a \in D!Ends : KeptAt(a)) /\ D!GoneIsFound
  BY IInvParts DEF AllKept
<1>2. /\ fetching[e] = "no" /\ (e = "server" => usable)
      /\ buffers' = [buffers EXCEPT ![e] = [current |-> @.next, next |-> @.current]]
      /\ fetching' = [fetching EXCEPT ![e] = "swapped"]
      /\ UNCHANGED <<accepted, connected, there, usable, sent, got, refused, late>>
  BY DEF D!BeginFetch, D!Swap
<1>3. /\ buffers[e].current \in Seq(Msgs) /\ buffers[e].next \in Seq(Msgs)
      /\ got[e] \in Seq(Msgs) /\ sent[D!Other(e)] \in Seq(Msgs)
  BY <1>1, TypesOfEnd
<1>4. /\ buffers' \in [D!Ends -> [current : Seq(Msgs), next : Seq(Msgs)]]
      /\ buffers'[e].current = buffers[e].next /\ buffers'[e].next = buffers[e].current
      /\ \A a \in D!Ends : a # e => buffers'[a] = buffers[a]
  BY <1>1, <1>2, <1>3 DEF Types
<1>5. /\ fetching' \in [D!Ends -> {"no", "swapped", "handled"}] /\ fetching'[e] = "swapped"
      /\ \A a \in D!Ends : a # e => fetching'[a] = fetching[a]
  BY <1>1, <1>2 DEF Types
<1>6. Types'
  BY <1>1, <1>2, <1>4, <1>5 DEF Types, D!Ends
<1>7. KeptAt(e)'
  <2>1. Kept(sent[D!Other(e)], got[e], buffers[e].current, buffers[e].next, refused, TRUE)
    BY <1>1, <1>2 DEF KeptAt, Kept
  <2>2. Kept(sent[D!Other(e)], got[e], buffers[e].next, buffers[e].current, refused, FALSE)
    BY <1>3, <2>1, KeptSwap
  <2>3. QED
    BY <1>2, <1>4, <1>5, <2>2 DEF KeptAt, Kept
<1>8. ASSUME NEW a \in D!Ends, a # e PROVE KeptAt(a)'
  BY <1>1, <1>2, <1>4, <1>5, <1>8 DEF KeptAt
<1>9. \A a \in D!Ends : KeptAt(a)'
  BY <1>7, <1>8
<1>10. D!GoneIsFound'
  <2>1. CASE e = "client"
    <3>1. buffers'["server"] = buffers["server"] /\ fetching'["server"] = fetching["server"]
      BY <1>4, <1>5, <2>1, TwoEnds
    <3>2. QED
      BY <1>1, <1>2, <3>1 DEF D!GoneIsFound, D!ToSet
  <2>2. CASE e = "server"
    <3>1. Range(buffers["server"].current) \subseteq refused
      BY <1>1, <1>2, <2>2 DEF KeptAt, Kept
    <3>2. D!ToSet(buffers'["server"].next) \subseteq refused
      BY <1>4, <2>2, <3>1, ToSetIsRange
    <3>3. QED
      BY <1>1, <1>2, <2>2, <3>2 DEF D!GoneIsFound
  <2>3. QED
    BY <2>1, <2>2, TwoEnds
<1>11. QED
  BY <1>6, <1>9, <1>10, IInvNext

(* An end goes through what it has.                                        *)
LEMMA DirectHandleCurrent ==
  ASSUME D!IInv, NEW e \in D!Ends, D!HandleCurrent(e)
  PROVE  D!IInv'
<1>1. Types /\ (\A a \in D!Ends : KeptAt(a)) /\ D!GoneIsFound
  BY IInvParts DEF AllKept
<1> DEFINE c == buffers[e].current
           to == IF e = "server" THEN "handled" ELSE "no"
<1>2. PICK no \in SUBSET D!ToSet(c) :
        /\ refused' = refused \cup no
        /\ got' = [got EXCEPT ![e] = @ \o D!Only(c, Msgs \ no)]
        /\ buffers' = [buffers EXCEPT ![e].current = D!Only(@, no)]
  BY DEF D!HandleCurrent
<1>3. /\ fetching[e] = "swapped" /\ fetching' = [fetching EXCEPT ![e] = to]
      /\ UNCHANGED <<accepted, connected, there, usable, sent, late>>
  BY DEF D!HandleCurrent
<1>4. /\ c \in Seq(Msgs) /\ buffers[e].next \in Seq(Msgs)
      /\ got[e] \in Seq(Msgs) /\ sent[D!Other(e)] \in Seq(Msgs)
  BY <1>1, TypesOfEnd
<1>5. \A S : D!Only(c, S) \in Seq(Msgs)
  <2> HIDE DEF c
  <2>1. QED
    BY <1>4, OnlyFacts
<1>6. /\ buffers' \in [D!Ends -> [current : Seq(Msgs), next : Seq(Msgs)]]
      /\ buffers'[e].current = D!Only(c, no) /\ buffers'[e].next = buffers[e].next
      /\ \A a \in D!Ends : a # e => buffers'[a] = buffers[a]
  <2>1. D!Only(c, no) \in Seq(Msgs)
    BY <1>5
  <2>2. QED
    BY <1>1, <1>2, <2>1 DEF Types
<1>7. /\ got' \in [D!Ends -> Seq(Msgs)] /\ got'[e] = got[e] \o D!Only(c, Msgs \ no)
      /\ \A a \in D!Ends : a # e => got'[a] = got[a]
  <2>1. D!Only(c, Msgs \ no) \in Seq(Msgs)
    BY <1>5
  <2>2. got[e] \o D!Only(c, Msgs \ no) \in Seq(Msgs)
    BY <1>4, <2>1, ConcatProperties
  <2>3. QED
    BY <1>1, <1>2, <2>2 DEF Types
<1>8. /\ fetching' \in [D!Ends -> {"no", "swapped", "handled"}] /\ fetching'[e] = to
      /\ \A a \in D!Ends : a # e => fetching'[a] = fetching[a]
  BY <1>1, <1>3 DEF Types
<1>9. Types'
  BY <1>1, <1>3, <1>6, <1>7, <1>8 DEF Types, D!Ends
<1>10. KeptAt(e)'
  <2>1. Kept(sent[D!Other(e)], got[e], c, buffers[e].next, refused, fetching[e] # "swapped")
    BY <1>1 DEF KeptAt
  <2> HIDE DEF c
  <2>2. Kept(sent[D!Other(e)], got[e] \o D!Only(c, Msgs \ no), D!Only(c, no), buffers[e].next,
             refused \cup no, TRUE)
    BY <1>4, <2>1, KeptHandle
  <2>3. Kept(sent'[D!Other(e)], got'[e], buffers'[e].current, buffers'[e].next, refused', TRUE)
    BY <1>2, <1>3, <1>6, <1>7, <2>2
  <2>4. QED
    BY <2>3 DEF KeptAt, Kept
<1>11. ASSUME NEW a \in D!Ends, a # e PROVE KeptAt(a)'
  <2>1. /\ got[a] \in Seq(Msgs) /\ buffers[a].current \in Seq(Msgs)
        /\ buffers[a].next \in Seq(Msgs) /\ sent[D!Other(a)] \in Seq(Msgs)
    BY <1>1, TypesOfEnd
  <2>2. Kept(sent[D!Other(a)], got[a], buffers[a].current, buffers[a].next, refused,
             fetching[a] # "swapped")
    BY <1>1 DEF KeptAt
  <2>3. Kept(sent[D!Other(a)], got[a], buffers[a].current, buffers[a].next, refused \cup no,
             fetching[a] # "swapped")
    BY <2>1, <2>2, KeptRefuse
  <2>4. QED
    BY <1>2, <1>3, <1>6, <1>7, <1>8, <1>11, <2>3 DEF KeptAt
<1>12. D!GoneIsFound'
  <2>1. /\ buffers'["server"].next = buffers["server"].next
        /\ refused \subseteq refused'
        /\ fetching'["server"] # "no" => fetching["server"] # "no"
        /\ fetching["server"] = "no" => fetching'["server"] = "no"
    BY <1>2, <1>3, <1>6, <1>8, TwoEnds
  <2>2. QED
    BY <1>1, <1>3, <2>1 DEF D!GoneIsFound
<1>13. QED
  BY <1>9, <1>10, <1>11, <1>12, IInvNext

(* The server learns what has become of the client.                        *)
LEMMA DirectEndFetch == D!IInv /\ D!EndFetch => D!IInv'
<1> SUFFICES ASSUME D!IInv, D!EndFetch PROVE D!IInv'
  OBVIOUS
<1>1. Types /\ (\A e \in D!Ends : KeptAt(e)) /\ D!GoneIsFound
  BY IInvParts DEF AllKept
<1>2. /\ fetching["server"] = "handled" /\ usable' = connected["client"]
      /\ fetching' = [fetching EXCEPT !["server"] = "no"]
      /\ UNCHANGED <<buffers, accepted, connected, there, sent, got, refused, late>>
  BY DEF D!EndFetch
<1>3. /\ fetching' \in [D!Ends -> {"no", "swapped", "handled"}] /\ fetching'["server"] = "no"
      /\ \A e \in D!Ends : e # "server" => fetching'[e] = fetching[e]
  BY <1>1, <1>2, TwoEnds DEF Types
<1>4. usable' \in BOOLEAN
  BY <1>1, <1>2, TwoEnds DEF Types
<1>5. Types'
  BY <1>1, <1>2, <1>3, <1>4 DEF Types, D!Ends
<1>6. \A e \in D!Ends : KeptAt(e)'
  BY <1>1, <1>2, <1>3, SameMessages
<1>7. D!GoneIsFound'
  <2>1. /\ connected["client"] = there["client"]
        /\ ~connected["client"] /\ ~late => D!ToSet(buffers["server"].next) \subseteq refused
    BY <1>1, <1>2 DEF D!GoneIsFound
  <2>2. QED
    BY <1>2, <1>3, <1>4, <2>1 DEF D!GoneIsFound
<1>8. QED
  BY <1>5, <1>6, <1>7, IInvNext

(* An end goes.                                                            *)
LEMMA DirectLeave ==
  ASSUME D!IInv, NEW e \in D!Ends, D!Leave(e)
  PROVE  D!IInv'
<1>1. Types /\ (\A a \in D!Ends : KeptAt(a)) /\ D!GoneIsFound
  BY IInvParts DEF AllKept
<1>2. /\ there[e] /\ fetching[e] = "no"
      /\ there' = [there EXCEPT ![e] = FALSE] /\ connected' = [connected EXCEPT ![e] = FALSE]
      /\ late' = IF e = "client" THEN fetching["server"] # "no" ELSE late
      /\ UNCHANGED <<buffers, accepted, usable, fetching, sent, got, refused>>
  BY DEF D!Leave
<1>3. /\ there' \in [D!Ends -> BOOLEAN] /\ connected' \in [D!Ends -> BOOLEAN]
      /\ there'[e] = FALSE /\ connected'[e] = FALSE
      /\ \A a \in D!Ends : a # e => there'[a] = there[a] /\ connected'[a] = connected[a]
  BY <1>1, <1>2 DEF Types
<1>4. late' \in BOOLEAN
  BY <1>1, <1>2 DEF Types
<1>5. Types'
  BY <1>1, <1>2, <1>3, <1>4 DEF Types, D!Ends
<1>6. \A a \in D!Ends : KeptAt(a)'
  BY <1>1, <1>2, SameMessages
<1>7. D!GoneIsFound'
  <2>1. CASE e = "client"
    <3>1. connected["client"] /\ usable
      BY <1>1, <1>2, <2>1 DEF D!GoneIsFound, Types
    <3>2. connected'["client"] = there'["client"] /\ ~connected'["client"]
      BY <1>3, <2>1
    <3>3. ~late' => fetching'["server"] = "no"
      BY <1>2, <2>1
    <3>4. QED
      BY <1>2, <3>1, <3>2, <3>3 DEF D!GoneIsFound
  <2>2. CASE e = "server"
    <3>1. /\ connected'["client"] = connected["client"] /\ there'["client"] = there["client"]
          /\ late' = late
      BY <1>2, <1>3, <2>2, TwoEnds
    <3>2. UNCHANGED <<buffers, usable, fetching, refused>>
      BY <1>2
    <3>3. D!GoneIsFound
      BY <1>1
    <3>4. QED
      BY <3>1, <3>2, <3>3 DEF D!GoneIsFound
  <2>3. QED
    BY <2>1, <2>2, TwoEnds
<1>8. QED
  BY <1>5, <1>6, <1>7, IInvNext

(* The connection inside a process (direct.cpp) keeps its invariant.       *)
THEOREM DirectInvariant == D!Spec => []D!IInv
<1>1. ASSUME D!IInv, D!Next PROVE D!IInv'
  <2>1. CASE D!Accept
    BY <1>1, <2>1, DirectAccept
  <2>2. CASE \E e \in D!Ends, m \in Msgs : D!Send(e, m)
    BY <1>1, <2>2, DirectSend
  <2>3. CASE \E e \in D!Ends : D!BeginFetch(e) \/ D!HandleCurrent(e) \/ D!Leave(e)
    BY <1>1, <2>3, DirectBeginFetch, DirectHandleCurrent, DirectLeave
  <2>4. CASE D!EndFetch
    BY <1>1, <2>4, DirectEndFetch
  <2>5. QED
    BY <1>1, <2>1, <2>2, <2>3, <2>4 DEF D!Next
<1>2. ASSUME D!IInv, UNCHANGED D!vars PROVE D!IInv'
  <2>1. UNCHANGED <<buffers, accepted, connected, there, usable, fetching, sent, got, refused, late>>
    BY <1>2 DEF D!vars
  <2>2. Types /\ (\A e \in D!Ends : KeptAt(e)) /\ D!GoneIsFound
    BY <1>2, IInvParts DEF AllKept
  <2>3. Types'
    BY <2>1, <2>2 DEF Types, D!Ends
  <2>4. \A e \in D!Ends : KeptAt(e)'
    BY <2>1, <2>2, SameMessages
  <2>5. D!GoneIsFound'
    BY <2>1, <2>2 DEF D!GoneIsFound, D!ToSet
  <2>6. QED
    BY <2>3, <2>4, <2>5, IInvNext
<1>3. D!IInv /\ [D!Next]_(D!vars) => D!IInv'
  BY <1>1, <1>2
<1>4. QED
  BY <1>3, DirectInit, PTL DEF D!Spec

(* Each message that was sent is handled or waits, once, and those that    *)
(* were not refused are handled in the order they were sent.               *)
LEMMA DirectKeepsAll == D!IInv => D!BuffersKeepAll
<1> SUFFICES ASSUME D!IInv, NEW e \in D!Ends
             PROVE  /\ D!ToSet(sent[D!Other(e)]) = D!ToSet(got[e]) \cup D!Waiting(e)
                    /\ Len(sent[D!Other(e)]) = Len(got[e]) + Len(buffers[e].current)
                                                + Len(buffers[e].next)
                    /\ D!Only(got[e], Msgs \ refused)
                         = D!Only(sent[D!Other(e)], D!ToSet(got[e]) \ refused)
  BY DEF D!BuffersKeepAll
<1> DEFINE s == sent[D!Other(e)]
           g == got[e]
           c == buffers[e].current
           n == buffers[e].next
           gc == g \o c
           l == gc \o n
           S == Msgs \ refused
           A == Range(g) \ refused
<1>1. g \in Seq(Msgs) /\ c \in Seq(Msgs) /\ n \in Seq(Msgs) /\ s \in Seq(Msgs)
  BY IInvParts, TypesOfEnd
<1>2. Distinct(s) /\ Range(l) = Range(s) /\ Len(l) = Len(s) /\ D!Only(l, S) = D!Only(s, S)
  BY IInvParts DEF AllKept, KeptAt, Kept
<1>3. D!ToSet(s) = Range(s) /\ D!ToSet(g) = Range(g) /\ D!Waiting(e) = Range(c) \cup Range(n)
  BY ToSetIsRange DEF D!Waiting
<1> HIDE DEF s, g, c, n
<1>4. gc \in Seq(Msgs) /\ Range(gc) = Range(g) \cup Range(c) /\ Len(gc) = Len(g) + Len(c)
  BY <1>1, ConcatRange
<1>5. /\ l \in Seq(Msgs) /\ Range(l) = Range(g) \cup Range(c) \cup Range(n)
      /\ Len(l) = Len(g) + Len(c) + Len(n)
  <2>1. OfThree(g, c, n, S)
    BY <1>1, OnlyOfThree
  <2>2. QED
    BY <2>1 DEF OfThree
<1>6. Range(g) \cap Range(c \o n) = {} /\ Range(c \o n) = Range(c) \cup Range(n)
  <2>1. c \o n \in Seq(Msgs) /\ Range(c \o n) = Range(c) \cup Range(n)
    BY <1>1, ConcatRange
  <2>2. gc \o n = g \o (c \o n)
    BY <1>1, ConcatAssociative
  <2>3. Distinct(l)
    <3> HIDE DEF l
    <3>1. QED
      BY <1>2 DEF Distinct
  <2>4. Distinct(g \o (c \o n))
    BY <2>2, <2>3
  <2> DEFINE cn == c \o n
  <2>5. cn \in Seq(Msgs) /\ Distinct(g \o cn)
    BY <2>1, <2>4
  <2> HIDE DEF cn
  <2>6. Range(g) \cap Range(cn) = {}
    BY <1>1, <2>5, DistinctParts
  <2>7. QED
    BY <2>1, <2>6 DEF cn
<1>7. Range(g) \subseteq Msgs
  BY <1>1, RangeIsCounted
<1>8. D!Only(l, A) = D!Only(s, A)
  <2>1. PicksAgain(l, S, A) /\ PicksAgain(s, S, A)
    <3> HIDE DEF l, S, A
    <3>1. PicksAgain(l, S, A)
      BY <1>5, OnlyOfOnly
    <3>2. PicksAgain(s, S, A)
      BY <1>1, OnlyOfOnly
    <3>3. QED
      BY <3>1, <3>2
  <2>2. S \cap A = A
    BY <1>7
  <2> HIDE DEF l, S, A
  <2>3. QED
    BY <1>2, <2>1, <2>2 DEF PicksAgain
<1>9. D!Only(l, A) = (D!Only(g, A) \o D!Only(c, A)) \o D!Only(n, A)
  <2> HIDE DEF A
  <2>1. OfThree(g, c, n, A)
    BY <1>1, OnlyOfThree
  <2>2. QED
    BY <2>1 DEF OfThree
<1>10. D!Only(c, A) = <<>> /\ D!Only(n, A) = <<>>
  <2>1. Range(c) \cap A = {} /\ Range(n) \cap A = {}
    BY <1>6
  <2> HIDE DEF A
  <2>2. QED
    BY <1>1, <2>1, OnlyOfAll
<1>11. D!Only(l, A) = D!Only(g, A)
  <2> DEFINE o == D!Only(g, A)
  <2>1. o \in Seq(Msgs)
    BY <1>1, OnlyFacts
  <2> HIDE DEF o
  <2>2. o \o <<>> = o
    BY <2>1, ConcatEmptySeq
  <2> HIDE DEF l, A
  <2>3. QED
    BY <1>9, <1>10, <2>2 DEF o
<1>12. D!Only(g, A) = D!Only(g, S)
  <2>1. Range(g) \cap A = Range(g) \cap S
    BY <1>7
  <2> HIDE DEF A, S
  <2>2. QED
    BY <1>1, <2>1, OnlyOfAll
<1> HIDE DEF l
<1>13. /\ Range(s) = Range(g) \cup Range(c) \cup Range(n)
       /\ Len(s) = Len(g) + Len(c) + Len(n)
       /\ D!Only(g, S) = D!Only(s, A)
  BY <1>2, <1>5, <1>8, <1>11, <1>12
<1>14. QED
  BY <1>3, <1>13 DEF s, g, c, n

(* A client that is found to be gone was heard to the end.                 *)
LEMMA DirectHearsLastWords == D!IInv => D!LastWordsAreHeard
<1> SUFFICES ASSUME D!IInv, ~usable, ~late, refused = {} PROVE got["server"] = sent["client"]
  BY DEF D!LastWordsAreHeard
<1> DEFINE s == sent["client"]
           g == got["server"]
           c == buffers["server"].current
           n == buffers["server"].next
           l == (g \o c) \o n
<1>1. Types /\ KeptAt("server") /\ D!GoneIsFound
  BY IInvParts, TwoEnds DEF AllKept
<1>2. g \in Seq(Msgs) /\ c \in Seq(Msgs) /\ n \in Seq(Msgs) /\ s \in Seq(Msgs)
  BY <1>1, TwoEnds, TypesOfEnd
<1>3. fetching["server"] = "no" /\ Range(n) = {}
  BY <1>1, ToSetIsRange DEF D!GoneIsFound
<1>4. /\ Range(l) = Range(s) /\ D!Only(l, Msgs \ refused) = D!Only(s, Msgs \ refused)
      /\ Range(c) = {}
  BY <1>1, <1>3, TwoEnds DEF KeptAt, Kept
<1>5. Msgs \ refused = Msgs
  OBVIOUS
<1> HIDE DEF s, g, c, n
<1>6. c = <<>> /\ n = <<>>
  <2>1. \A q \in Seq(Msgs) : Range(q) = {} => q = <<>>
    <3>1. SUFFICES ASSUME NEW q \in Seq(Msgs), Range(q) = {} PROVE q = <<>>
      OBVIOUS
    <3>2. Range(q) \cap {} = {} /\ Range(q) \subseteq {}
      BY <3>1
    <3>3. D!Only(q, {}) = q /\ D!Only(q, {}) = <<>>
      BY <3>2, OnlyOfAll
    <3>4. QED
      BY <3>3
  <2>2. QED
    BY <1>2, <1>3, <1>4, <2>1
<1>7. l = g
  <2>1. g \o <<>> = g
    BY <1>2, ConcatEmptySeq
  <2>2. QED
    BY <1>6, <2>1
<1>8. D!Only(g, Msgs) = D!Only(s, Msgs)
  BY <1>4, <1>5, <1>7
<1>9. D!Only(g, Msgs) = g /\ D!Only(s, Msgs) = s
  <2>1. Range(g) \subseteq Msgs /\ Range(s) \subseteq Msgs
    BY <1>2, RangeIsCounted
  <2>2. QED
    BY <1>2, <2>1, OnlyOfAll
<1>10. QED
  BY <1>8, <1>9 DEF g, s

(* The double buffers of direct.cpp lose nothing and hand over nothing     *)
(* twice, in order but for what was refused; and the server's last fetch   *)
(* from a client that has gone finds all the client sent: for any set of   *)
(* messages and any bounds.                                                *)
THEOREM DirectKeepsAllAlways == D!Spec => []D!BuffersKeepAll
  BY DirectInvariant, DirectKeepsAll, PTL

THEOREM LastWordsAreHeardAlways == D!Spec => []D!LastWordsAreHeard
  BY DirectInvariant, DirectHearsLastWords, PTL

-----------------------------------------------------------------------------
(* The order of sequences, one of which goes into the other.               *)

(* x stands before y in s, and where m stands in s.                        *)
Stands(s, x, y) == \E i, j \in DOMAIN s : i < j /\ s[i] = x /\ s[j] = y
Place(s, m) == CHOOSE i \in DOMAIN s : s[i] = m
NoneTwice(s) == \A i, j \in DOMAIN s : s[i] = s[j] => i = j

LEMMA StandsInRange ==
  ASSUME NEW s, NEW x, NEW y, Stands(s, x, y)
  PROVE  x \in Range(s) /\ y \in Range(s)
  BY DEF Stands, Range

LEMMA StandsAppend ==
  ASSUME NEW T, NEW s \in Seq(T), NEW m \in T, NEW x, NEW y, Stands(Append(s, m), x, y)
  PROVE  Stands(s, x, y) \/ (x \in Range(s) /\ y = m)
<1> DEFINE r == Append(s, m)
<1>1. /\ r \in Seq(T) /\ Len(s) \in Nat /\ Len(r) = Len(s) + 1 /\ r[Len(s) + 1] = m
      /\ \A i \in 1 .. Len(s) : r[i] = s[i]
  BY AppendProperties, LenProperties
<1>2. DOMAIN r = 1 .. Len(s) + 1 /\ DOMAIN s = 1 .. Len(s)
  BY <1>1, LenProperties
<1> HIDE DEF r
<1>3. PICK i, j \in 1 .. Len(s) + 1 : i < j /\ r[i] = x /\ r[j] = y
  BY <1>2 DEF Stands, r
<1>4. i \in 1 .. Len(s) /\ s[i] = x
  BY <1>1, <1>3
<1>5. CASE j = Len(s) + 1
  BY <1>1, <1>2, <1>3, <1>4, <1>5 DEF Range
<1>6. CASE j \in 1 .. Len(s)
  BY <1>1, <1>2, <1>3, <1>4, <1>6 DEF Stands
<1>7. QED
  BY <1>1, <1>3, <1>5, <1>6

LEMMA StandsConcat ==
  ASSUME NEW T, NEW r \in Seq(T), NEW s \in Seq(T), NEW x, NEW y
  PROVE  Stands(r \o s, x, y) <=>
            Stands(r, x, y) \/ Stands(s, x, y) \/ (x \in Range(r) /\ y \in Range(s))
<1> DEFINE c == r \o s
           n == Len(r)
           k == Len(s)
<1>1. /\ c \in Seq(T) /\ Len(c) = n + k /\ n \in Nat /\ k \in Nat
      /\ \A i \in 1 .. Len(c) : c[i] = IF i <= n THEN r[i] ELSE s[i - n]
      /\ DOMAIN c = 1 .. Len(c) /\ DOMAIN r = 1 .. n /\ DOMAIN s = 1 .. k
  BY ConcatProperties, LenProperties
<1> HIDE DEF c, n, k
<1>2. ASSUME NEW i \in 1 .. n PROVE i \in 1 .. Len(c) /\ c[i] = r[i]
  BY <1>1
<1>3. ASSUME NEW i \in 1 .. k PROVE i + n \in 1 .. Len(c) /\ c[i + n] = s[i]
  BY <1>1
<1>4. ASSUME Stands(c, x, y)
      PROVE  Stands(r, x, y) \/ Stands(s, x, y) \/ (x \in Range(r) /\ y \in Range(s))
  <2>1. PICK i, j \in 1 .. Len(c) : i < j /\ c[i] = x /\ c[j] = y
    BY <1>1, <1>4 DEF Stands
  <2>2. CASE j <= n
    <3>1. i \in 1 .. n /\ j \in 1 .. n /\ r[i] = x /\ r[j] = y
      BY <1>1, <2>1, <2>2
    <3>2. QED
      BY <1>1, <2>1, <3>1 DEF Stands
  <2>3. CASE i <= n /\ ~(j <= n)
    <3>1. i \in 1 .. n /\ j - n \in 1 .. k /\ r[i] = x /\ s[j - n] = y
      BY <1>1, <2>1, <2>3
    <3>2. QED
      BY <1>1, <3>1 DEF Range
  <2>4. CASE ~(i <= n)
    <3>1. i - n \in 1 .. k /\ j - n \in 1 .. k /\ i - n < j - n /\ s[i - n] = x /\ s[j - n] = y
      BY <1>1, <2>1, <2>4
    <3>2. QED
      BY <1>1, <3>1 DEF Stands
  <2>5. QED
    BY <2>1, <2>2, <2>3, <2>4, <1>1
<1>5. ASSUME Stands(r, x, y) PROVE Stands(c, x, y)
  BY <1>1, <1>2, <1>5 DEF Stands
<1>6. ASSUME Stands(s, x, y) PROVE Stands(c, x, y)
  <2>1. PICK i, j \in 1 .. k : i < j /\ s[i] = x /\ s[j] = y
    BY <1>1, <1>6 DEF Stands
  <2>2. i + n < j + n
    BY <1>1, <2>1
  <2>3. QED
    BY <1>1, <1>3, <2>1, <2>2 DEF Stands
<1>7. ASSUME x \in Range(r), y \in Range(s) PROVE Stands(c, x, y)
  <2>1. PICK i \in 1 .. n : r[i] = x
    BY <1>1, <1>7 DEF Range
  <2>2. PICK j \in 1 .. k : s[j] = y
    BY <1>1, <1>7 DEF Range
  <2>3. i < j + n
    BY <1>1, <2>1, <2>2
  <2>4. QED
    BY <1>1, <1>2, <1>3, <2>1, <2>2, <2>3 DEF Stands
<1>8. QED
  BY <1>4, <1>5, <1>6, <1>7 DEF c

(* Two sequences of messages, one behind the other.                        *)
Joined(r, s) ==
    /\ r \o s \in Seq(Msgs) /\ Range(r \o s) = Range(r) \cup Range(s)
    /\ Len(r \o s) = Len(r) + Len(s)

LEMMA Joining == ASSUME NEW r \in Seq(Msgs), NEW s \in Seq(Msgs) PROVE Joined(r, s)
  BY ConcatRange DEF Joined

(* Its first element, and the others.                                      *)
LEMMA HeadStandsFirst ==
  ASSUME NEW s \in Seq(Msgs), s # <<>>
  PROVE  /\ Head(s) \in Msgs /\ Tail(s) \in Seq(Msgs) /\ s = <<Head(s)>> \o Tail(s)
         /\ Range(s) = {Head(s)} \cup Range(Tail(s)) /\ Len(s) = Len(Tail(s)) + 1
<1> DEFINE h == <<Head(s)>>
           t == Tail(s)
<1>1. Head(s) \in Msgs /\ t \in Seq(Msgs) /\ s = h \o t
  BY HeadTailProperties, ConcatProperties
<1>2. h \in Seq(Msgs) /\ Range(h) = {Head(s)} /\ Len(h) = 1
  BY <1>1 DEF Range
<1>3. Len(t) \in Nat
  BY <1>1, LenProperties
<1> HIDE DEF h, t
<1>4. Joined(h, t)
  BY <1>1, <1>2, Joining
<1>5. Range(s) = {Head(s)} \cup Range(t) /\ Len(s) = Len(t) + 1
  BY <1>1, <1>2, <1>3, <1>4 DEF Joined
<1>6. QED
  BY <1>1, <1>5 DEF h, t

(* The places in a sequence that has no element twice.                     *)
PlacesStay(s, m) ==
    /\ NoneTwice(Append(s, m))
    /\ \A x \in Range(s) : Place(Append(s, m), x) = Place(s, x) /\ Place(s, x) \in 1 .. Len(s)
    /\ Place(Append(s, m), m) = Len(s) + 1

LEMMA AppendKeepsPlaces ==
  ASSUME NEW T, NEW s \in Seq(T), NEW m \in T, m \notin Range(s), NoneTwice(s)
  PROVE  PlacesStay(s, m)
<1> DEFINE r == Append(s, m)
<1>1. /\ r \in Seq(T) /\ Len(s) \in Nat /\ Len(r) = Len(s) + 1 /\ r[Len(s) + 1] = m
      /\ \A i \in 1 .. Len(s) : r[i] = s[i]
  BY AppendProperties, LenProperties
<1>2. DOMAIN r = 1 .. Len(s) + 1 /\ DOMAIN s = 1 .. Len(s)
  BY <1>1, LenProperties
<1> HIDE DEF r
<1>3. \A i \in 1 .. Len(s) : s[i] # m /\ i \in 1 .. Len(s) + 1
  BY <1>1, <1>2 DEF Range
<1>4. ASSUME NEW i \in 1 .. Len(s) + 1, NEW j \in 1 .. Len(s) + 1, r[i] = r[j] PROVE i = j
  <2>1. CASE i \in 1 .. Len(s) /\ j \in 1 .. Len(s)
    BY <1>1, <1>2, <1>4, <2>1 DEF NoneTwice
  <2>2. CASE i = Len(s) + 1 \/ j = Len(s) + 1
    <3>1. \A h \in 1 .. Len(s) + 1 : h = Len(s) + 1 \/ h \in 1 .. Len(s)
      BY <1>1
    <3>2. r[i] = m /\ r[j] = m
      BY <1>1, <1>4, <2>2
    <3>3. QED
      BY <1>1, <1>3, <3>1, <3>2
  <2>3. QED
    BY <1>1, <2>1, <2>2
<1>5. NoneTwice(r)
  BY <1>2, <1>4 DEF NoneTwice
<1>6. ASSUME NEW i \in 1 .. Len(s) + 1 PROVE Place(r, r[i]) = i
  BY <1>2, <1>5 DEF NoneTwice, Place
<1>7. ASSUME NEW x \in Range(s)
      PROVE  Place(r, x) = Place(s, x) /\ Place(s, x) \in 1 .. Len(s)
  <2>1. PICK i \in 1 .. Len(s) : s[i] = x
    BY <1>2 DEF Range
  <2>2. Place(s, x) = i
    BY <1>2, <2>1 DEF NoneTwice, Place
  <2>3. Place(r, x) = i
    BY <1>1, <1>3, <1>6, <2>1
  <2>4. QED
    BY <2>2, <2>3
<1>8. Place(r, m) = Len(s) + 1
  BY <1>1, <1>6
<1>9. QED
  BY <1>5, <1>7, <1>8 DEF PlacesStay, r

(* One that is appended to the second, or to the first.                    *)
AppendsLast(r, s, m) == r \o Append(s, m) = Append(r \o s, m)
Regroups(r, m, s) == Append(r, m) \o s = r \o (<<m>> \o s)

LEMMA AppendingLast ==
  ASSUME NEW r \in Seq(Msgs), NEW s \in Seq(Msgs), NEW m \in Msgs
  PROVE  AppendsLast(r, s, m)
  BY ConcatOfAppend DEF AppendsLast

LEMMA Regrouping ==
  ASSUME NEW r \in Seq(Msgs), NEW s \in Seq(Msgs), NEW m \in Msgs
  PROVE  Regroups(r, m, s)
<1>1. <<m>> \in Seq(Msgs)
  OBVIOUS
<1>2. Append(r, m) = r \o <<m>>
  BY AppendIsConcat
<1>3. (r \o <<m>>) \o s = r \o (<<m>> \o s)
  BY <1>1, ConcatAssociative
<1>4. QED
  BY <1>2, <1>3 DEF Regroups

(* What is left of a sequence without its i-th element.                    *)
LeavesOut(s, i, r) ==
    /\ r \in Seq(Msgs) /\ Len(s) = Len(r) + 1 /\ Range(s) = Range(r) \cup {s[i]}
    /\ \A x, y : Stands(r, x, y) => Stands(s, x, y)
    /\ \A y \in Range(r) : Stands(s, s[i], y) \/ \E j \in 1 .. i - 1 : s[j] = y

LEMMA RemovedAt ==
  ASSUME NEW s \in Seq(Msgs), NEW i \in 1 .. Len(s)
  PROVE  LeavesOut(s, i, Q!RemoveAt(s, i))
<1> DEFINE n == Len(s)
           a == SubSeq(s, 1, i - 1)
           b == SubSeq(s, i + 1, n)
           r == a \o b
<1>1. n \in Nat /\ i \in Nat /\ i - 1 \in Nat /\ DOMAIN s = 1 .. n
  BY LenProperties
<1>2. /\ a \in Seq(Msgs) /\ Len(a) = i - 1 /\ \A j \in 1 .. i - 1 : a[j] = s[j]
      /\ b \in Seq(Msgs) /\ Len(b) = n - i /\ \A j \in 1 .. n - i : b[j] = s[j + i]
  <2>1. \A h \in 1 .. i - 1 : s[h] \in Msgs
    BY <1>1, ElementOfSeq
  <2>2. a \in Seq(Msgs) /\ Len(a) = i - 1 /\ \A j \in 1 .. i - 1 : a[j] = s[1 + j - 1]
    BY <1>1, <2>1, SubSeqProperties
  <2>3. \A h \in i + 1 .. n : s[h] \in Msgs
    BY <1>1, ElementOfSeq
  <2>4. b \in Seq(Msgs) /\ Len(b) = IF i + 1 <= n THEN n - (i + 1) + 1 ELSE 0
    BY <1>1, <2>3, SubSeqProperties
  <2>5. \A j \in 1 .. n - (i + 1) + 1 : b[j] = s[(i + 1) + j - 1]
    BY <1>1, <2>3, SubSeqProperties
  <2> HIDE DEF a, b, n
  <2>6. /\ \A j \in 1 .. i - 1 : 1 + j - 1 = j
        /\ \A j \in 1 .. n - i : (i + 1) + j - 1 = j + i /\ j \in 1 .. n - (i + 1) + 1
        /\ (IF i + 1 <= n THEN n - (i + 1) + 1 ELSE 0) = n - i
    <3>1. n \in Nat /\ i \in 1 .. n
      BY <1>1 DEF n
    <3>2. \A j \in 1 .. i - 1 : 1 + j - 1 = j
      BY <3>1
    <3>3. \A j \in 1 .. n - i : (i + 1) + j - 1 = j + i /\ j \in 1 .. n - (i + 1) + 1
      BY <3>1
    <3>4. (IF i + 1 <= n THEN n - (i + 1) + 1 ELSE 0) = n - i
      BY <3>1
    <3>5. QED
      BY <3>2, <3>3, <3>4
  <2>7. QED
    BY <2>2, <2>4, <2>5, <2>6
<1>3. /\ r \in Seq(Msgs) /\ Len(r) = Len(a) + Len(b)
      /\ \A j \in 1 .. Len(r) : r[j] = IF j <= Len(a) THEN a[j] ELSE b[j - Len(a)]
      /\ DOMAIN r = 1 .. Len(r)
  <2> HIDE DEF n, a, b
  <2>1. /\ r \in Seq(Msgs) /\ Len(r) = Len(a) + Len(b)
        /\ \A j \in 1 .. Len(a) + Len(b) : r[j] = IF j <= Len(a) THEN a[j] ELSE b[j - Len(a)]
    BY <1>2, ConcatProperties
  <2>2. DOMAIN r = 1 .. Len(r)
    BY <2>1, LenProperties
  <2>3. QED
    BY <2>1, <2>2
<1> HIDE DEF n, a, b, r
<1>4. Len(r) = n - 1
  BY <1>1, <1>2, <1>3
<1>5. ASSUME NEW j \in 1 .. n - 1
      PROVE  r[j] = IF j < i THEN s[j] ELSE s[j + 1]
  <2>1. CASE j < i
    BY <1>1, <1>2, <1>3, <1>4, <1>5, <2>1
  <2>2. CASE ~(j < i)
    <3>1. j - (i - 1) \in 1 .. n - i /\ ~(j <= i - 1) /\ (j - (i - 1)) + i = j + 1
      BY <1>1, <1>5, <2>2
    <3>2. QED
      BY <1>1, <1>2, <1>3, <1>4, <1>5, <2>2, <3>1
  <2>3. QED
    BY <2>1, <2>2
<1>6. DOMAIN r = 1 .. n - 1
  BY <1>3, <1>4
<1>7. ASSUME NEW x, NEW y, Stands(r, x, y) PROVE Stands(s, x, y)
  <2>1. PICK j, k \in 1 .. n - 1 : j < k /\ r[j] = x /\ r[k] = y
    BY <1>6, <1>7 DEF Stands
  <2> DEFINE at(h) == IF h < i THEN h ELSE h + 1
  <2>2. at(j) \in 1 .. n /\ at(k) \in 1 .. n /\ at(j) < at(k)
    BY <1>1, <2>1
  <2>3. s[at(j)] = x /\ s[at(k)] = y
    BY <1>5, <2>1
  <2>4. QED
    BY <1>1, <2>2, <2>3 DEF Stands
<1>8. ASSUME NEW y \in Range(r)
      PROVE  y \in Range(s) /\ (Stands(s, s[i], y) \/ \E j \in 1 .. i - 1 : s[j] = y)
  <2>1. PICK j \in 1 .. n - 1 : r[j] = y
    BY <1>6 DEF Range
  <2>2. CASE j < i
    BY <1>1, <1>5, <2>1, <2>2 DEF Range
  <2>3. CASE ~(j < i)
    <3>1. j + 1 \in 1 .. n /\ i < j + 1 /\ s[j + 1] = y
      BY <1>1, <1>5, <2>1, <2>3
    <3>2. QED
      BY <1>1, <3>1 DEF Range, Stands, n
  <2>4. QED
    BY <2>2, <2>3
<1>9. ASSUME NEW x \in Range(s), x # s[i] PROVE x \in Range(r)
  <2>1. PICK j \in 1 .. n : s[j] = x
    BY <1>1 DEF Range
  <2>2. CASE j < i
    <3>1. j \in 1 .. n - 1 /\ r[j] = x
      BY <1>1, <1>5, <2>1, <2>2 DEF n
    <3>2. QED
      BY <1>6, <3>1 DEF Range
  <2>3. CASE ~(j < i)
    <3>1. j - 1 \in 1 .. n - 1 /\ ~(j - 1 < i) /\ (j - 1) + 1 = j
      BY <1>1, <1>9, <2>1, <2>3
    <3>2. r[j - 1] = x
      BY <1>5, <2>1, <3>1
    <3>3. QED
      BY <1>6, <3>1, <3>2 DEF Range
  <2>4. QED
    BY <2>2, <2>3
<1>10. s[i] \in Range(s)
  BY <1>1 DEF Range, n
<1>11. Range(s) = Range(r) \cup {s[i]}
  BY <1>8, <1>9, <1>10
<1>12. Len(s) = Len(r) + 1
  BY <1>1, <1>4 DEF n
<1>13. r = Q!RemoveAt(s, i)
  BY DEF Q!RemoveAt, r, a, b, n
<1>14. LeavesOut(s, i, r)
  BY <1>3, <1>7, <1>8, <1>11, <1>12 DEF LeavesOut
<1>15. QED
  BY <1>13, <1>14

(* mq_receive finds a message: what stands before it has a lower priority. *)
LEMMA NextIsHighest ==
  ASSUME Priority \in [Msgs -> Nat], NEW q \in Seq(Msgs), q # <<>>
  PROVE  /\ Q!NextIn(q) \in 1 .. Len(q)
         /\ \A j \in 1 .. Q!NextIn(q) - 1 : Priority[q[j]] < Priority[q[Q!NextIn(q)]]
<1> DEFINE P(j) == Priority[q[j]]
           best(i, n) == \A j \in 1 .. n : P(j) < P(i) \/ (P(j) = P(i) /\ i <= j)
           T == {n \in 0 .. Len(q) : n = 0 \/ \E i \in 1 .. n : best(i, n)}
<1>1. DOMAIN q = 1 .. Len(q) /\ Len(q) \in Nat /\ Len(q) # 0
  BY LenProperties, EmptySeq
<1>2. \A j \in 1 .. Len(q) : P(j) \in Nat
  BY <1>1, ElementOfSeq
<1> HIDE DEF P
<1>3. ASSUME NEW n \in 1 .. Len(q), n - 1 \in T PROVE n \in T
  <2>1. P(n) \in Nat
    BY <1>2
  <2>2. CASE n = 1
    <3>1. best(1, 1)
      BY <2>1, <2>2
    <3>2. QED
      BY <1>3, <2>2, <3>1
  <2>3. CASE n # 1
    <3>1. PICK i \in 1 .. n - 1 : best(i, n - 1)
      BY <1>3, <2>3
    <3>2. i \in 1 .. Len(q) /\ P(i) \in Nat
      BY <1>1, <1>2, <1>3
    <3>3. \A j \in 1 .. n : j \in 1 .. n - 1 \/ j = n
      BY <1>3
    <3>4. \A j \in 1 .. n - 1 : j \in 1 .. Len(q) /\ P(j) \in Nat /\ j <= n
      BY <1>1, <1>2, <1>3
    <3>5. CASE P(i) < P(n)
      <4>1. best(n, n)
        BY <2>1, <3>1, <3>2, <3>3, <3>4, <3>5
      <4>2. QED
        BY <1>3, <4>1
    <3>6. CASE ~(P(i) < P(n))
      <4>1. P(n) < P(i) \/ (P(n) = P(i) /\ i <= n)
        BY <2>1, <3>2, <3>6, <1>3
      <4>2. best(i, n) /\ i \in 1 .. n
        BY <3>1, <3>3, <4>1, <1>3
      <4>3. \E h \in 1 .. n : best(h, n)
        BY <4>2
      <4>4. n \in 0 .. Len(q)
        BY <1>3
      <4> HIDE DEF best
      <4>5. QED
        BY <4>3, <4>4
    <3>7. QED
      BY <3>5, <3>6
  <2>4. QED
    BY <2>2, <2>3
<1>4. 0 \in T
  BY <1>1
<1> HIDE DEF T
<1>5. Len(q) \in T
  <2>1. \A i \in 0 .. Len(q) : i \in T
    BY <1>1, <1>3, <1>4, StepsStay
  <2>2. QED
    BY <1>1, <2>1
<1>6. \E i \in 1 .. Len(q) : best(i, Len(q))
  BY <1>1, <1>5 DEF T
<1>7. Q!NextIn(q) = CHOOSE i \in 1 .. Len(q) : best(i, Len(q))
  BY <1>1 DEF Q!NextIn, P
<1> DEFINE c == Q!NextIn(q)
<1>8. c \in 1 .. Len(q) /\ best(c, Len(q))
  BY <1>6, <1>7
<1> HIDE DEF c
<1>9. ASSUME NEW j \in 1 .. c - 1 PROVE P(j) < P(c)
  <2>1. j \in 1 .. Len(q) /\ ~(c <= j)
    BY <1>1, <1>8
  <2>2. QED
    BY <1>8, <2>1
<1>10. QED
  BY <1>8, <1>9 DEF P, c

-----------------------------------------------------------------------------
(* The order of messages over a message queue: l was sent, of w it is not  *)
(* known yet that it is in the queue, and k of it was refused in this turn *)
(* q is in the queue, d was received, and what is in r met a full queue.   *)
PairFits(w, q, d, r, x, y) ==
    /\ ~Stands(w, x, y)
    /\ (Stands(q, x, y) \/ (x \in Range(d) \cup Range(q) /\ y \in Range(w))) => y \in r
    /\ (Stands(d, x, y) \/ (x \in Range(d) /\ y \in Range(q)))
          => Priority[x] > Priority[y] \/ y \in r

Orderly(l, k, w, q, d, r) ==
    /\ NoneTwice(l)
    /\ Range(w) \cup Range(q) \cup Range(d) \subseteq Range(l)
    /\ Range(k) \subseteq r
    /\ \A x, y \in Range(l) : Place(l, y) < Place(l, x) => PairFits(w, q, d, r, x, y)

(* Nothing is disturbed when messages go, and when more are excused.       *)
LEMMA OrderlyLess ==
  ASSUME NEW l, NEW k, NEW w, NEW q, NEW d, NEW r, Orderly(l, k, w, q, d, r),
         NEW k2, NEW w2, NEW d2, NEW r2, Range(k2) \subseteq r2, r \subseteq r2,
         Range(w2) \subseteq Range(w), \A x, y : Stands(w2, x, y) => Stands(w, x, y),
         Range(d2) \subseteq Range(d), \A x, y : Stands(d2, x, y) => Stands(d, x, y)
  PROVE  Orderly(l, k2, w2, q, d2, r2)
<1>1. ASSUME NEW x, NEW y, PairFits(w, q, d, r, x, y)
      PROVE  PairFits(w2, q, d2, r2, x, y)
  BY <1>1 DEF PairFits
<1>2. QED
  BY <1>1 DEF Orderly

(* A message is sent.                                                      *)
LEMMA OrderlySend ==
  ASSUME NEW l \in Seq(Msgs), NEW k, NEW w \in Seq(Msgs), NEW q, NEW d, NEW r,
         Orderly(l, k, w, q, d, r), NEW m \in Msgs, m \notin Range(l)
  PROVE  Orderly(Append(l, m), k, Append(w, m), q, d, r)
<1> DEFINE l2 == Append(l, m)
           w2 == Append(w, m)
<1>1. Range(l2) = Range(l) \cup {m} /\ Range(w2) = Range(w) \cup {m} /\ Len(l) \in Nat
  BY AppendedRange
<1>2. NoneTwice(l)
  BY DEF Orderly
<1>3. PlacesStay(l, m)
  BY <1>2, AppendKeepsPlaces
<1>4. /\ NoneTwice(l2) /\ Place(l2, m) = Len(l) + 1
      /\ \A x \in Range(l) : Place(l2, x) = Place(l, x) /\ Place(l, x) \in 1 .. Len(l)
  BY <1>3 DEF PlacesStay
<1>5. ASSUME NEW x, NEW y, Stands(w2, x, y) PROVE Stands(w, x, y) \/ (x \in Range(w) /\ y = m)
  BY <1>5, StandsAppend
<1> HIDE DEF l2, w2
<1>6. ASSUME NEW x \in Range(l2), NEW y \in Range(l2), Place(l2, y) < Place(l2, x)
      PROVE  PairFits(w2, q, d, r, x, y)
  <2>1. y # m
    BY <1>1, <1>4, <1>6
  <2>2. y \in Range(l)
    BY <1>1, <2>1
  <2>3. CASE x = m
    <3>1. x \notin Range(w) /\ x \notin Range(q) /\ x \notin Range(d)
      BY <2>3 DEF Orderly
    <3>2. ~Stands(w, x, y) /\ ~Stands(q, x, y) /\ ~Stands(d, x, y)
      BY <3>1, StandsInRange
    <3>3. QED
      BY <1>5, <2>1, <3>1, <3>2 DEF PairFits
  <2>4. CASE x # m
    <3>1. x \in Range(l) /\ Place(l, y) < Place(l, x)
      BY <1>1, <1>4, <1>6, <2>2, <2>4
    <3>2. PairFits(w, q, d, r, x, y)
      BY <2>2, <3>1 DEF Orderly
    <3>3. QED
      BY <1>1, <1>5, <2>1, <3>2 DEF PairFits
  <2>5. QED
    BY <2>3, <2>4
<1>7. QED
  BY <1>1, <1>4, <1>6 DEF Orderly, l2, w2

(* The queue takes the message that comes next.                            *)
LEMMA OrderlyTaken ==
  ASSUME NEW l, NEW k \in Seq(Msgs), NEW o \in Seq(Msgs), o # <<>>,
         NEW q \in Seq(Msgs), NEW d, NEW r, Orderly(l, k, k \o o, q, d, r)
  PROVE  Orderly(l, k, k \o Tail(o), Append(q, Head(o)), d, r)
<1> DEFINE m == Head(o)
           t == Tail(o)
           w == k \o o
           w2 == k \o t
           q2 == Append(q, m)
<1>1. /\ m \in Msgs /\ t \in Seq(Msgs) /\ o = <<m>> \o t /\ Range(o) = {m} \cup Range(t)
  BY HeadStandsFirst
<1>2. Range(w) = Range(k) \cup Range(o) /\ Range(w2) = Range(k) \cup Range(t)
  <2>1. Joined(k, o) /\ Joined(k, t)
    BY <1>1, Joining
  <2>2. QED
    BY <2>1 DEF Joined
<1>3. Range(q2) = Range(q) \cup {m}
  BY <1>1, AppendedRange
<1>4. ASSUME NEW x, NEW y
      PROVE  /\ Stands(o, x, y) <=> (Stands(t, x, y) \/ (x = m /\ y \in Range(t)))
             /\ Stands(w, x, y) <=> (Stands(k, x, y) \/ Stands(o, x, y) \/ (x \in Range(k) /\ y \in Range(o)))
             /\ Stands(w2, x, y) <=> (Stands(k, x, y) \/ Stands(t, x, y) \/ (x \in Range(k) /\ y \in Range(t)))
             /\ Stands(q2, x, y) => (Stands(q, x, y) \/ (x \in Range(q) /\ y = m))
  <2>1. <<m>> \in Seq(Msgs) /\ Range(<<m>>) = {m} /\ ~Stands(<<m>>, x, y)
    BY <1>1 DEF Range, Stands
  <2>2. Stands(<<m>> \o t, x, y) <=>
            Stands(<<m>>, x, y) \/ Stands(t, x, y) \/ (x \in Range(<<m>>) /\ y \in Range(t))
    BY <1>1, <2>1, StandsConcat
  <2>3. Stands(o, x, y) <=> (Stands(t, x, y) \/ (x = m /\ y \in Range(t)))
    BY <1>1, <2>1, <2>2
  <2>4. /\ Stands(w, x, y) <=> (Stands(k, x, y) \/ Stands(o, x, y) \/ (x \in Range(k) /\ y \in Range(o)))
        /\ Stands(w2, x, y) <=> (Stands(k, x, y) \/ Stands(t, x, y) \/ (x \in Range(k) /\ y \in Range(t)))
    BY <1>1, StandsConcat
  <2>5. Stands(q2, x, y) => (Stands(q, x, y) \/ (x \in Range(q) /\ y = m))
    BY <1>1, StandsAppend
  <2>6. QED
    BY <2>3, <2>4, <2>5
<1>5. Orderly(l, k, w, q, d, r)
  OBVIOUS
<1> HIDE DEF m, t, w, w2, q2
<1>6. ASSUME NEW x, NEW y, PairFits(w, q, d, r, x, y)
      PROVE  PairFits(w2, q2, d, r, x, y)
  <2>1. ~Stands(w2, x, y)
    BY <1>1, <1>4, <1>6 DEF PairFits
  <2>2. ASSUME Stands(q2, x, y) \/ (x \in Range(d) \cup Range(q2) /\ y \in Range(w2))
        PROVE  y \in r
    <3>1. CASE Stands(q2, x, y)
      BY <1>1, <1>2, <1>4, <1>6, <3>1 DEF PairFits
    <3>2. CASE x \in Range(d) \cup Range(q) /\ y \in Range(w2)
      BY <1>1, <1>2, <1>6, <3>2 DEF PairFits
    <3>3. CASE x = m /\ y \in Range(k)
      BY <1>5, <3>3 DEF Orderly
    <3>4. CASE x = m /\ y \in Range(t)
      BY <1>4, <1>6, <3>4 DEF PairFits
    <3>5. QED
      BY <1>2, <1>3, <2>2, <3>1, <3>2, <3>3, <3>4
  <2>3. ASSUME Stands(d, x, y) \/ (x \in Range(d) /\ y \in Range(q2))
        PROVE  Priority[x] > Priority[y] \/ y \in r
    <3>1. CASE Stands(d, x, y) \/ (x \in Range(d) /\ y \in Range(q))
      BY <1>6, <3>1 DEF PairFits
    <3>2. CASE x \in Range(d) /\ y = m
      BY <1>1, <1>2, <1>6, <3>2 DEF PairFits
    <3>3. QED
      BY <1>3, <2>3, <3>1, <3>2
  <2>4. QED
    BY <2>1, <2>2, <2>3 DEF PairFits
<1>7. Range(w2) \cup Range(q2) \subseteq Range(w) \cup Range(q)
  BY <1>1, <1>2, <1>3
<1>8. Orderly(l, k, w2, q2, d, r)
  BY <1>5, <1>6, <1>7 DEF Orderly
<1>9. QED
  BY <1>8 DEF w2, q2, m, t

(* mq_receive takes the message of the highest priority.                   *)
LEMMA OrderlyReceive ==
  ASSUME NEW l, NEW k, NEW w, NEW q \in Seq(Msgs), NEW d \in Seq(Msgs), NEW r,
         Orderly(l, k, w, q, d, r), NEW i \in 1 .. Len(q), NEW q2, LeavesOut(q, i, q2),
         Priority \in [Msgs -> Nat],
         \A j \in 1 .. i - 1 : Priority[q[j]] < Priority[q[i]]
  PROVE  Orderly(l, k, w, q2, Append(d, q[i]), r)
<1> DEFINE m == q[i]
           d2 == Append(d, m)
<1>1. m \in Msgs /\ m \in Range(q)
  BY LenProperties, ElementOfSeq DEF Range
<1>2. Range(d2) = Range(d) \cup {m}
  BY <1>1, AppendedRange
<1>3. \A x, y : Stands(d2, x, y) => Stands(d, x, y) \/ (x \in Range(d) /\ y = m)
  BY <1>1, StandsAppend
<1>4. /\ Range(q) = Range(q2) \cup {m} /\ \A x, y : Stands(q2, x, y) => Stands(q, x, y)
      /\ \A y \in Range(q2) : Stands(q, m, y) \/ \E j \in 1 .. i - 1 : q[j] = y
  BY DEF LeavesOut
<1>5. ASSUME NEW y \in Range(q2) PROVE Stands(q, m, y) \/ Priority[m] > Priority[y]
  <2>1. ASSUME NEW j \in 1 .. i - 1, q[j] = y PROVE Priority[m] > Priority[y]
    <3>1. q[j] \in Msgs /\ Priority[q[j]] < Priority[m]
      BY LenProperties, ElementOfSeq
    <3>2. QED
      BY <1>1, <2>1, <3>1
  <2>2. QED
    BY <1>4, <2>1
<1> HIDE DEF m, d2
<1>6. ASSUME NEW x, NEW y, PairFits(w, q, d, r, x, y)
      PROVE  PairFits(w, q2, d2, r, x, y)
  <2>1. ~Stands(w, x, y)
    BY <1>6 DEF PairFits
  <2>2. ASSUME Stands(q2, x, y) \/ (x \in Range(d2) \cup Range(q2) /\ y \in Range(w))
        PROVE  y \in r
    BY <1>1, <1>2, <1>4, <1>6, <2>2 DEF PairFits
  <2>3. ASSUME Stands(d2, x, y) \/ (x \in Range(d2) /\ y \in Range(q2))
        PROVE  Priority[x] > Priority[y] \/ y \in r
    <3>1. CASE Stands(d, x, y) \/ (x \in Range(d) /\ y \in Range(q2) \cup {m})
      BY <1>4, <1>6, <3>1 DEF PairFits
    <3>2. CASE x = m /\ y \in Range(q2)
      BY <1>5, <1>6, <3>2 DEF PairFits
    <3>3. QED
      BY <1>2, <1>3, <2>3, <3>1, <3>2
  <2>4. QED
    BY <2>1, <2>2, <2>3 DEF PairFits
<1>7. Range(q2) \cup Range(d2) = Range(q) \cup Range(d)
  BY <1>2, <1>4
<1>8. Orderly(l, k, w, q2, d2, r)
  BY <1>6, <1>7 DEF Orderly
<1>9. QED
  BY <1>8 DEF d2, m

(* All that was sent is in one of the places.                              *)
InPlaces(l, k, o, q, i, g) ==
    /\ Len(l) = Len(k) + Len(o) + Len(q) + Len(i) + Len(g)
    /\ Range(l) = Range(k) \cup Range(o) \cup Range(q) \cup Range(i) \cup Range(g)

-----------------------------------------------------------------------------
(* The message queues: the inductive invariant.                            *)

LEMMA SetOfQueue == \A s : Q!ToSet(s) = Range(s)
  BY DEF Q!ToSet, Range

LEMMA OtherQueue ==
    \A e \in Q!Ends : /\ Q!Other(e) \in Q!Ends /\ Q!Other(e) # e /\ Q!Other(Q!Other(e)) = e
                      /\ e[2] = "accepted" <=> Q!Other(e)[2] = "connector"
  BY DEF Q!Ends, Q!Other

QueueTypes ==
    /\ gen \in Nat \ {0}
    /\ log \in [Q!Ends -> Seq(Msgs)] /\ got \in [Q!Ends -> Seq(Msgs)]
    /\ outgoing \in [Q!Ends -> Seq(Msgs)] /\ kept \in [Q!Ends -> Seq(Msgs)]
    /\ queue \in [Q!Ends -> Seq(Msgs)] /\ incoming \in [Q!Ends -> Seq(Msgs)]

OrderlyAt(e) ==
    Orderly(log[e], kept[e], kept[e] \o outgoing[e], queue[e],
            got[Q!Other(e)] \o incoming[Q!Other(e)], retried)

InPlacesAt(e) ==
    InPlaces(log[e], kept[e], outgoing[e], queue[e], incoming[Q!Other(e)], got[Q!Other(e)])

(* The sequences of an end.                                                *)
LEMMA TypesOfQueue ==
  ASSUME QueueTypes, NEW e \in Q!Ends
  PROVE  /\ log[e] \in Seq(Msgs) /\ got[e] \in Seq(Msgs) /\ outgoing[e] \in Seq(Msgs)
         /\ kept[e] \in Seq(Msgs) /\ queue[e] \in Seq(Msgs) /\ incoming[e] \in Seq(Msgs)
         /\ Q!Other(e) \in Q!Ends
         /\ got[Q!Other(e)] \in Seq(Msgs) /\ incoming[Q!Other(e)] \in Seq(Msgs)
  BY OtherQueue DEF QueueTypes

LEMMA PlacesOfQueue ==
  ASSUME QueueTypes, NEW e \in Q!Ends
  PROVE  /\ Len(Q!Places(e)) = Len(kept[e]) + Len(outgoing[e]) + Len(queue[e])
                               + Len(incoming[Q!Other(e)]) + Len(got[Q!Other(e)])
         /\ Range(Q!Places(e)) = Range(kept[e]) \cup Range(outgoing[e]) \cup Range(queue[e])
                               \cup Range(incoming[Q!Other(e)]) \cup Range(got[Q!Other(e)])
<1> DEFINE k == kept[e]
           o == outgoing[e]
           q == queue[e]
           i == incoming[Q!Other(e)]
           g == got[Q!Other(e)]
<1>1. k \in Seq(Msgs) /\ o \in Seq(Msgs) /\ q \in Seq(Msgs) /\ i \in Seq(Msgs) /\ g \in Seq(Msgs)
  BY TypesOfQueue
<1>2. Q!Places(e) = (((k \o o) \o q) \o i) \o g
  BY DEF Q!Places
<1> HIDE DEF k, o, q, i, g
<1> DEFINE a == k \o o
           b == a \o q
           c == b \o i
<1>3. Joined(k, o) /\ a \in Seq(Msgs)
  BY <1>1, Joining DEF Joined
<1> HIDE DEF a
<1>4. Joined(a, q) /\ b \in Seq(Msgs)
  BY <1>1, <1>3, Joining DEF Joined
<1> HIDE DEF b
<1>5. Joined(b, i) /\ c \in Seq(Msgs)
  BY <1>1, <1>4, Joining DEF Joined
<1> HIDE DEF c
<1>6. Joined(c, g)
  BY <1>1, <1>5, Joining
<1>7. Q!Places(e) = c \o g
  BY <1>2 DEF a, b, c
<1>8. Range(c) = Range(k) \cup Range(o) \cup Range(q) \cup Range(i)
  BY <1>3, <1>4, <1>5 DEF a, b, c, Joined
<1>9. Len(c) = Len(k) + Len(o) + Len(q) + Len(i)
  BY <1>3, <1>4, <1>5 DEF a, b, c, Joined
<1>10. QED
  BY <1>6, <1>7, <1>8, <1>9 DEF k, o, q, i, g, Joined

(* The invariant by these.                                                 *)
LEMMA InOrderIsOrderly ==
  ASSUME QueueTypes, NEW e \in Q!Ends
  PROVE  Q!InOrder(e) <=> OrderlyAt(e)
<1> DEFINE l == log[e]
           k == kept[e]
           o == outgoing[e]
           q == queue[e]
           i == incoming[Q!Other(e)]
           g == got[Q!Other(e)]
           d == g \o i
           w == k \o o
<1>1. k \in Seq(Msgs) /\ o \in Seq(Msgs) /\ i \in Seq(Msgs) /\ g \in Seq(Msgs)
  BY TypesOfQueue
<1>2. Range(w) = Range(k) \cup Range(o)
  BY <1>1, Joining DEF Joined
<1>3. Range(d) = Range(g) \cup Range(i)
  BY <1>1, Joining DEF Joined
<1>4. Range(Q!Places(e)) = Range(w) \cup Range(q) \cup Range(d)
  BY <1>2, <1>3, PlacesOfQueue
<1>5. \A x : Q!At(e, x) = Place(l, x)
  BY DEF Q!At, Place
<1>6. \A s, x, y : Q!Ahead(s, x, y) <=> Stands(s, x, y)
  BY DEF Q!Ahead, Stands
<1>7. Q!InOrder(e) <=>
        /\ \A a, b \in DOMAIN l : l[a] = l[b] => a = b
        /\ Range(Q!Places(e)) \subseteq Range(l)
        /\ Range(k) \subseteq retried
        /\ \A x, y \in Range(l) :
            Q!At(e, y) < Q!At(e, x) =>
                /\ ~Q!Ahead(w, x, y)
                /\ (\/ Q!Ahead(q, x, y)
                    \/ x \in Range(d) \cup Range(q) /\ y \in Range(w))
                   => y \in retried
                /\ (\/ Q!Ahead(d, x, y)
                    \/ x \in Range(d) /\ y \in Range(q))
                   => Priority[x] > Priority[y] \/ y \in retried
  BY SetOfQueue DEF Q!InOrder
<1>8. OrderlyAt(e) <=> Orderly(l, k, w, q, d, retried)
  BY DEF OrderlyAt
<1> HIDE DEF l, k, o, q, i, g, d, w
<1>9. \A x, y : (/\ ~Q!Ahead(w, x, y)
                 /\ (\/ Q!Ahead(q, x, y)
                     \/ x \in Range(d) \cup Range(q) /\ y \in Range(w))
                    => y \in retried
                 /\ (\/ Q!Ahead(d, x, y)
                     \/ x \in Range(d) /\ y \in Range(q))
                    => Priority[x] > Priority[y] \/ y \in retried)
                <=> PairFits(w, q, d, retried, x, y)
  BY <1>6 DEF PairFits
<1>10. QED
  BY <1>4, <1>5, <1>7, <1>8, <1>9 DEF Orderly, NoneTwice

LEMMA ForgetsNothingIs ==
  ASSUME QueueTypes
  PROVE  Q!MqueueForgetsNothing <=> (gen = 1 => \A e \in Q!Ends : InPlacesAt(e))
<1>1. \A e \in Q!Ends : (Len(Q!Places(e)) = Len(log[e]) /\ Q!ToSet(Q!Places(e)) = Q!ToSet(log[e]))
                        <=> InPlacesAt(e)
  BY PlacesOfQueue, SetOfQueue DEF InPlacesAt, InPlaces
<1>2. QED
  BY <1>1 DEF Q!MqueueForgetsNothing

QueueInv ==
    /\ QueueTypes
    /\ \A e \in Q!Ends : OrderlyAt(e)
    /\ gen = 1 => \A e \in Q!Ends : InPlacesAt(e)

LEMMA QueueInvIs == Q!IInv <=> QueueInv
  BY InOrderIsOrderly, ForgetsNothingIs DEF Q!IInv, QueueInv, QueueTypes

LEMMA QueueInit == Q!Init => QueueInv
<1> SUFFICES ASSUME Q!Init PROVE QueueInv
  OBVIOUS
<1> DEFINE none == <<>>
<1>1. none \in Seq(Msgs) /\ Len(none) = 0 /\ Range(none) = {} /\ none \o none = none
  BY EmptySeq, ConcatEmptySeq DEF Range
<1>2. ~(\E x, y : Stands(none, x, y)) /\ NoneTwice(none)
  BY DEF Stands, NoneTwice
<1>3. /\ gen = 1
      /\ log = [e \in Q!Ends |-> none] /\ got = [e \in Q!Ends |-> none]
      /\ outgoing = [e \in Q!Ends |-> none] /\ kept = [e \in Q!Ends |-> none]
      /\ queue = [e \in Q!Ends |-> none] /\ incoming = [e \in Q!Ends |-> none]
  BY DEF Q!Init
<1> HIDE DEF none
<1>4. QueueTypes
  BY <1>1, <1>3 DEF QueueTypes
<1>5. ASSUME NEW e \in Q!Ends PROVE OrderlyAt(e) /\ InPlacesAt(e)
  <2>1. Q!Other(e) \in Q!Ends
    BY OtherQueue
  <2>2. /\ log[e] = none /\ kept[e] = none /\ outgoing[e] = none /\ queue[e] = none
        /\ got[Q!Other(e)] = none /\ incoming[Q!Other(e)] = none
    BY <1>3, <2>1
  <2>3. Orderly(none, none, none, none, none, retried)
    BY <1>1, <1>2 DEF Orderly
  <2>4. InPlaces(none, none, none, none, none, none)
    BY <1>1 DEF InPlaces
  <2>5. QED
    BY <1>1, <2>2, <2>3, <2>4 DEF OrderlyAt, InPlacesAt
<1>6. QED
  BY <1>4, <1>5 DEF QueueInv

(* What an end has is as it was, but that more met a full queue.           *)
SameAt(e) ==
    /\ log'[e] = log[e] /\ kept'[e] = kept[e] /\ outgoing'[e] = outgoing[e]
    /\ queue'[e] = queue[e] /\ incoming'[Q!Other(e)] = incoming[Q!Other(e)]
    /\ got'[Q!Other(e)] = got[Q!Other(e)]

LEMMA SameEnd ==
  ASSUME QueueInv, NEW e \in Q!Ends, SameAt(e), retried \subseteq retried'
  PROVE  OrderlyAt(e)' /\ (InPlacesAt(e) => InPlacesAt(e)')
<1> DEFINE w == kept[e] \o outgoing[e]
           d == got[Q!Other(e)] \o incoming[Q!Other(e)]
<1>1. Orderly(log[e], kept[e], w, queue[e], d, retried)
  BY DEF QueueInv, OrderlyAt
<1>2. Range(kept[e]) \subseteq retried'
  BY <1>1 DEF Orderly
<1> HIDE DEF w, d
<1>3. Orderly(log[e], kept[e], w, queue[e], d, retried')
  BY <1>1, <1>2, OrderlyLess
<1>4. OrderlyAt(e)'
  BY <1>3 DEF OrderlyAt, SameAt, w, d
<1>5. InPlacesAt(e) => InPlacesAt(e)'
  BY DEF InPlacesAt, SameAt
<1>6. QED
  BY <1>4, <1>5

(* A step that changes what one end sends over its queue, or nobody's.     *)
LEMMA OneEndChanges ==
  ASSUME QueueInv, QueueTypes', gen' = gen, retried \subseteq retried',
         NEW e \in Q!Ends, OrderlyAt(e)', InPlacesAt(e) => InPlacesAt(e)',
         \A f \in Q!Ends \ {e} : SameAt(f)
  PROVE  QueueInv'
<1>1. \A f \in Q!Ends \ {e} : OrderlyAt(f)' /\ (InPlacesAt(f) => InPlacesAt(f)')
  BY SameEnd
<1>2. \A f \in Q!Ends : f = e \/ f \in Q!Ends \ {e}
  OBVIOUS
<1>3. \A f \in Q!Ends : OrderlyAt(f)'
  BY <1>1, <1>2
<1>4. \A f \in Q!Ends : InPlacesAt(f) => InPlacesAt(f)'
  BY <1>1, <1>2
<1>5. gen' = 1 => \A f \in Q!Ends : InPlacesAt(f)'
  BY <1>4 DEF QueueInv
<1>6. QED
  BY <1>3, <1>5 DEF QueueInv, Q!Ends

LEMMA NobodyChanges ==
  ASSUME QueueInv, UNCHANGED <<gen, log, kept, outgoing, queue, incoming, got, retried>>
  PROVE  QueueInv'
<1>1. QueueTypes'
  BY DEF QueueInv, QueueTypes
<1>2. \A f \in Q!Ends : SameAt(f)
  BY DEF SameAt
<1>3. \A f \in Q!Ends : OrderlyAt(f)' /\ (InPlacesAt(f) => InPlacesAt(f)')
  BY <1>2, SameEnd
<1>4. QED
  BY <1>1, <1>3 DEF QueueInv, Q!Ends

(* posix_mqueue_connection::send.                                          *)
LEMMA QueueSend ==
  ASSUME QueueInv, Owner \in [Msgs -> Q!Ends], NEW m \in Msgs, Q!Send(m)
  PROVE  QueueInv'
<1> DEFINE e == Owner[m]
           l == log[e]
           k == kept[e]
           o == outgoing[e]
<1>1. e \in Q!Ends
  OBVIOUS
<1>2. /\ m \notin Range(l)
      /\ log' = [log EXCEPT ![e] = Append(@, m)]
      /\ outgoing' = [outgoing EXCEPT ![e] = Append(@, m)]
      /\ UNCHANGED <<gen, kept, queue, incoming, got, retried>>
  <2>1. l \in Seq(Msgs)
    BY <1>1, TypesOfQueue DEF QueueInv
  <2>2. DOMAIN l = 1 .. Len(l)
    BY <2>1, LenProperties
  <2>3. QED
    BY <2>2 DEF Q!Send, Q!Contains, Q!acceptorVars, Range
<1>3. l \in Seq(Msgs) /\ k \in Seq(Msgs) /\ o \in Seq(Msgs)
  BY <1>1, TypesOfQueue DEF QueueInv
<1>4. /\ Append(l, m) \in Seq(Msgs) /\ Len(Append(l, m)) = Len(l) + 1 /\ Len(l) \in Nat
      /\ Range(Append(l, m)) = Range(l) \cup {m}
  BY <1>3, AppendedRange
<1>5. /\ Append(o, m) \in Seq(Msgs) /\ Len(Append(o, m)) = Len(o) + 1 /\ Len(o) \in Nat
      /\ Range(Append(o, m)) = Range(o) \cup {m}
  BY <1>3, AppendedRange
<1>6. k \o o \in Seq(Msgs) /\ k \o Append(o, m) = Append(k \o o, m)
  <2>1. k \o o \in Seq(Msgs)
    BY <1>3, Joining DEF Joined
  <2>2. k \o Append(o, m) = Append(k \o o, m)
    BY <1>3, AppendingLast DEF AppendsLast
  <2>3. QED
    BY <2>1, <2>2
<1> HIDE DEF e
<1>7. QueueTypes /\ OrderlyAt(e)
  BY <1>1 DEF QueueInv
<1>8. log'[e] = Append(l, m) /\ outgoing'[e] = Append(o, m)
  BY <1>1, <1>2, <1>7 DEF QueueTypes
<1>9. \A f \in Q!Ends \ {e} : SameAt(f)
  BY <1>2, <1>7 DEF SameAt, QueueTypes
<1>10. QueueTypes'
  BY <1>1, <1>2, <1>4, <1>5, <1>7 DEF QueueTypes
<1>11. OrderlyAt(e)'
  <2> DEFINE d == got[Q!Other(e)] \o incoming[Q!Other(e)]
  <2>1. Orderly(l, k, k \o o, queue[e], d, retried)
    BY <1>7 DEF OrderlyAt
  <2> HIDE DEF l, k, o, d
  <2>2. Orderly(Append(l, m), k, Append(k \o o, m), queue[e], d, retried)
    BY <1>2, <1>3, <1>6, <2>1, OrderlySend
  <2>3. Orderly(Append(l, m), k, k \o Append(o, m), queue[e], d, retried)
    BY <1>6, <2>2
  <2>4. QED
    BY <1>2, <1>8, <2>3 DEF OrderlyAt, l, k, o, d
<1>12. InPlacesAt(e) => InPlacesAt(e)'
  <2> DEFINE q == queue[e]
             i == incoming[Q!Other(e)]
             g == got[Q!Other(e)]
  <2>1. Len(k) \in Nat /\ Len(q) \in Nat /\ Len(i) \in Nat /\ Len(g) \in Nat
    BY <1>1, <1>7, TypesOfQueue, LenProperties
  <2> HIDE DEF l, k, o, q, i, g
  <2>2. InPlaces(l, k, o, q, i, g) => InPlaces(Append(l, m), k, Append(o, m), q, i, g)
    BY <1>4, <1>5, <2>1 DEF InPlaces
  <2>3. QED
    BY <1>2, <1>8, <2>2 DEF InPlacesAt, l, k, o, q, i, g
<1>13. QED
  BY <1>1, <1>2, <1>9, <1>10, <1>11, <1>12, OneEndChanges

(* posix_mqueue::receive.                                                  *)
LEMMA QueueReceive ==
  ASSUME QueueInv, Priority \in [Msgs -> Nat], NEW h \in Q!Ends, Q!Receive(h)
  PROVE  QueueInv'
<1> DEFINE e == Q!Other(h)
           q == queue[e]
           n == Q!NextIn(q)
           m == q[n]
           q2 == Q!RemoveAt(q, n)
           i == incoming[h]
           g == got[h]
<1>1. e \in Q!Ends /\ Q!Other(e) = h
  BY OtherQueue
<1>2. /\ q # <<>>
      /\ queue' = [queue EXCEPT ![e] = q2]
      /\ incoming' = [incoming EXCEPT ![h] = Append(i, m)]
      /\ UNCHANGED <<gen, log, kept, outgoing, got, retried>>
  BY DEF Q!Receive, Q!acceptorVars
<1>3. QueueTypes /\ OrderlyAt(e)
  BY <1>1 DEF QueueInv
<1>4. q \in Seq(Msgs) /\ i \in Seq(Msgs) /\ g \in Seq(Msgs)
  BY <1>1, <1>3, TypesOfQueue
<1>5. n \in 1 .. Len(q) /\ \A j \in 1 .. n - 1 : Priority[q[j]] < Priority[m]
  BY <1>2, <1>4, NextIsHighest
<1>6. m \in Msgs
  BY <1>4, <1>5, ElementOfSeq
<1>7. LeavesOut(q, n, q2)
  BY <1>4, <1>5, RemovedAt
<1>8. q2 \in Seq(Msgs) /\ Len(q) = Len(q2) + 1 /\ Range(q) = Range(q2) \cup {m}
  BY <1>7 DEF LeavesOut
<1>9. /\ Append(i, m) \in Seq(Msgs) /\ Len(Append(i, m)) = Len(i) + 1 /\ Len(i) \in Nat
      /\ Range(Append(i, m)) = Range(i) \cup {m}
  BY <1>4, <1>6, AppendedRange
<1>10. g \o i \in Seq(Msgs)
  BY <1>4, Joining DEF Joined
<1>11. g \o Append(i, m) = Append(g \o i, m)
  BY <1>4, <1>6, AppendingLast DEF AppendsLast
<1> HIDE DEF e, q2, m, n
<1>12. queue'[e] = q2 /\ incoming'[h] = Append(i, m)
  BY <1>1, <1>2, <1>3 DEF QueueTypes
<1>13. ASSUME NEW f \in Q!Ends \ {e} PROVE SameAt(f)
  <2>1. Q!Other(f) # h /\ Q!Other(f) \in Q!Ends
    BY <1>1, OtherQueue
  <2>2. QED
    BY <1>2, <1>3, <2>1 DEF SameAt, QueueTypes
<1>14. QueueTypes'
  BY <1>1, <1>2, <1>3, <1>8, <1>9 DEF QueueTypes
<1>15. OrderlyAt(e)'
  <2> DEFINE l == log[e]
             k == kept[e]
             w == kept[e] \o outgoing[e]
  <2>1. Orderly(l, k, w, q, g \o i, retried)
    BY <1>1, <1>3 DEF OrderlyAt
  <2> HIDE DEF l, k, w, q, g, i
  <2>2. Orderly(l, k, w, q2, Append(g \o i, q[n]), retried)
    BY <1>4, <1>5, <1>7, <1>10, <2>1, OrderlyReceive DEF m
  <2>3. Orderly(l, k, w, q2, g \o Append(i, m), retried)
    BY <1>11, <2>2 DEF m
  <2>4. QED
    BY <1>1, <1>2, <1>12, <2>3 DEF OrderlyAt, l, k, w, g
<1>16. InPlacesAt(e) => InPlacesAt(e)'
  <2> DEFINE l == log[e]
             k == kept[e]
             o == outgoing[e]
  <2>1. Len(k) \in Nat /\ Len(o) \in Nat /\ Len(g) \in Nat /\ Len(q2) \in Nat
    BY <1>1, <1>3, <1>4, <1>8, TypesOfQueue, LenProperties
  <2> HIDE DEF l, k, o, q, g, i
  <2>2. InPlaces(l, k, o, q, i, g) => InPlaces(l, k, o, q2, Append(i, m), g)
    <3>1. SUFFICES ASSUME InPlaces(l, k, o, q, i, g)
                   PROVE  InPlaces(l, k, o, q2, Append(i, m), g)
      OBVIOUS
    <3>2. Range(l) = Range(k) \cup Range(o) \cup Range(q2) \cup Range(Append(i, m)) \cup Range(g)
      BY <1>8, <1>9, <3>1 DEF InPlaces
    <3>3. Len(l) = Len(k) + Len(o) + Len(q2) + Len(Append(i, m)) + Len(g)
      BY <1>8, <1>9, <2>1, <3>1 DEF InPlaces
    <3>4. QED
      BY <3>2, <3>3 DEF InPlaces
  <2>3. QED
    BY <1>1, <1>2, <1>12, <2>2 DEF InPlacesAt, l, k, o, q, g, i
<1>17. QED
  BY <1>1, <1>2, <1>13, <1>14, <1>15, <1>16, OneEndChanges

(* posix_mqueue::send, when there is room in the queue.                    *)
LEMMA QueueTakes ==
  ASSUME QueueInv, NEW e \in Q!Ends, Q!HandleSend(e), Len(queue[e]) < Capacity
  PROVE  QueueInv'
<1> DEFINE l == log[e]
           k == kept[e]
           o == outgoing[e]
           q == queue[e]
           m == Head(o)
           t == Tail(o)
           q2 == Append(q, m)
<1>1. /\ o # <<>>
      /\ queue' = [queue EXCEPT ![e] = q2]
      /\ outgoing' = [outgoing EXCEPT ![e] = t]
      /\ UNCHANGED <<gen, log, kept, incoming, got, retried>>
  BY DEF Q!HandleSend, Q!acceptorVars
<1>2. QueueTypes /\ OrderlyAt(e)
  BY DEF QueueInv
<1>3. k \in Seq(Msgs) /\ o \in Seq(Msgs) /\ q \in Seq(Msgs)
  BY <1>2, TypesOfQueue
<1>4. /\ m \in Msgs /\ t \in Seq(Msgs) /\ o = <<m>> \o t
      /\ Range(o) = {m} \cup Range(t) /\ Len(o) = Len(t) + 1
  BY <1>1, <1>3, HeadStandsFirst
<1>5. /\ q2 \in Seq(Msgs) /\ Len(q2) = Len(q) + 1 /\ Len(q) \in Nat
      /\ Range(q2) = Range(q) \cup {m}
  BY <1>3, <1>4, AppendedRange
<1>6. queue'[e] = q2 /\ outgoing'[e] = t
  BY <1>1, <1>2 DEF QueueTypes
<1>7. \A f \in Q!Ends \ {e} : SameAt(f)
  BY <1>1, <1>2 DEF SameAt, QueueTypes
<1>8. QueueTypes'
  BY <1>1, <1>2, <1>4, <1>5 DEF QueueTypes
<1>9. OrderlyAt(e)'
  <2> DEFINE d == got[Q!Other(e)] \o incoming[Q!Other(e)]
  <2>1. Orderly(l, k, k \o o, q, d, retried)
    BY <1>2 DEF OrderlyAt
  <2> HIDE DEF l, k, o, q, d
  <2>2. Orderly(l, k, k \o t, q2, d, retried)
    BY <1>1, <1>3, <2>1, OrderlyTaken
  <2> HIDE DEF t, q2
  <2>3. QED
    BY <1>1, <1>6, <2>2 DEF OrderlyAt, l, k, d
<1>10. InPlacesAt(e) => InPlacesAt(e)'
  <2> DEFINE i == incoming[Q!Other(e)]
             g == got[Q!Other(e)]
  <2>1. Len(k) \in Nat /\ Len(i) \in Nat /\ Len(g) \in Nat /\ Len(t) \in Nat
    BY <1>2, <1>4, TypesOfQueue, LenProperties
  <2> HIDE DEF l, k, o, q, i, g, t, q2, m
  <2>2. InPlaces(l, k, o, q, i, g) => InPlaces(l, k, t, q2, i, g)
    BY <1>4, <1>5, <2>1 DEF InPlaces
  <2>3. QED
    BY <1>1, <1>6, <2>2 DEF InPlacesAt, l, k, o, q, i, g
<1>11. QED
  BY <1>1, <1>7, <1>8, <1>9, <1>10, OneEndChanges

(* posix_mqueue::send, when the queue is full.                             *)
LEMMA QueueRefuses ==
  ASSUME QueueInv, NEW e \in Q!Ends, Q!HandleSend(e), ~(Len(queue[e]) < Capacity)
  PROVE  QueueInv'
<1> DEFINE l == log[e]
           k == kept[e]
           o == outgoing[e]
           q == queue[e]
           m == Head(o)
           t == Tail(o)
           k2 == Append(k, m)
<1>1. /\ o # <<>>
      /\ kept' = [kept EXCEPT ![e] = k2] /\ retried' = retried \cup {m}
      /\ outgoing' = [outgoing EXCEPT ![e] = t]
      /\ UNCHANGED <<gen, log, queue, incoming, got>>
  BY DEF Q!HandleSend, Q!acceptorVars
<1>2. QueueTypes /\ OrderlyAt(e)
  BY DEF QueueInv
<1>3. k \in Seq(Msgs) /\ o \in Seq(Msgs) /\ q \in Seq(Msgs)
  BY <1>2, TypesOfQueue
<1>4. /\ m \in Msgs /\ t \in Seq(Msgs) /\ o = <<m>> \o t
      /\ Range(o) = {m} \cup Range(t) /\ Len(o) = Len(t) + 1
  BY <1>1, <1>3, HeadStandsFirst
<1>5. /\ k2 \in Seq(Msgs) /\ Len(k2) = Len(k) + 1 /\ Len(k) \in Nat
      /\ Range(k2) = Range(k) \cup {m}
  BY <1>3, <1>4, AppendedRange
<1>6. k2 \o t = k \o o
  <2>1. Regroups(k, m, t)
    BY <1>3, <1>4, Regrouping
  <2>2. QED
    BY <1>4, <2>1 DEF Regroups
<1>7. kept'[e] = k2 /\ outgoing'[e] = t
  BY <1>1, <1>2 DEF QueueTypes
<1>8. \A f \in Q!Ends \ {e} : SameAt(f)
  BY <1>1, <1>2 DEF SameAt, QueueTypes
<1>9. QueueTypes'
  BY <1>1, <1>2, <1>4, <1>5 DEF QueueTypes
<1>10. OrderlyAt(e)'
  <2> DEFINE d == got[Q!Other(e)] \o incoming[Q!Other(e)]
             w == k \o o
  <2>1. Orderly(l, k, w, q, d, retried)
    BY <1>2 DEF OrderlyAt
  <2> HIDE DEF l, k, o, q, d, w, k2, m
  <2>2. Range(k) \subseteq retried
    BY <2>1 DEF Orderly
  <2>3. Range(k2) \subseteq retried' /\ retried \subseteq retried'
    BY <1>1, <1>5, <2>2
  <2>4. Orderly(l, k2, w, q, d, retried')
    BY <2>1, <2>3, OrderlyLess
  <2>5. w = k2 \o t
    BY <1>6 DEF w
  <2>6. QED
    BY <1>1, <1>7, <2>4, <2>5 DEF OrderlyAt, l, q, d
<1>11. InPlacesAt(e) => InPlacesAt(e)'
  <2> DEFINE i == incoming[Q!Other(e)]
             g == got[Q!Other(e)]
  <2>1. Len(q) \in Nat /\ Len(i) \in Nat /\ Len(g) \in Nat /\ Len(t) \in Nat
    BY <1>2, <1>3, <1>4, TypesOfQueue, LenProperties
  <2> HIDE DEF l, k, o, q, i, g, t, k2, m
  <2>2. InPlaces(l, k, o, q, i, g) => InPlaces(l, k2, t, q, i, g)
    BY <1>4, <1>5, <2>1 DEF InPlaces
  <2>3. QED
    BY <1>1, <1>7, <2>2 DEF InPlacesAt, l, k, o, q, i, g
<1>12. QED
  BY <1>1, <1>8, <1>9, <1>10, <1>11, OneEndChanges

(* What fetch_all refused is what is sent next.                            *)
LEMMA QueueEndSend ==
  ASSUME QueueInv, NEW e \in Q!Ends, Q!EndSend(e)
  PROVE  QueueInv'
<1> DEFINE l == log[e]
           k == kept[e]
           o == outgoing[e]
           none == <<>>
<1>1. /\ o = none
      /\ kept' = [kept EXCEPT ![e] = none]
      /\ outgoing' = [outgoing EXCEPT ![e] = k]
      /\ UNCHANGED <<gen, log, queue, incoming, got, retried>>
  BY DEF Q!EndSend, Q!acceptorVars
<1>2. QueueTypes /\ OrderlyAt(e)
  BY DEF QueueInv
<1>3. k \in Seq(Msgs)
  BY <1>2, TypesOfQueue
<1>4. none \in Seq(Msgs) /\ Len(none) = 0 /\ Range(none) = {} /\ none \o k = k /\ k \o none = k
  BY <1>3, EmptySeq, ConcatEmptySeq DEF Range
<1> HIDE DEF none
<1>5. kept'[e] = none /\ outgoing'[e] = k
  BY <1>1, <1>2 DEF QueueTypes
<1>6. \A f \in Q!Ends \ {e} : SameAt(f)
  BY <1>1, <1>2 DEF SameAt, QueueTypes
<1>7. QueueTypes'
  BY <1>1, <1>2, <1>3, <1>4 DEF QueueTypes
<1>8. OrderlyAt(e)'
  <2> DEFINE d == got[Q!Other(e)] \o incoming[Q!Other(e)]
             q == queue[e]
  <2>1. Orderly(l, k, k \o none, q, d, retried)
    BY <1>1, <1>2 DEF OrderlyAt
  <2> HIDE DEF l, k, o, q, d
  <2>2. Orderly(l, k, k, q, d, retried)
    BY <1>4, <2>1
  <2>3. Range(none) \subseteq retried
    BY <1>4
  <2>4. Orderly(l, none, k, q, d, retried)
    BY <2>2, <2>3, OrderlyLess
  <2>5. Orderly(l, none, none \o k, q, d, retried)
    BY <1>4, <2>4
  <2>6. QED
    BY <1>1, <1>5, <2>5 DEF OrderlyAt, l, q, d
<1>9. InPlacesAt(e) => InPlacesAt(e)'
  <2> DEFINE i == incoming[Q!Other(e)]
             g == got[Q!Other(e)]
             q == queue[e]
  <2>1. Len(k) \in Nat
    BY <1>3, LenProperties
  <2> HIDE DEF l, k, o, q, i, g
  <2>2. InPlaces(l, k, o, q, i, g) => InPlaces(l, none, k, q, i, g)
    BY <1>1, <1>4, <2>1 DEF InPlaces
  <2>3. QED
    BY <1>1, <1>5, <2>2 DEF InPlacesAt, l, k, o, q, i, g
<1>10. QED
  BY <1>1, <1>6, <1>7, <1>8, <1>9, OneEndChanges

(* posix_mqueue_connection::fetch_messages.                                *)
LEMMA QueueFetch ==
  ASSUME QueueInv, NEW h \in Q!Ends, Q!Fetch(h)
  PROVE  QueueInv'
<1> DEFINE e == Q!Other(h)
           i == incoming[h]
           g == got[h]
           c == g \o i
           none == <<>>
<1>1. e \in Q!Ends /\ Q!Other(e) = h
  BY OtherQueue
<1>2. /\ got' = [got EXCEPT ![h] = c]
      /\ incoming' = [incoming EXCEPT ![h] = none]
      /\ UNCHANGED <<gen, log, kept, outgoing, queue, retried>>
  BY DEF Q!Fetch, Q!acceptorVars
<1>3. QueueTypes /\ OrderlyAt(e)
  BY <1>1 DEF QueueInv
<1>4. i \in Seq(Msgs) /\ g \in Seq(Msgs)
  BY <1>3, TypesOfQueue
<1>5. c \in Seq(Msgs) /\ Range(c) = Range(g) \cup Range(i) /\ Len(c) = Len(g) + Len(i)
  BY <1>4, Joining DEF Joined
<1> HIDE DEF e, c
<1>6. none \in Seq(Msgs) /\ Len(none) = 0 /\ Range(none) = {} /\ c \o none = c
  BY <1>5, EmptySeq, ConcatEmptySeq DEF Range
<1> HIDE DEF none
<1>7. got'[h] = c /\ incoming'[h] = none
  BY <1>2, <1>3 DEF QueueTypes
<1>8. ASSUME NEW f \in Q!Ends \ {e} PROVE SameAt(f)
  <2>1. Q!Other(f) # h /\ Q!Other(f) \in Q!Ends
    BY OtherQueue DEF e
  <2>2. QED
    BY <1>2, <1>3, <2>1 DEF SameAt, QueueTypes
<1>9. QueueTypes'
  BY <1>2, <1>3, <1>5, <1>6 DEF QueueTypes
<1>10. OrderlyAt(e)'
  <2> DEFINE l == log[e]
             k == kept[e]
             w == kept[e] \o outgoing[e]
             q == queue[e]
  <2>1. Orderly(l, k, w, q, c, retried)
    BY <1>1, <1>3 DEF OrderlyAt, c
  <2> HIDE DEF l, k, w, q
  <2>2. Orderly(l, k, w, q, c \o none, retried)
    BY <1>6, <2>1
  <2>3. QED
    BY <1>1, <1>2, <1>7, <2>2 DEF OrderlyAt, l, k, w, q
<1>11. InPlacesAt(e) => InPlacesAt(e)'
  <2> DEFINE l == log[e]
             k == kept[e]
             o == outgoing[e]
             q == queue[e]
  <2>1. /\ Len(k) \in Nat /\ Len(o) \in Nat /\ Len(q) \in Nat
        /\ Len(i) \in Nat /\ Len(g) \in Nat
    BY <1>1, <1>3, <1>4, TypesOfQueue, LenProperties
  <2> HIDE DEF l, k, o, q, g, i
  <2>2. InPlaces(l, k, o, q, i, g) => InPlaces(l, k, o, q, none, c)
    <3>1. SUFFICES ASSUME InPlaces(l, k, o, q, i, g)
                   PROVE  InPlaces(l, k, o, q, none, c)
      OBVIOUS
    <3>2. Range(l) = Range(k) \cup Range(o) \cup Range(q) \cup Range(none) \cup Range(c)
      BY <1>5, <1>6, <3>1 DEF InPlaces
    <3>3. Len(l) = Len(k) + Len(o) + Len(q) + Len(none) + Len(c)
      BY <1>5, <1>6, <2>1, <3>1 DEF InPlaces
    <3>4. QED
      BY <3>2, <3>3 DEF InPlaces
  <2>3. QED
    BY <1>1, <1>2, <1>7, <2>2 DEF InPlacesAt, l, k, o, q, g, i
<1>12. QED
  BY <1>1, <1>2, <1>8, <1>9, <1>10, <1>11, OneEndChanges

(* The acceptor's process loses what it holds, but disturbs no order.      *)
LEMMA QueueRestart ==
  ASSUME QueueInv, Q!Restart
  PROVE  QueueInv'
<1> DEFINE none == <<>>
<1>1. /\ gen' = gen + 1
      /\ outgoing' = [e \in Q!Ends |-> IF e[2] = "accepted" THEN none ELSE outgoing[e]]
      /\ kept' = [e \in Q!Ends |-> IF e[2] = "accepted" THEN none ELSE kept[e]]
      /\ incoming' = [e \in Q!Ends |-> IF e[2] = "accepted" THEN none ELSE incoming[e]]
      /\ UNCHANGED <<log, queue, got, retried>>
  BY DEF Q!Restart
<1>2. none \in Seq(Msgs) /\ Range(none) = {} /\ \A s \in Seq(Msgs) : s \o none = s
  BY EmptySeq, ConcatEmptySeq DEF Range
<1>3. none \o none = none /\ \A x, y : ~Stands(none, x, y)
  BY ConcatEmptySeq, EmptySeq DEF Stands
<1> HIDE DEF none
<1>4. QueueTypes
  BY DEF QueueInv
<1>5. QueueTypes'
  <2>1. gen' \in Nat \ {0}
    BY <1>1, <1>4 DEF QueueTypes
  <2>2. QED
    BY <1>1, <1>2, <1>4, <2>1 DEF QueueTypes
<1>6. gen' # 1
  BY <1>1, <1>4 DEF QueueTypes
<1>7. ASSUME NEW e \in Q!Ends PROVE OrderlyAt(e)'
  <2> DEFINE l == log[e]
             k == kept[e]
             o == outgoing[e]
             q == queue[e]
             g == got[Q!Other(e)]
             i == incoming[Q!Other(e)]
  <2>1. /\ k \in Seq(Msgs) /\ o \in Seq(Msgs) /\ g \in Seq(Msgs) /\ i \in Seq(Msgs)
        /\ Q!Other(e) \in Q!Ends
    BY <1>4, TypesOfQueue
  <2>2. Orderly(l, k, k \o o, q, g \o i, retried)
    BY DEF QueueInv, OrderlyAt
  <2>3. CASE e[2] = "accepted"
    <3>1. Q!Other(e)[2] # "accepted"
      BY <2>3 DEF Q!Ends, Q!Other
    <3>2. kept'[e] = none /\ outgoing'[e] = none /\ incoming'[Q!Other(e)] = i
      BY <1>1, <2>1, <2>3, <3>1
    <3> HIDE DEF l, k, o, q, g, i
    <3>3. Orderly(l, none, none, q, g \o i, retried)
      BY <1>2, <1>3, <2>2, OrderlyLess
    <3>4. Orderly(l, none, none \o none, q, g \o i, retried)
      BY <1>3, <3>3
    <3>5. QED
      BY <1>1, <3>2, <3>4 DEF OrderlyAt, l, q, g
  <2>4. CASE e[2] # "accepted"
    <3>1. Q!Other(e)[2] = "accepted"
      BY <2>4 DEF Q!Ends, Q!Other
    <3>2. kept'[e] = k /\ outgoing'[e] = o /\ incoming'[Q!Other(e)] = none
      BY <1>1, <2>1, <2>4, <3>1
    <3> DEFINE d == g \o i
    <3>3. Range(g) \subseteq Range(d) /\ \A x, y : Stands(g, x, y) => Stands(d, x, y)
      <4>1. Range(g) \subseteq Range(d)
        BY <2>1, Joining DEF Joined
      <4>2. \A x, y : Stands(g, x, y) => Stands(d, x, y)
        BY <2>1, StandsConcat
      <4>3. QED
        BY <4>1, <4>2
    <3> DEFINE w == k \o o
    <3>4. Range(k) \subseteq retried
      BY <2>2 DEF Orderly
    <3>5. Orderly(l, k, w, q, d, retried)
      BY <2>2
    <3> HIDE DEF l, k, o, q, i, d, w
    <3>6. Orderly(l, k, w, q, g, retried)
      BY <3>3, <3>4, <3>5, OrderlyLess
    <3>7. Orderly(l, k, w, q, g \o none, retried)
      BY <1>2, <2>1, <3>6
    <3>8. QED
      BY <1>1, <3>2, <3>7 DEF OrderlyAt, l, k, o, q, w
  <2>5. QED
    BY <2>3, <2>4
<1>8. QED
  BY <1>5, <1>6, <1>7 DEF QueueInv, Q!Ends

(* Every step.                                                             *)
LEMMA QueueNext ==
  ASSUME Q!PosixMqueueAssumption, QueueInv, [Q!Next]_(Q!vars)
  PROVE  QueueInv'
<1>1. Owner \in [Msgs -> Q!Ends] /\ Priority \in [Msgs -> Nat]
  BY DEF Q!PosixMqueueAssumption
<1>2. CASE UNCHANGED Q!vars
  BY <1>2, NobodyChanges DEF Q!vars, Q!acceptorVars, Q!dataVars
<1>3. ASSUME NEW x, Q!Expire(x) PROVE QueueInv'
  BY <1>3, NobodyChanges DEF Q!Expire, Q!acceptorVars, Q!dataVars
<1>4. CASE Q!AcceptorCheckup \/ Q!AcceptorReceive \/ Q!ProcessAccepted
  <2>1. UNCHANGED <<gen, log, kept, outgoing, queue, incoming, got, retried>>
    BY <1>4 DEF Q!AcceptorCheckup, Q!AcceptorReceive, Q!ProcessAccepted, Q!dataVars
  <2>2. QED
    BY <2>1, NobodyChanges
<1>5. CASE Q!Restart
  BY <1>5, QueueRestart
<1>6. ASSUME NEW c, Q!OpenConnectQueue(c) \/ Q!Reconnect(c) \/ Q!End(c) PROVE QueueInv'
  <2>1. UNCHANGED <<gen, log, kept, outgoing, queue, incoming, got, retried>>
    BY <1>6 DEF Q!OpenConnectQueue, Q!Reconnect, Q!End, Q!acceptorVars, Q!dataVars
  <2>2. QED
    BY <2>1, NobodyChanges
<1>7. ASSUME NEW m \in Msgs, Q!Send(m) PROVE QueueInv'
  BY <1>1, <1>7, QueueSend
<1>8. ASSUME NEW e \in Q!Ends, Q!Receive(e) PROVE QueueInv'
  BY <1>1, <1>8, QueueReceive
<1>9. ASSUME NEW e, Q!BeginSend(e) PROVE QueueInv'
  BY <1>9, NobodyChanges DEF Q!BeginSend, Q!acceptorVars
<1>10. ASSUME NEW e \in Q!Ends, Q!HandleSend(e) PROVE QueueInv'
  BY <1>10, QueueTakes, QueueRefuses
<1>11. ASSUME NEW e \in Q!Ends, Q!EndSend(e) PROVE QueueInv'
  BY <1>11, QueueEndSend
<1>12. ASSUME NEW e \in Q!Ends, Q!Fetch(e) PROVE QueueInv'
  BY <1>12, QueueFetch
<1>13. QED
  BY <1>2, <1>3, <1>4, <1>5, <1>6, <1>7, <1>8, <1>9, <1>10, <1>11, <1>12 DEF Q!Next

(* The message queues keep their invariant.                                *)
THEOREM QueueInvariant == ASSUME Q!PosixMqueueAssumption PROVE Q!Spec => []Q!IInv
<1>1. Q!Init => Q!IInv
  BY QueueInit, QueueInvIs
<1>2. QueueInv /\ [Q!Next]_(Q!vars) => QueueInv'
  BY QueueNext
<1>3. Q!IInv /\ [Q!Next]_(Q!vars) => Q!IInv'
  BY <1>2, QueueInvIs, PTL
<1>4. QED
  BY <1>1, <1>3, PTL DEF Q!Spec

(* What the invariant says of what was received.                           *)
LEMMA ReceivedInOrder == Q!IInv => Q!MqueueOrder
<1> SUFFICES ASSUME Q!IInv, NEW e \in Q!Ends,
                    NEW i \in DOMAIN (got[Q!Other(e)] \o incoming[Q!Other(e)]),
                    NEW j \in DOMAIN (got[Q!Other(e)] \o incoming[Q!Other(e)]),
                    i < j,
                    Q!At(e, (got[Q!Other(e)] \o incoming[Q!Other(e)])[j])
                        < Q!At(e, (got[Q!Other(e)] \o incoming[Q!Other(e)])[i])
             PROVE  LET d == got[Q!Other(e)] \o incoming[Q!Other(e)]
                    IN  Priority[d[i]] > Priority[d[j]] \/ d[j] \in retried
  BY DEF Q!MqueueOrder
<1> DEFINE l == log[e]
           w == kept[e] \o outgoing[e]
           q == queue[e]
           d == got[Q!Other(e)] \o incoming[Q!Other(e)]
           x == d[i]
           y == d[j]
<1>1. Orderly(l, kept[e], w, q, d, retried)
  BY QueueInvIs DEF QueueInv, OrderlyAt
<1>2. Q!At(e, x) = Place(l, x) /\ Q!At(e, y) = Place(l, y)
  BY DEF Q!At, Place
<1>3. x \in Range(d) /\ y \in Range(d) /\ Stands(d, x, y)
  BY DEF Range, Stands
<1>4. Place(l, y) < Place(l, x)
  BY <1>2
<1> HIDE DEF l, w, q, d, x, y
<1>5. PairFits(w, q, d, retried, x, y)
  BY <1>1, <1>3, <1>4 DEF Orderly
<1>6. Priority[x] > Priority[y] \/ y \in retried
  BY <1>3, <1>5 DEF PairFits
<1>7. QED
  BY <1>6 DEF x, y, d

(* While both ends live, a message that send accepted is in one place, for *)
(* any messages, priorities and capacity, however often a queue was full.  *)
THEOREM MqueueForgetsNothingAlways ==
    ASSUME Q!PosixMqueueAssumption PROVE Q!Spec => []Q!MqueueForgetsNothing
<1>1. Q!IInv => Q!MqueueForgetsNothing
  BY DEF Q!IInv
<1>2. QED
  BY <1>1, QueueInvariant, PTL

(* A message is overtaken only by one of a higher priority, unless it met  *)
(* a full queue, and that also across restarts of the acceptor.            *)
THEOREM MqueueOrderAlways ==
    ASSUME Q!PosixMqueueAssumption PROVE Q!Spec => []Q!MqueueOrder
  BY ReceivedInOrder, QueueInvariant, PTL
=============================================================================
