------------------------ MODULE AsioConnection_proofs ------------------------
(***************************************************************************)
(* Proofs about the connections over a network, for any messages of any    *)
(* sizes and priorities, blocks of any size, any number of peers and       *)
(* connections that are lost any number of times: no message is forgotten  *)
(* between the queue of the sender and the handler of the peer, and a      *)
(* stream connection is a channel.  And how connections come about, for    *)
(* any scenario: each of them has one place.                               *)
(***************************************************************************)
EXTENDS AsioConnection, AsioConnect, SequenceTheorems, FunctionTheorems, FiniteSetTheorems,
        WellFoundedInduction, TLAPS

-----------------------------------------------------------------------------
(* Numbers, and functions that are defined step by step.                   *)

LEMMA LeastNumber ==
  ASSUME NEW S \in SUBSET Nat, S # {}
  PROVE  \E x \in S : \A y \in S : x <= y
<1>1. PICK x \in S : \A y \in S : ~(<<y, x>> \in OpToRel(<, Nat))
  BY NatLessThanWellFounded, WFMin
<1>2. OpToRel(<, Nat) = {ss \in Nat \X Nat : ss[1] < ss[2]}
  BY DEF OpToRel
<1>3. ASSUME NEW y \in S PROVE x <= y
  <2>1. ~(y < x)
    BY <1>1, <1>2
  <2>2. QED
    BY <2>1
<1>4. QED
  BY <1>3

LEMMA UpTo ==
  ASSUME NEW N \in Nat, NEW T, 0 \in T,
         \A i \in 1 .. N : i - 1 \in T => i \in T
  PROVE  \A i \in 0 .. N : i \in T
<1> DEFINE S == (0 .. N) \ T
<1>1. SUFFICES ASSUME S # {} PROVE FALSE
  OBVIOUS
<1>2. PICK x \in S : \A y \in S : x <= y
  <2>1. S \in SUBSET Nat
    OBVIOUS
  <2> HIDE DEF S
  <2>2. QED
    BY <1>1, <2>1, LeastNumber
<1>3. x \in 1 .. N /\ x \notin T /\ x - 1 \in 0 .. N /\ ~(x <= x - 1)
  OBVIOUS
<1>4. x - 1 \in T
  BY <1>2, <1>3
<1>5. QED
  BY <1>3, <1>4

(* The functions on 0 .. N whose values come from first by the steps of F. *)
Stepwise(N, S, first, F) ==
    {f \in [0 .. N -> S] : f[0] = first /\ \A i \in 1 .. N : f[i] = F[<<i, f[i - 1]>>]}

LEMMA StepByStep ==
  ASSUME NEW N \in Nat, NEW S, NEW first \in S, NEW F \in [(1 .. N) \X S -> S]
  PROVE  Stepwise(N, S, first, F) # {}
<1> DEFINE Upto(k) == Stepwise(k, S, first, F)
           T == {k \in 0 .. N : Upto(k) # {}}
<1>1. 0 \in T
  <2> DEFINE f == [i \in 0 .. 0 |-> first]
  <2>1. f \in [0 .. 0 -> S] /\ f[0] = first /\ 1 .. 0 = {}
    OBVIOUS
  <2>2. f \in Upto(0)
    <3> HIDE DEF f
    <3>1. QED
      BY <2>1 DEF Stepwise
  <2>3. QED
    BY <2>2
<1>2. ASSUME NEW k \in 1 .. N, k - 1 \in T PROVE k \in T
  <2>1. PICK f : f \in Upto(k - 1)
    BY <1>2
  <2>2. /\ f \in [0 .. k - 1 -> S] /\ f[0] = first
        /\ \A i \in 1 .. k - 1 : f[i] = F[<<i, f[i - 1]>>]
    BY <2>1 DEF Stepwise
  <2> DEFINE g == [i \in 0 .. k |-> IF i = k THEN F[<<k, f[k - 1]>>] ELSE f[i]]
  <2>3. F[<<k, f[k - 1]>>] \in S
    <3>1. <<k, f[k - 1]>> \in (1 .. N) \X S
      BY <2>2
    <3>2. QED
      BY <3>1
  <2>4. /\ \A i \in 0 .. k - 1 : i \in 0 .. k /\ i # k /\ g[i] = f[i]
        /\ \A i \in 0 .. k : i = k \/ i \in 0 .. k - 1
        /\ g[k] = F[<<k, f[k - 1]>>]
    OBVIOUS
  <2>5. g \in [0 .. k -> S]
    BY <2>2, <2>3
  <2> HIDE DEF g
  <2>6. g[0] = first
    BY <2>2, <2>4
  <2>7. ASSUME NEW i \in 1 .. k PROVE g[i] = F[<<i, g[i - 1]>>]
    <3>1. i - 1 \in 0 .. k - 1 /\ g[i - 1] = f[i - 1]
      BY <2>4
    <3>2. CASE i = k
      BY <2>4, <3>1, <3>2
    <3>3. CASE i # k
      <4>1. i \in 1 .. k - 1 /\ i \in 0 .. k - 1
        BY <3>3
      <4>2. QED
        BY <2>2, <2>4, <3>1, <4>1
    <3>4. QED
      BY <3>2, <3>3
  <2>8. g \in Upto(k)
    BY <2>5, <2>6, <2>7 DEF Stepwise
  <2>9. QED
    BY <2>8
<1>3. N \in T
  <2> HIDE DEF T
  <2>1. \A i \in 0 .. N : i \in T
    BY <1>1, <1>2, UpTo
  <2>2. QED
    BY <2>1
<1>4. QED
  BY <1>3

-----------------------------------------------------------------------------
(* What is picked from a queue.                                            *)

LEMMA PickDefined ==
  ASSUME NEW queue \in Seq(Msgs), NEW bits
  PROVE  \E pick \in [0 .. Len(queue) -> Seq(Msgs)] :
            /\ Picked(queue, bits) = pick[Len(queue)]
            /\ pick[0] = <<>>
            /\ \A i \in 1 .. Len(queue) :
                  pick[i] = IF i \in bits THEN Append(pick[i - 1], queue[i]) ELSE pick[i - 1]
<1> DEFINE N == Len(queue)
           S == Seq(Msgs)
           Eqn(f) == f = [i \in 0 .. N |-> IF i = 0 THEN <<>>
                                           ELSE IF i \in bits THEN Append(f[i - 1], queue[i])
                                           ELSE f[i - 1]]
           F == [z \in (1 .. N) \X S |-> IF z[1] \in bits THEN Append(z[2], queue[z[1]]) ELSE z[2]]
<1>1. N \in Nat /\ <<>> \in S /\ \A i \in 1 .. N : queue[i] \in Msgs
  OBVIOUS
<1>2. F \in [(1 .. N) \X S -> S]
  BY <1>1, AppendProperties
<1>3. PICK f \in [0 .. N -> S] : f[0] = <<>> /\ \A i \in 1 .. N : f[i] = F[<<i, f[i - 1]>>]
  <2> DEFINE first == <<>>
  <2>1. N \in Nat /\ first \in S
    BY <1>1
  <2>2. Stepwise(N, S, first, F) # {}
    <3> HIDE DEF F, S, N, first
    <3>1. QED
      BY <1>2, <2>1, StepByStep
  <2>3. QED
    <3> HIDE DEF F, S, N
    <3>1. QED
      BY <2>2 DEF Stepwise
<1>4. \A i \in 1 .. N : f[i] = IF i \in bits THEN Append(f[i - 1], queue[i]) ELSE f[i - 1]
  <2>1. SUFFICES ASSUME NEW i \in 1 .. N
                 PROVE  f[i] = IF i \in bits THEN Append(f[i - 1], queue[i]) ELSE f[i - 1]
    OBVIOUS
  <2>2. <<i, f[i - 1]>> \in (1 .. N) \X S
    <3>1. i - 1 \in 0 .. N
      BY <1>1
    <3>2. f[i - 1] \in S
      BY <3>1
    <3>3. QED
      BY <3>2
  <2>3. QED
    BY <1>3, <2>2
<1>5. Eqn(f)
  <2> DEFINE g == [i \in 0 .. N |-> IF i = 0 THEN <<>>
                                    ELSE IF i \in bits THEN Append(f[i - 1], queue[i])
                                    ELSE f[i - 1]]
  <2>1. ASSUME NEW i \in 0 .. N PROVE f[i] = g[i]
    <3>1. CASE i = 0
      BY <1>3, <3>1
    <3>2. CASE i \in 1 .. N
      <4>1. g[i] = IF i \in bits THEN Append(f[i - 1], queue[i]) ELSE f[i - 1]
        BY <3>2
      <4>2. QED
        BY <1>4, <3>2, <4>1
    <3>3. QED
      BY <1>1, <3>1, <3>2
  <2>2. DOMAIN f = 0 .. N /\ DOMAIN g = 0 .. N
    OBVIOUS
  <2>3. f = g
    <3>1. f = [i \in 0 .. N |-> f[i]] /\ g = [i \in 0 .. N |-> g[i]]
      OBVIOUS
    <3> HIDE DEF g
    <3>2. QED
      BY <2>1, <3>1
  <2>4. QED
    BY <2>3
<1> DEFINE pick == CHOOSE h : Eqn(h)
<1>6. Picked(queue, bits) = pick[N]
  BY DEF Picked
<1>7. Eqn(pick)
  <2> HIDE DEF Eqn
  <2>1. QED
    BY <1>5
<1> HIDE DEF pick
<1>8. /\ DOMAIN pick = 0 .. N /\ pick[0] = <<>>
      /\ \A i \in 1 .. N : pick[i] = IF i \in bits THEN Append(pick[i - 1], queue[i]) ELSE pick[i - 1]
      /\ pick = [i \in 0 .. N |-> pick[i]]
  <2>1. 0 \in 0 .. N /\ \A i \in 1 .. N : i \in 0 .. N /\ i # 0
    BY <1>1
  <2> DEFINE g == [i \in 0 .. N |-> IF i = 0 THEN <<>>
                                    ELSE IF i \in bits THEN Append(pick[i - 1], queue[i])
                                    ELSE pick[i - 1]]
  <2>2. /\ DOMAIN g = 0 .. N /\ g[0] = <<>>
        /\ \A i \in 1 .. N : g[i] = IF i \in bits THEN Append(pick[i - 1], queue[i]) ELSE pick[i - 1]
        /\ g = [i \in 0 .. N |-> g[i]]
    BY <2>1
  <2>3. pick = g
    BY <1>7
  <2> HIDE DEF g
  <2>4. QED
    BY <2>2, <2>3
<1>9. \A i \in 0 .. N : pick[i] \in S
  <2> DEFINE T == {i \in 0 .. N : pick[i] \in S}
  <2>0. \A s \in S, i \in 1 .. N : Append(s, queue[i]) \in S
    BY <1>1, AppendProperties
  <2> HIDE DEF S, N
  <2>1. 0 \in T
    BY <1>1, <1>8
  <2>2. ASSUME NEW i \in 1 .. N, i - 1 \in T PROVE i \in T
    <3>1. pick[i - 1] \in S /\ i \in 0 .. N
      BY <1>1, <2>2
    <3>2. pick[i] = IF i \in bits THEN Append(pick[i - 1], queue[i]) ELSE pick[i - 1]
      BY <1>8
    <3>3. pick[i] \in S
      BY <2>0, <3>1, <3>2
    <3>4. QED
      BY <3>1, <3>3
  <2>3. \A i \in 0 .. N : i \in T
    <3> HIDE DEF T
    <3>1. QED
      BY <1>1, <2>1, <2>2, UpTo
  <2>4. QED
    BY <2>3
<1>10. pick \in [0 .. N -> S]
  BY <1>8, <1>9
<1>11. QED
  BY <1>6, <1>8, <1>10

(* What is picked are the messages at these positions, in this order.      *)
LEMMA PickedFacts ==
  ASSUME NEW queue \in Seq(Msgs), NEW bits
  PROVE  /\ Picked(queue, bits) \in Seq(Msgs)
         /\ In(Picked(queue, bits)) = {queue[j] : j \in bits \cap (1 .. Len(queue))}
         /\ \A x, y \in 1 .. Len(Picked(queue, bits)) : x < y =>
               \E i, j \in bits \cap (1 .. Len(queue)) :
                  i < j /\ Picked(queue, bits)[x] = queue[i] /\ Picked(queue, bits)[y] = queue[j]
<1>1. PICK pick \in [0 .. Len(queue) -> Seq(Msgs)] :
         /\ Picked(queue, bits) = pick[Len(queue)]
         /\ pick[0] = <<>>
         /\ \A i \in 1 .. Len(queue) :
               pick[i] = IF i \in bits THEN Append(pick[i - 1], queue[i]) ELSE pick[i - 1]
  BY PickDefined
<1> DEFINE Right(s, B) ==
             /\ In(s) = {queue[j] : j \in B}
             /\ \A x, y \in 1 .. Len(s) : x < y =>
                   \E i, j \in B : i < j /\ s[x] = queue[i] /\ s[y] = queue[j]
           T == {k \in 0 .. Len(queue) : Right(pick[k], bits \cap (1 .. k))}
<1>2. 0 \in T
  <2>1. Right(<<>>, {})
    BY DEF In
  <2>2. bits \cap (1 .. 0) = {} /\ 0 \in 0 .. Len(queue)
    OBVIOUS
  <2> HIDE DEF Right
  <2>3. QED
    BY <1>1, <2>1, <2>2
<1>3. ASSUME NEW k \in 1 .. Len(queue), k - 1 \in T PROVE k \in T
  <2> DEFINE s == pick[k - 1]
             t == pick[k]
  <2>1. /\ k - 1 \in 0 .. Len(queue) /\ s \in Seq(Msgs) /\ Right(s, bits \cap (1 .. k - 1))
        /\ t = IF k \in bits THEN Append(s, queue[k]) ELSE s
        /\ queue[k] \in Msgs /\ k \in 0 .. Len(queue)
    <3> HIDE DEF Right
    <3>1. k - 1 \in 0 .. Len(queue) /\ queue[k] \in Msgs /\ k \in 0 .. Len(queue)
      OBVIOUS
    <3>2. QED
      BY <1>1, <1>3, <3>1
  <2> HIDE DEF s, t
  <2>2. CASE k \notin bits
    <3>1. bits \cap (1 .. k) = bits \cap (1 .. k - 1)
      BY <2>2
    <3> HIDE DEF Right
    <3>2. Right(t, bits \cap (1 .. k))
      BY <2>1, <2>2, <3>1
    <3>3. QED
      BY <2>1, <3>2 DEF t
  <2>3. CASE k \in bits
    <3>1. /\ Len(s) \in Nat /\ Len(t) = Len(s) + 1 /\ t[Len(s) + 1] = queue[k]
          /\ \A i \in 1 .. Len(s) : t[i] = s[i]
      BY <2>1, <2>3
    <3>2. bits \cap (1 .. k) = (bits \cap (1 .. k - 1)) \cup {k}
      BY <2>3
    <3>3. In(t) = {queue[j] : j \in bits \cap (1 .. k)}
      <4>1. In(t) = In(s) \cup {queue[k]}
        <5>1. \A i \in 1 .. Len(t) : t[i] \in In(s) \cup {queue[k]}
          BY <3>1 DEF In
        <5>2. \A i \in 1 .. Len(s) : s[i] \in In(t)
          BY <3>1 DEF In
        <5>3. queue[k] \in In(t)
          <6>1. Len(t) \in 1 .. Len(t) /\ t[Len(t)] = queue[k]
            BY <3>1
          <6>2. QED
            BY <6>1 DEF In
        <5>4. QED
          BY <5>1, <5>2, <5>3 DEF In
      <4>2. QED
        BY <2>1, <3>2, <4>1
    <3>4. ASSUME NEW x \in 1 .. Len(t), NEW y \in 1 .. Len(t), x < y
          PROVE  \E i, j \in bits \cap (1 .. k) : i < j /\ t[x] = queue[i] /\ t[y] = queue[j]
      <4>1. x \in 1 .. Len(s) /\ t[x] = s[x]
        BY <3>1, <3>4
      <4>2. CASE y \in 1 .. Len(s)
        <5>1. t[y] = s[y]
          BY <3>1, <4>2
        <5>2. PICK i \in bits \cap (1 .. k - 1), j \in bits \cap (1 .. k - 1) :
                 i < j /\ s[x] = queue[i] /\ s[y] = queue[j]
          BY <2>1, <3>4, <4>1, <4>2
        <5>3. QED
          BY <3>2, <4>1, <5>1, <5>2
      <4>3. CASE y = Len(s) + 1
        <5>1. s[x] \in In(s)
          BY <4>1 DEF In
        <5>2. PICK i \in bits \cap (1 .. k - 1) : s[x] = queue[i]
          BY <2>1, <5>1
        <5>3. i \in Int /\ i < k /\ k \in bits \cap (1 .. k)
          BY <3>2
        <5>4. QED
          BY <3>1, <3>2, <4>1, <4>3, <5>2, <5>3
      <4>4. QED
        BY <3>1, <4>2, <4>3
    <3>5. Right(t, bits \cap (1 .. k))
      BY <3>3, <3>4
    <3> HIDE DEF Right
    <3>6. QED
      BY <2>1, <3>5 DEF t
  <2>4. QED
    BY <2>2, <2>3
<1>4. Len(queue) \in Nat
  OBVIOUS
<1>5. \A k \in 0 .. Len(queue) : k \in T
  <2> HIDE DEF T
  <2>1. QED
    BY <1>2, <1>3, <1>4, UpTo
<1>6. Right(pick[Len(queue)], bits \cap (1 .. Len(queue))) /\ pick[Len(queue)] \in Seq(Msgs)
  <2> HIDE DEF Right
  <2>1. QED
    BY <1>4, <1>5
<1>7. QED
  BY <1>1, <1>6

(* A message at the end of the queue changes nothing of what is picked     *)
(* before it.                                                              *)
LEMMA PickedBefore ==
  ASSUME NEW queue \in Seq(Msgs), NEW m \in Msgs, NEW bits \in SUBSET (1 .. Len(queue))
  PROVE  Picked(Append(queue, m), bits) = Picked(queue, bits)
<1> DEFINE longer == Append(queue, m)
           N == Len(queue)
<1>1. /\ longer \in Seq(Msgs) /\ Len(longer) = N + 1 /\ N \in Nat
      /\ \A i \in 1 .. N : longer[i] = queue[i]
      /\ N + 1 \notin bits
  BY AppendProperties
<1> HIDE DEF longer
<1>2. PICK p \in [0 .. N -> Seq(Msgs)] :
         /\ Picked(queue, bits) = p[N]
         /\ p[0] = <<>>
         /\ \A i \in 1 .. N : p[i] = IF i \in bits THEN Append(p[i - 1], queue[i]) ELSE p[i - 1]
  BY PickDefined
<1>3. PICK q \in [0 .. N + 1 -> Seq(Msgs)] :
         /\ Picked(longer, bits) = q[N + 1]
         /\ q[0] = <<>>
         /\ \A i \in 1 .. N + 1 : q[i] = IF i \in bits THEN Append(q[i - 1], longer[i]) ELSE q[i - 1]
  <2>1. PICK q \in [0 .. Len(longer) -> Seq(Msgs)] :
           /\ Picked(longer, bits) = q[Len(longer)]
           /\ q[0] = <<>>
           /\ \A i \in 1 .. Len(longer) :
                 q[i] = IF i \in bits THEN Append(q[i - 1], longer[i]) ELSE q[i - 1]
    <3>1. longer \in Seq(Msgs)
      BY <1>1
    <3>2. QED
      BY <3>1, PickDefined
  <2>2. QED
    BY <1>1, <2>1
<1> DEFINE T == {k \in 0 .. N : p[k] = q[k]}
<1>4. 0 \in T
  BY <1>1, <1>2, <1>3
<1>5. ASSUME NEW k \in 1 .. N, k - 1 \in T PROVE k \in T
  <2>1. k \in 1 .. N + 1 /\ p[k - 1] = q[k - 1] /\ longer[k] = queue[k] /\ k \in 0 .. N
    BY <1>1, <1>5
  <2>2. p[k] = IF k \in bits THEN Append(p[k - 1], queue[k]) ELSE p[k - 1]
    BY <1>2
  <2>3. q[k] = IF k \in bits THEN Append(q[k - 1], longer[k]) ELSE q[k - 1]
    BY <1>3, <2>1
  <2>4. p[k] = q[k]
    BY <2>1, <2>2, <2>3
  <2>5. QED
    BY <2>1, <2>4
<1>6. N \in T
  <2>1. \A k \in 0 .. N : k \in T
    <3> HIDE DEF T
    <3>1. QED
      BY <1>1, <1>4, <1>5, UpTo
  <2>2. QED
    BY <1>1, <2>1
<1>7. q[N + 1] = q[N]
  <2>1. N + 1 \in 1 .. N + 1 /\ (N + 1) - 1 = N
    BY <1>1
  <2>2. q[N + 1] = q[(N + 1) - 1]
    BY <1>1, <1>3, <2>1
  <2>3. QED
    BY <2>1, <2>2
<1>8. QED
  BY <1>2, <1>3, <1>6, <1>7 DEF longer

-----------------------------------------------------------------------------
(* What is packed into a block.                                            *)

LEMMA RoomDefined ==
  ASSUME NEW queue \in Seq(Msgs)
  PROVE  /\ Room(queue) \in [0 .. Tried(queue) -> Int]
         /\ \A i \in 1 .. Tried(queue) :
               Room(queue)[i] = IF Size[queue[i]] <= Room(queue)[i - 1]
                                THEN Room(queue)[i - 1] - Size[queue[i]]
                                ELSE Room(queue)[i - 1]
<1> DEFINE N == Tried(queue)
           Eqn(f) == f = [i \in 0 .. N |-> IF i = 0 THEN Block
                                           ELSE IF Size[queue[i]] <= f[i - 1]
                                           THEN f[i - 1] - Size[queue[i]]
                                           ELSE f[i - 1]]
           F == [z \in (1 .. N) \X Int |-> IF Size[queue[z[1]]] <= z[2] THEN z[2] - Size[queue[z[1]]]
                                           ELSE z[2]]
<1>1. /\ N \in Nat /\ Block \in Int
      /\ \A i \in 1 .. N : queue[i] \in Msgs /\ Size[queue[i]] \in Int
  BY AsioConnectionAssumption DEF Tried
<1>2. F \in [(1 .. N) \X Int -> Int]
  BY <1>1
<1>3. PICK f \in [0 .. N -> Int] : f[0] = Block /\ \A i \in 1 .. N : f[i] = F[<<i, f[i - 1]>>]
  <2> HIDE DEF F, N
  <2>1. Stepwise(N, Int, Block, F) # {}
    BY <1>1, <1>2, StepByStep
  <2>2. QED
    BY <2>1 DEF Stepwise
<1>4. \A i \in 1 .. N : f[i] = IF Size[queue[i]] <= f[i - 1] THEN f[i - 1] - Size[queue[i]]
                               ELSE f[i - 1]
  <2>1. SUFFICES ASSUME NEW i \in 1 .. N
                 PROVE  f[i] = IF Size[queue[i]] <= f[i - 1] THEN f[i - 1] - Size[queue[i]]
                               ELSE f[i - 1]
    OBVIOUS
  <2>2. <<i, f[i - 1]>> \in (1 .. N) \X Int
    <3>1. i - 1 \in 0 .. N
      BY <1>1
    <3>2. f[i - 1] \in Int
      BY <3>1
    <3>3. QED
      BY <3>2
  <2>3. QED
    BY <1>3, <2>2
<1>5. Eqn(f)
  <2> DEFINE g == [i \in 0 .. N |-> IF i = 0 THEN Block
                                    ELSE IF Size[queue[i]] <= f[i - 1] THEN f[i - 1] - Size[queue[i]]
                                    ELSE f[i - 1]]
  <2>1. ASSUME NEW i \in 0 .. N PROVE f[i] = g[i]
    <3>1. CASE i = 0
      BY <1>3, <3>1
    <3>2. CASE i \in 1 .. N
      <4>1. g[i] = IF Size[queue[i]] <= f[i - 1] THEN f[i - 1] - Size[queue[i]] ELSE f[i - 1]
        BY <3>2
      <4>2. QED
        BY <1>4, <3>2, <4>1
    <3>3. QED
      BY <1>1, <3>1, <3>2
  <2>2. f = g
    <3>1. f = [i \in 0 .. N |-> f[i]] /\ g = [i \in 0 .. N |-> g[i]]
      OBVIOUS
    <3> HIDE DEF g
    <3>2. QED
      BY <2>1, <3>1
  <2>3. QED
    BY <2>2
<1> DEFINE room == CHOOSE h : Eqn(h)
<1>6. Room(queue) = room
  BY DEF Room
<1>7. Eqn(room)
  <2> HIDE DEF Eqn
  <2>1. QED
    BY <1>5
<1> HIDE DEF room
<1>8. /\ room = [i \in 0 .. N |-> room[i]] /\ room[0] = Block
      /\ \A i \in 1 .. N : room[i] = IF Size[queue[i]] <= room[i - 1]
                                     THEN room[i - 1] - Size[queue[i]]
                                     ELSE room[i - 1]
  <2>1. 0 \in 0 .. N /\ \A i \in 1 .. N : i \in 0 .. N /\ i # 0
    BY <1>1
  <2> DEFINE g == [i \in 0 .. N |-> IF i = 0 THEN Block
                                    ELSE IF Size[queue[i]] <= room[i - 1]
                                    THEN room[i - 1] - Size[queue[i]]
                                    ELSE room[i - 1]]
  <2>2. /\ g[0] = Block
        /\ \A i \in 1 .. N : g[i] = IF Size[queue[i]] <= room[i - 1]
                                    THEN room[i - 1] - Size[queue[i]]
                                    ELSE room[i - 1]
        /\ g = [i \in 0 .. N |-> g[i]]
    BY <2>1
  <2>3. room = g
    BY <1>7
  <2> HIDE DEF g
  <2>4. QED
    BY <2>2, <2>3
<1>9. \A i \in 0 .. N : room[i] \in Int
  <2> DEFINE T == {i \in 0 .. N : room[i] \in Int}
  <2> HIDE DEF N
  <2>1. 0 \in T
    BY <1>1, <1>8
  <2>2. ASSUME NEW i \in 1 .. N, i - 1 \in T PROVE i \in T
    <3>1. room[i - 1] \in Int /\ i \in 0 .. N /\ Size[queue[i]] \in Int
      BY <1>1, <2>2
    <3>2. room[i] = IF Size[queue[i]] <= room[i - 1] THEN room[i - 1] - Size[queue[i]]
                    ELSE room[i - 1]
      BY <1>8
    <3>3. room[i] \in Int
      BY <3>1, <3>2
    <3>4. QED
      BY <3>1, <3>3
  <2>3. \A i \in 0 .. N : i \in T
    <3> HIDE DEF T
    <3>1. QED
      BY <1>1, <2>1, <2>2, UpTo
  <2>4. QED
    BY <2>3
<1>10. QED
  BY <1>6, <1>8, <1>9

(* The room only becomes less.                                             *)
LEMMA RoomShrinks ==
  ASSUME NEW queue \in Seq(Msgs), NEW j \in 0 .. Tried(queue), NEW i \in 0 .. j
  PROVE  Room(queue)[j] <= Room(queue)[i]
<1> DEFINE N == Tried(queue)
           T == {k \in 0 .. N : \A h \in 0 .. k : Room(queue)[k] <= Room(queue)[h]}
<1>1. N \in Nat /\ \A k \in 1 .. N : queue[k] \in Msgs /\ Size[queue[k]] \in Nat
  BY AsioConnectionAssumption DEF Tried
<1>2. /\ \A k \in 0 .. N : Room(queue)[k] \in Int
      /\ \A k \in 1 .. N : Room(queue)[k] <= Room(queue)[k - 1]
  <2>1. \A k \in 0 .. N : Room(queue)[k] \in Int
    BY RoomDefined
  <2>2. ASSUME NEW k \in 1 .. N PROVE Room(queue)[k] <= Room(queue)[k - 1]
    <3>1. k - 1 \in 0 .. N /\ Size[queue[k]] \in Nat
      BY <1>1
    <3>2. Room(queue)[k - 1] \in Int
      BY <2>1, <3>1
    <3>3. Room(queue)[k] = IF Size[queue[k]] <= Room(queue)[k - 1]
                           THEN Room(queue)[k - 1] - Size[queue[k]]
                           ELSE Room(queue)[k - 1]
      BY RoomDefined
    <3>4. QED
      BY <3>1, <3>2, <3>3
  <2>3. QED
    BY <2>1, <2>2
<1> HIDE DEF N
<1>3. 0 \in T
  BY <1>1, <1>2
<1>4. ASSUME NEW k \in 1 .. N, k - 1 \in T PROVE k \in T
  <2>1. SUFFICES ASSUME NEW h \in 0 .. k PROVE Room(queue)[k] <= Room(queue)[h]
    BY <1>1
  <2>2. CASE h = k
    BY <1>1, <1>2, <2>2
  <2>3. CASE h \in 0 .. k - 1
    <3>1. Room(queue)[k - 1] <= Room(queue)[h] /\ Room(queue)[k] <= Room(queue)[k - 1]
      BY <1>2, <1>4, <2>3
    <3>2. /\ Room(queue)[k] \in Int /\ Room(queue)[k - 1] \in Int /\ Room(queue)[h] \in Int
      BY <1>1, <1>2, <2>3
    <3>3. QED
      BY <3>1, <3>2
  <2>4. QED
    BY <2>2, <2>3
<1>5. j \in T
  <2>1. \A k \in 0 .. N : k \in T
    <3> HIDE DEF T
    <3>1. QED
      BY <1>1, <1>3, <1>4, UpTo
  <2>2. QED
    BY <2>1 DEF N
<1>6. QED
  BY <1>5

(* A message that is packed is smaller than one before it that is not.     *)
LEMMA PackIntoFacts ==
  ASSUME NEW queue \in Seq(Msgs)
  PROVE  /\ PackInto(queue) \in SUBSET (1 .. MaxBits)
         /\ PackInto(queue) \in SUBSET (1 .. Len(queue))
         /\ \A i \in PackInto(queue), j \in (1 .. Len(queue)) \ PackInto(queue) :
               j < i => Size[queue[i]] < Size[queue[j]]
<1>1. /\ Len(queue) \in Nat /\ MaxBits \in Nat /\ Tried(queue) \in Nat
      /\ Tried(queue) <= Len(queue) /\ Tried(queue) <= MaxBits
  BY AsioConnectionAssumption DEF Tried
<1>2. PackInto(queue) \subseteq 1 .. Tried(queue)
  BY DEF PackInto
<1>3. ASSUME NEW i \in PackInto(queue), NEW j \in (1 .. Len(queue)) \ PackInto(queue), j < i
      PROVE  Size[queue[i]] < Size[queue[j]]
  <2>1. /\ i \in 1 .. Tried(queue) /\ j \in 1 .. Tried(queue)
        /\ i - 1 \in 0 .. Tried(queue) /\ j - 1 \in 0 .. i - 1
    BY <1>1, <1>2, <1>3
  <2>2. Size[queue[i]] <= Room(queue)[i - 1] /\ ~(Size[queue[j]] <= Room(queue)[j - 1])
    BY <2>1 DEF PackInto
  <2>3. Room(queue)[i - 1] <= Room(queue)[j - 1]
    BY <2>1, RoomShrinks
  <2>4. Room(queue)[i - 1] \in Int /\ Room(queue)[j - 1] \in Int
    <3>1. j - 1 \in 0 .. Tried(queue)
      BY <1>1, <2>1
    <3>2. QED
      BY <2>1, <3>1, RoomDefined
  <2>5. Size[queue[i]] \in Int /\ Size[queue[j]] \in Int
    BY <1>1, <2>1, AsioConnectionAssumption, SMTT(30)
  <2>6. QED
    BY <2>2, <2>3, <2>4, <2>5
<1>4. QED
  BY <1>1, <1>2, <1>3

LEMMA PeersOfGroup ==
  ASSUME n \in Groups
  PROVE  n \in Nat /\ n > 0 /\ \A p \in 1 .. n : p \in Peers
  BY AsioConnectionAssumption DEF Peers

(* The queue that a socket of many peers packs next.                       *)
LEMMA GroupFacts ==
  ASSUME n \in Groups, index \in 0 .. n, NEW queues \in [Peers -> Seq(Msgs)],
         NEW packed, packed = GroupPackInto(queues)
  PROVE  \/ packed.to = 0 /\ packed.bits = {}
         \/ /\ packed.to \in 1 .. n
            /\ packed.bits = PackInto(queues[packed.to]) /\ packed.bits # {}
<1> DEFINE some == {x \in {[to |-> p, bits |-> PackInto(queues[p])] : p \in 1 .. n} : x.bits # {}}
<1>1. packed = IF some = {} THEN [to |-> 0, bits |-> {}]
               ELSE CHOOSE x \in some : \A y \in some : Turn(x.to) <= Turn(y.to)
  BY DEF GroupPackInto
<1>2. CASE some = {}
  BY <1>1, <1>2
<1>3. CASE some # {}
  <2> DEFINE T == {Turn(x.to) : x \in some}
  <2>1. \A x \in some : /\ x.to \in 1 .. n /\ x.bits = PackInto(queues[x.to]) /\ x.bits # {}
    OBVIOUS
  <2>2. T \in SUBSET Nat /\ T # {}
    <3>1. \A x \in some : Turn(x.to) \in Nat
      <4> HIDE DEF some
      <4>1. QED
        BY <2>1, PeersOfGroup DEF Turn
    <3> HIDE DEF some
    <3>2. QED
      BY <1>3, <3>1
  <2>3. PICK t \in T : \A y \in T : t <= y
    <3> HIDE DEF T
    <3>1. QED
      BY <2>2, LeastNumber
  <2>4. \E x \in some : \A y \in some : Turn(x.to) <= Turn(y.to)
    <3> HIDE DEF some
    <3>1. QED
      BY <2>3
  <2>5. packed \in some
    <3> HIDE DEF some
    <3>1. QED
      BY <1>1, <1>3, <2>4
  <2>6. QED
    BY <2>1, <2>5
<1>4. QED
  BY <1>2, <1>3

LEMMA MaxPriorityFacts ==
  ASSUME NEW ms \in SUBSET Msgs
  PROVE  MaxPriority(ms) \in Idle .. Critical /\ MaxPriority({}) = Idle
<1> DEFINE P == {Priority[m] : m \in ms} \cup {Idle}
           T == {Critical - x : x \in P}
<1>1. \A x \in P : x \in Idle .. Critical
  BY AsioConnectionAssumption DEF Idle, Critical
<1>2. T \in SUBSET Nat /\ T # {}
  <2>1. \A x \in P : Critical - x \in Nat
    <3> HIDE DEF P
    <3>1. QED
      BY <1>1 DEF Idle, Critical
  <2>2. Idle \in P
    OBVIOUS
  <2> HIDE DEF P
  <2>3. QED
    BY <2>1, <2>2
<1>3. PICK t \in T : \A y \in T : t <= y
  <2> HIDE DEF T
  <2>1. QED
    BY <1>2, LeastNumber
<1>4. PICK x \in P : t = Critical - x
  <2> HIDE DEF P
  <2>1. QED
    OBVIOUS
<1>5. \A y \in P : y <= x
  <2> SUFFICES ASSUME NEW y \in P PROVE y <= x
    OBVIOUS
  <2>1. Critical - x <= Critical - y
    <3> HIDE DEF P
    <3>1. QED
      BY <1>3, <1>4
  <2>2. x \in Idle .. Critical /\ y \in Idle .. Critical
    BY <1>1
  <2>3. QED
    BY <2>1, <2>2 DEF Idle, Critical
<1>6. x \in Idle .. Critical /\ x \in P /\ \A m \in ms : Priority[m] <= x
  BY <1>1, <1>5
<1>7. MaxPriority(ms) \in Idle .. Critical
  BY <1>6 DEF MaxPriority
<1>8. MaxPriority({}) = Idle
  <2>1. {Priority[m] : m \in {}} \cup {Idle} = {Idle}
    OBVIOUS
  <2>2. Idle \in Idle .. Critical
    BY DEF Idle, Critical
  <2>3. QED
    BY <2>1, <2>2 DEF MaxPriority
<1>9. QED
  BY <1>7, <1>8

(* What a call of start_send_if_needed leaves: nothing in the buffer, or a *)
(* packed block of the queue of a peer.                                    *)
Blocks(peers) == [to : peers, bits : SUBSET (1 .. MaxBits), msgs : Seq(Msgs), whole : BOOLEAN]

LEMMA NoneFacts ==
  /\ None.to = 0 /\ None.bits = {} /\ None.msgs = <<>> /\ None.whole = FALSE
  /\ None \in Blocks({0})
  BY DEF None, Blocks

LEMMA StartSendFacts ==
  ASSUME n \in Groups, index \in 0 .. n, NEW queues \in [Peers -> Seq(Msgs)],
         NEW force \in BOOLEAN, countdown \in 0 .. Critical, prevCount \in 0 .. MaxBits,
         force => countdown = Critical,
         StartSendIfNeeded(queues, force)
  PROVE  /\ index' \in 0 .. n /\ countdown' \in 0 .. Critical /\ prevCount' \in 0 .. MaxBits
         /\ \/ sending' = FALSE /\ inflight' = None
            \/ /\ sending' = TRUE /\ countdown' = Critical
               /\ inflight' \in Blocks(1 .. n) /\ inflight'.whole = FALSE
               /\ inflight'.bits = PackInto(queues[inflight'.to])
               /\ inflight'.msgs = Picked(queues[inflight'.to], inflight'.bits)
<1> DEFINE Left(count) == countdown - (IF count = prevCount THEN 1 ELSE 0)
           Packed(p) == IF p.to = 0 THEN <<>> ELSE Picked(queues[p.to], p.bits)
<1>1. PICK packed :
         /\ packed = GroupPackInto(queues)
         /\ index' = IF packed.to = 0 \/ Stream THEN index ELSE packed.to
         /\ IF force \/ Cardinality(packed.bits) > 0
            THEN IF \/ Left(Cardinality(packed.bits)) <= MaxPriority(In(Packed(packed)))
                    \/ Cardinality(packed.bits) >= MaxBits
                 THEN /\ prevCount' = 0 /\ countdown' = Critical
                      /\ sending' = TRUE
                      /\ inflight' = [to |-> packed.to, bits |-> packed.bits,
                                      msgs |-> Packed(packed), whole |-> FALSE]
                 ELSE /\ prevCount' = Cardinality(packed.bits)
                      /\ countdown' = Left(Cardinality(packed.bits))
                      /\ sending' = FALSE /\ inflight' = None
            ELSE /\ sending' = FALSE /\ inflight' = None
                 /\ UNCHANGED <<countdown, prevCount>>
  BY DEF StartSendIfNeeded
<1>2. \/ packed.to = 0 /\ packed.bits = {}
      \/ /\ packed.to \in 1 .. n
         /\ packed.bits = PackInto(queues[packed.to]) /\ packed.bits # {}
  BY <1>1, GroupFacts
<1> DEFINE p == packed.to
           bits == packed.bits
           msgs == Packed(packed)
           count == Cardinality(bits)
<1>3. p \in 1 .. n => p \in Peers /\ p # 0 /\ queues[p] \in Seq(Msgs)
  BY PeersOfGroup
<1>4. bits \in SUBSET (1 .. MaxBits) /\ MaxBits \in Nat /\ MaxBits > 0
  BY <1>2, <1>3, PackIntoFacts, AsioConnectionAssumption
<1>5. count \in 0 .. MaxBits /\ (count = 0 <=> bits = {})
  <2>1. IsFiniteSet(1 .. MaxBits) /\ Cardinality(1 .. MaxBits) = MaxBits
    BY <1>4, FS_Interval
  <2>2. IsFiniteSet(bits) /\ count <= MaxBits
    BY <1>4, <2>1, FS_Subset
  <2>3. count \in Nat
    BY <2>2, FS_CardinalityType
  <2>4. QED
    BY <1>4, <2>2, <2>3, FS_EmptySet
<1>6. msgs \in Seq(Msgs) /\ (p = 0 => In(msgs) = {})
  BY <1>2, <1>3, PickedFacts DEF In
<1>7. MaxPriority(In(msgs)) \in 0 .. Critical /\ (p = 0 => MaxPriority(In(msgs)) = 0)
  <2>1. In(msgs) \in SUBSET Msgs
    BY <1>6 DEF In
  <2>2. QED
    BY <1>6, <2>1, MaxPriorityFacts DEF Idle
<1>8. index' \in 0 .. n
  BY <1>1, <1>2, PeersOfGroup
<1> HIDE DEF p, bits, msgs, count, Packed
<1>9. CASE ~(force \/ count > 0)
  BY <1>1, <1>8, <1>9 DEF bits, count
<1>10. CASE /\ force \/ count > 0
            /\ ~(Left(count) <= MaxPriority(In(msgs)) \/ count >= MaxBits)
  <2>1. prevCount' = count /\ countdown' = Left(count) /\ sending' = FALSE /\ inflight' = None
    BY <1>1, <1>10 DEF bits, count, msgs
  <2>2. Left(count) \in 0 .. Critical
    BY <1>5, <1>7, <1>10 DEF Critical
  <2> HIDE DEF Left
  <2>3. QED
    BY <1>5, <1>8, <2>1, <2>2
<1>11. CASE /\ force \/ count > 0
            /\ Left(count) <= MaxPriority(In(msgs)) \/ count >= MaxBits
  <2>1. /\ prevCount' = 0 /\ countdown' = Critical /\ sending' = TRUE
        /\ inflight' = [to |-> p, bits |-> bits, msgs |-> msgs, whole |-> FALSE]
    BY <1>1, <1>11 DEF bits, count, msgs, p
  <2>2. p # 0
    <3>1. SUFFICES ASSUME p = 0 PROVE FALSE
      OBVIOUS
    <3>2. count = 0
      BY <1>2, <1>5, <3>1, PeersOfGroup DEF p, bits
    <3>3. force /\ countdown = Critical /\ Left(count) > 0
      BY <1>11, <3>2 DEF Critical
    <3>4. QED
      BY <1>4, <1>7, <1>11, <3>1, <3>2, <3>3
  <2>3. p \in 1 .. n /\ bits = PackInto(queues[p]) /\ msgs = Picked(queues[p], bits)
    BY <1>2, <2>2 DEF p, bits, msgs, Packed
  <2>4. /\ inflight'.to = p /\ inflight'.bits = bits /\ inflight'.msgs = msgs
        /\ inflight'.whole = FALSE /\ inflight' \in Blocks(1 .. n)
    BY <1>4, <1>6, <2>1, <2>3 DEF Blocks
  <2>5. 0 \in 0 .. MaxBits /\ Critical \in 0 .. Critical
    BY <1>4 DEF Critical
  <2>6. QED
    BY <1>8, <2>1, <2>3, <2>4, <2>5
<1>12. QED
  BY <1>9, <1>10, <1>11

-----------------------------------------------------------------------------
(* The order in which messages may come.                                   *)

(* k was accepted before m, in the log l.                                  *)
Earlier(l, k, m) == \E i, j \in 1 .. Len(l) : i < j /\ l[i] = k /\ l[j] = m

(* k may come after x: if k was accepted earlier, it is larger.            *)
Fine(l, x, k) == x # k /\ (Earlier(l, k, x) => Size[x] < Size[k])
Tidy(l, s) == \A i, j \in 1 .. Len(s) : i < j => Fine(l, s[i], s[j])
After(l, S, T) == \A x \in S, k \in T : Fine(l, x, k)

(* The messages s that have arrived, and the blocks w that will.           *)
LineOK(l, s, w) ==
    /\ Tidy(l, s)
    /\ \A i \in 1 .. Len(w) : Tidy(l, w[i]) /\ After(l, In(s), In(w[i]))
    /\ \A i, j \in 1 .. Len(w) : i < j => After(l, In(w[i]), In(w[j]))

LEMMA InFacts ==
  ASSUME NEW S, NEW s \in Seq(S)
  PROVE  /\ In(s) \in SUBSET S /\ \A i \in 1 .. Len(s) : s[i] \in In(s)
         /\ \A x \in In(s) : \E i \in 1 .. Len(s) : x = s[i]
  BY DEF In

LEMMA InConcat ==
  ASSUME NEW S, NEW s \in Seq(S), NEW t \in Seq(S)
  PROVE  In(s \o t) = In(s) \cup In(t)
<1>1. /\ Len(s) \in Nat /\ Len(t) \in Nat /\ Len(s \o t) = Len(s) + Len(t)
      /\ \A i \in 1 .. Len(s) : (s \o t)[i] = s[i]
      /\ \A i \in 1 .. Len(t) : (s \o t)[Len(s) + i] = t[i]
  BY ConcatProperties, LenProperties
<1>2. ASSUME NEW x \in In(s \o t) PROVE x \in In(s) \cup In(t)
  <2>1. PICK i \in 1 .. Len(s) + Len(t) : x = (s \o t)[i]
    BY <1>1 DEF In
  <2>2. CASE i \in 1 .. Len(s)
    BY <1>1, <2>1, <2>2 DEF In
  <2>3. CASE i - Len(s) \in 1 .. Len(t)
    <3>1. Len(s) + (i - Len(s)) = i
      BY <1>1
    <3>2. x = t[i - Len(s)]
      BY <1>1, <2>1, <2>3, <3>1
    <3>3. QED
      BY <2>3, <3>2 DEF In
  <2>4. QED
    BY <1>1, <2>2, <2>3
<1>3. ASSUME NEW x \in In(s) PROVE x \in In(s \o t)
  <2>1. PICK i \in 1 .. Len(s) : x = s[i]
    BY DEF In
  <2>2. i \in 1 .. Len(s \o t) /\ x = (s \o t)[i]
    BY <1>1, <2>1
  <2>3. QED
    BY <2>2 DEF In
<1>4. ASSUME NEW x \in In(t) PROVE x \in In(s \o t)
  <2>1. PICK i \in 1 .. Len(t) : x = t[i]
    BY DEF In
  <2>2. Len(s) + i \in 1 .. Len(s \o t) /\ x = (s \o t)[Len(s) + i]
    BY <1>1, <2>1
  <2>3. QED
    BY <2>2 DEF In
<1>5. QED
  BY <1>2, <1>3, <1>4

LEMMA InAppend ==
  ASSUME NEW S, NEW s \in Seq(S), NEW x \in S
  PROVE  In(Append(s, x)) = In(s) \cup {x}
<1>1. /\ Len(s) \in Nat /\ Len(Append(s, x)) = Len(s) + 1 /\ Append(s, x)[Len(s) + 1] = x
      /\ \A i \in 1 .. Len(s) : Append(s, x)[i] = s[i]
  BY AppendProperties
<1>2. \A i \in 1 .. Len(Append(s, x)) : Append(s, x)[i] \in In(s) \cup {x}
  BY <1>1 DEF In
<1>3. \A i \in 1 .. Len(s) : i \in 1 .. Len(Append(s, x)) /\ s[i] = Append(s, x)[i]
  BY <1>1
<1>4. Len(s) + 1 \in 1 .. Len(Append(s, x))
  BY <1>1
<1>5. QED
  BY <1>1, <1>2, <1>3, <1>4 DEF In

LEMMA TidyConcat ==
  ASSUME NEW l, NEW S, NEW s \in Seq(S), NEW t \in Seq(S),
         Tidy(l, s), Tidy(l, t), After(l, In(s), In(t))
  PROVE  Tidy(l, s \o t)
<1>1. /\ Len(s) \in Nat /\ Len(t) \in Nat /\ Len(s \o t) = Len(s) + Len(t)
      /\ \A i \in 1 .. Len(s) : (s \o t)[i] = s[i]
      /\ \A i \in 1 .. Len(s) + Len(t) : i > Len(s) => (s \o t)[i] = t[i - Len(s)]
  BY ConcatProperties, LenProperties
<1> SUFFICES ASSUME NEW i \in 1 .. Len(s \o t), NEW j \in 1 .. Len(s \o t), i < j
             PROVE  Fine(l, (s \o t)[i], (s \o t)[j])
  BY DEF Tidy
<1>2. CASE i \in 1 .. Len(s) /\ j \in 1 .. Len(s)
  BY <1>1, <1>2 DEF Tidy
<1>3. CASE i \in 1 .. Len(s) /\ j > Len(s)
  <2>1. j - Len(s) \in 1 .. Len(t) /\ (s \o t)[i] = s[i] /\ (s \o t)[j] = t[j - Len(s)]
    BY <1>1, <1>3
  <2>2. s[i] \in In(s) /\ t[j - Len(s)] \in In(t)
    BY <1>3, <2>1 DEF In
  <2>3. QED
    BY <2>1, <2>2 DEF After
<1>4. CASE i > Len(s) /\ j > Len(s)
  <2>1. /\ i - Len(s) \in 1 .. Len(t) /\ j - Len(s) \in 1 .. Len(t) /\ i - Len(s) < j - Len(s)
        /\ (s \o t)[i] = t[i - Len(s)] /\ (s \o t)[j] = t[j - Len(s)]
    BY <1>1, <1>4
  <2>2. QED
    BY <2>1 DEF Tidy
<1>5. QED
  BY <1>1, <1>2, <1>3, <1>4

LEMMA PartFacts ==
  ASSUME NEW S, NEW s \in Seq(S), NEW k \in 0 .. Len(s)
  PROVE  /\ SubSeq(s, 1, k) \in Seq(S) /\ In(SubSeq(s, 1, k)) \in SUBSET In(s)
         /\ \A l : Tidy(l, s) => Tidy(l, SubSeq(s, 1, k))
<1>1. /\ SubSeq(s, 1, k) \in Seq(S) /\ Len(SubSeq(s, 1, k)) = k
      /\ \A i \in 1 .. k : i \in 1 .. Len(s) /\ SubSeq(s, 1, k)[i] = s[i]
  BY LenProperties, SubSeqProperties
<1>2. QED
  BY <1>1 DEF In, Tidy

(* A block is put on the wire.                                             *)
LEMMA WireAppend ==
  ASSUME NEW w \in Seq(Seq(Msgs)), NEW t \in Seq(Msgs)
  PROVE  OnWire(Append(w, t)) = OnWire(w) \cup In(t)
<1> DEFINE u == Append(w, t)
<1>0. /\ Len(w) \in Nat /\ Len(u) = Len(w) + 1 /\ u[Len(w) + 1] = t
      /\ \A i \in 1 .. Len(w) : u[i] = w[i] /\ i \in 1 .. Len(u)
      /\ \A i \in 1 .. Len(u) : i \in 1 .. Len(w) \/ i = Len(w) + 1
  BY AppendProperties
<1> HIDE DEF u
<1>1. ASSUME NEW x \in OnWire(u) PROVE x \in OnWire(w) \cup In(t)
  <2>1. PICK i \in 1 .. Len(u) : x \in In(u[i])
    BY DEF OnWire
  <2>2. QED
    BY <1>0, <2>1 DEF OnWire
<1>2. ASSUME NEW x \in OnWire(w) PROVE x \in OnWire(u)
  <2>1. PICK i \in 1 .. Len(w) : x \in In(w[i])
    BY DEF OnWire
  <2>2. i \in 1 .. Len(u) /\ x \in In(u[i])
    BY <1>0, <2>1
  <2>3. QED
    BY <2>2 DEF OnWire
<1>3. ASSUME NEW x \in In(t) PROVE x \in OnWire(u)
  <2>1. Len(w) + 1 \in 1 .. Len(u) /\ x \in In(u[Len(w) + 1])
    BY <1>0
  <2>2. QED
    BY <2>1 DEF OnWire
<1>4. QED
  BY <1>1, <1>2, <1>3 DEF u

LEMMA LineAppend ==
  ASSUME NEW l, NEW s, NEW w \in Seq(Seq(Msgs)), NEW t \in Seq(Msgs),
         LineOK(l, s, w), Tidy(l, t), After(l, In(s) \cup OnWire(w), In(t)),
         NEW u, u = Append(w, t)
  PROVE  LineOK(l, s, u)
<1>1. /\ Len(w) \in Nat /\ Len(u) = Len(w) + 1 /\ u[Len(w) + 1] = t
      /\ \A i \in 1 .. Len(w) : u[i] = w[i] /\ i \in 1 .. Len(u)
      /\ \A i \in 1 .. Len(u) : i \in 1 .. Len(w) \/ i = Len(w) + 1
  BY AppendProperties
<1>2. \A i \in 1 .. Len(w) : After(l, In(w[i]), In(t))
  BY DEF After, OnWire
<1>3. After(l, In(s), In(t))
  BY DEF After
<1>4. ASSUME NEW i \in 1 .. Len(u) PROVE Tidy(l, u[i]) /\ After(l, In(s), In(u[i]))
  BY <1>1, <1>3 DEF LineOK
<1>5. ASSUME NEW i \in 1 .. Len(u), NEW j \in 1 .. Len(u), i < j
      PROVE  After(l, In(u[i]), In(u[j]))
  <2>1. i \in 1 .. Len(w) /\ u[i] = w[i]
    BY <1>1, <1>5
  <2>2. CASE j \in 1 .. Len(w)
    BY <1>1, <1>5, <2>1, <2>2 DEF LineOK
  <2>3. CASE j = Len(w) + 1
    BY <1>1, <1>2, <2>1, <2>3
  <2>4. QED
    BY <1>1, <2>2, <2>3
<1>6. QED
  BY <1>4, <1>5 DEF LineOK

(* The first block on the wire has arrived.                                *)
LEMMA LineReceive ==
  ASSUME NEW l, NEW s \in Seq(Msgs), NEW w \in Seq(Seq(Msgs)), w # <<>>,
         LineOK(l, s, w)
  PROVE  /\ LineOK(l, s \o w[1], Tail(w))
         /\ In(s \o w[1]) \cup OnWire(Tail(w)) = In(s) \cup OnWire(w)
<1>1. /\ Len(w) \in Nat /\ Len(w) > 0 /\ Tail(w) \in Seq(Seq(Msgs)) /\ Len(Tail(w)) = Len(w) - 1
      /\ \A i \in 1 .. Len(w) - 1 : Tail(w)[i] = w[i + 1] /\ i + 1 \in 1 .. Len(w)
      /\ 1 \in 1 .. Len(w)
      /\ \A i \in 1 .. Len(w) : i = 1 \/ (i - 1 \in 1 .. Len(w) - 1 /\ (i - 1) + 1 = i)
  BY HeadTailProperties, EmptySeq
<1>2. w[1] \in Seq(Msgs)
  BY <1>1
<1>3. In(s \o w[1]) = In(s) \cup In(w[1])
  BY <1>2, InConcat
<1>4. Tidy(l, s \o w[1])
  BY <1>1, <1>2, TidyConcat DEF LineOK
<1>5. ASSUME NEW i \in 1 .. Len(Tail(w))
      PROVE  Tidy(l, Tail(w)[i]) /\ After(l, In(s \o w[1]), In(Tail(w)[i]))
  <2>1. /\ Tail(w)[i] = w[i + 1] /\ i + 1 \in 1 .. Len(w) /\ 1 < i + 1
    BY <1>1
  <2>2. /\ Tidy(l, w[i + 1]) /\ After(l, In(s), In(w[i + 1]))
        /\ After(l, In(w[1]), In(w[i + 1]))
    BY <1>1, <2>1 DEF LineOK
  <2>3. QED
    BY <1>3, <2>1, <2>2 DEF After
<1>6. ASSUME NEW i \in 1 .. Len(Tail(w)), NEW j \in 1 .. Len(Tail(w)), i < j
      PROVE  After(l, In(Tail(w)[i]), In(Tail(w)[j]))
  <2>1. /\ Tail(w)[i] = w[i + 1] /\ Tail(w)[j] = w[j + 1] /\ i + 1 < j + 1
        /\ i + 1 \in 1 .. Len(w) /\ j + 1 \in 1 .. Len(w)
    BY <1>1, <1>6
  <2>2. QED
    BY <2>1 DEF LineOK
<1>7. OnWire(w) = In(w[1]) \cup OnWire(Tail(w))
  <2>1. ASSUME NEW x \in OnWire(w) PROVE x \in In(w[1]) \cup OnWire(Tail(w))
    <3>1. PICK i \in 1 .. Len(w) : x \in In(w[i])
      BY DEF OnWire
    <3>2. CASE i = 1
      BY <3>1, <3>2
    <3>3. CASE i - 1 \in 1 .. Len(w) - 1
      <4>1. i - 1 \in 1 .. Len(Tail(w)) /\ Tail(w)[i - 1] = w[i]
        BY <1>1, <3>3
      <4>2. QED
        BY <3>1, <4>1 DEF OnWire
    <3>4. QED
      BY <1>1, <3>2, <3>3
  <2>2. ASSUME NEW x \in OnWire(Tail(w)) PROVE x \in OnWire(w)
    <3>1. PICK i \in 1 .. Len(Tail(w)) : x \in In(Tail(w)[i])
      BY DEF OnWire
    <3>2. i + 1 \in 1 .. Len(w) /\ x \in In(w[i + 1])
      BY <1>1, <3>1
    <3>3. QED
      BY <3>2 DEF OnWire
  <2>3. In(w[1]) \subseteq OnWire(w)
    BY <1>1 DEF OnWire
  <2>4. QED
    BY <2>1, <2>2, <2>3
<1>8. QED
  BY <1>3, <1>4, <1>5, <1>6, <1>7 DEF LineOK

LEMMA NoWire ==
  /\ <<>> \in Seq(Seq(Msgs)) /\ OnWire(<<>>) = {}
  /\ \A l, s : LineOK(l, s, <<>>) <=> Tidy(l, s)
  BY DEF OnWire, LineOK

(* The log grows at its end, and the order of what was on it stays.        *)
LEMMA LogAppend ==
  ASSUME NEW l \in Seq(Msgs), NEW m \in Msgs, m \notin In(l)
  PROVE  /\ \A x, k \in In(l) : Fine(Append(l, m), x, k) <=> Fine(l, x, k)
         /\ \A x \in In(l) : Fine(Append(l, m), x, m) /\ Earlier(Append(l, m), x, m)
         /\ \A x, k \in In(l) : Earlier(Append(l, m), x, k) <=> Earlier(l, x, k)
<1> DEFINE g == Append(l, m)
<1>1. /\ Len(l) \in Nat /\ Len(g) = Len(l) + 1 /\ g[Len(l) + 1] = m
      /\ \A i \in 1 .. Len(l) : g[i] = l[i] /\ l[i] # m /\ i \in 1 .. Len(g) /\ i < Len(l) + 1
      /\ \A i \in 1 .. Len(g) : i \in 1 .. Len(l) \/ i = Len(l) + 1
      /\ Len(l) + 1 \in 1 .. Len(g)
  BY AppendProperties DEF In
<1> HIDE DEF g
<1>2. ASSUME NEW x \in In(l), NEW k \in In(l) PROVE Earlier(g, x, k) <=> Earlier(l, x, k)
  <2>1. k # m /\ x # m
    OBVIOUS
  <2>2. ASSUME Earlier(g, x, k) PROVE Earlier(l, x, k)
    <3>1. PICK i \in 1 .. Len(g), j \in 1 .. Len(g) : i < j /\ g[i] = x /\ g[j] = k
      BY <2>2 DEF Earlier
    <3>2. i \in 1 .. Len(l) /\ j \in 1 .. Len(l)
      BY <1>1, <2>1, <3>1
    <3>3. QED
      BY <1>1, <3>1, <3>2 DEF Earlier
  <2>3. ASSUME Earlier(l, x, k) PROVE Earlier(g, x, k)
    BY <1>1, <2>3 DEF Earlier
  <2>4. QED
    BY <2>2, <2>3
<1>3. ASSUME NEW x \in In(l) PROVE Earlier(g, x, m) /\ ~Earlier(g, m, x) /\ x # m
  <2>1. PICK i \in 1 .. Len(l) : x = l[i]
    BY DEF In
  <2>2. Earlier(g, x, m)
    BY <1>1, <2>1 DEF Earlier
  <2>3. ASSUME NEW a \in 1 .. Len(g), NEW b \in 1 .. Len(g), a < b, g[a] = m, g[b] = x
        PROVE  FALSE
    <3>1. b \in 1 .. Len(l)
      BY <1>1, <2>1, <2>3
    <3>2. a \in 1 .. Len(l)
      BY <1>1, <2>3, <3>1
    <3>3. QED
      BY <1>1, <2>3, <3>2
  <2>4. QED
    BY <1>1, <2>1, <2>2, <2>3 DEF Earlier
<1>4. QED
  BY <1>2, <1>3 DEF Fine, g

LEMMA LogAppendKeeps ==
  ASSUME NEW l \in Seq(Msgs), NEW m \in Msgs, m \notin In(l)
  PROVE  /\ \A s : In(s) \subseteq In(l) /\ Tidy(l, s) => Tidy(Append(l, m), s)
         /\ \A S, T \in SUBSET In(l) : After(l, S, T) => After(Append(l, m), S, T)
         /\ \A S \in SUBSET In(l) : After(Append(l, m), S, {m})
<1>1. ASSUME NEW s, In(s) \subseteq In(l), Tidy(l, s)
      PROVE  Tidy(Append(l, m), s)
  <2>1. \A i \in 1 .. Len(s) : s[i] \in In(l)
    BY <1>1 DEF In
  <2>2. QED
    BY <1>1, <2>1, LogAppend DEF Tidy
<1>2. ASSUME NEW S \in SUBSET In(l), NEW T \in SUBSET In(l), After(l, S, T)
      PROVE  After(Append(l, m), S, T)
  <2>1. \A x \in S : x \in In(l)
    OBVIOUS
  <2>2. \A x \in T : x \in In(l)
    OBVIOUS
  <2>3. QED
    BY <1>2, <2>1, <2>2, LogAppend DEF After
<1>3. ASSUME NEW S \in SUBSET In(l) PROVE After(Append(l, m), S, {m})
  BY LogAppend DEF After
<1>4. QED
  BY <1>1, <1>2, <1>3

LEMMA LineLogAppend ==
  ASSUME NEW l \in Seq(Msgs), NEW m \in Msgs, m \notin In(l),
         NEW s, NEW w, In(s) \cup OnWire(w) \subseteq In(l), LineOK(l, s, w)
  PROVE  LineOK(Append(l, m), s, w)
<1>1. In(s) \in SUBSET In(l) /\ \A i \in 1 .. Len(w) : In(w[i]) \in SUBSET In(l)
  BY DEF OnWire
<1>2. Tidy(Append(l, m), s)
  BY <1>1, LogAppendKeeps DEF LineOK
<1>3. \A i \in 1 .. Len(w) : Tidy(Append(l, m), w[i]) /\ After(Append(l, m), In(s), In(w[i]))
  BY <1>1, LogAppendKeeps DEF LineOK
<1>4. \A i, j \in 1 .. Len(w) : i < j => After(Append(l, m), In(w[i]), In(w[j]))
  BY <1>1, LogAppendKeeps DEF LineOK
<1>5. QED
  BY <1>2, <1>3, <1>4 DEF LineOK

-----------------------------------------------------------------------------
(* A stream: the log l of its sender, the queue q, what has arrived s, the *)
(* wire w, the block that is being written if sends, and if it is open.    *)

Once(l) == \A i, j \in 1 .. Len(l) : l[i] = l[j] => i = j
Ordered(l, q) == \A i, j \in 1 .. Len(q) : i < j => Earlier(l, q[i], q[j])

(* What comes later in the queue comes later, but for a larger message     *)
(* that is skipped; a queued message is not under way, or it is in the     *)
(* block that was written and not cleaned up.                              *)
StreamOK(l, q, s, w, sends, block, isOpen) ==
    /\ Once(l) /\ Ordered(l, q) /\ In(q) \subseteq In(l)
    /\ In(s) \cup OnWire(w) \subseteq In(l)
    /\ LineOK(l, s, w)
    /\ After(l, In(s) \cup OnWire(w), In(q) \ (In(s) \cup OnWire(w)))
    /\ sends => /\ Tidy(l, block.msgs)
                /\ After(l, In(block.msgs), In(q) \ In(block.msgs))
    /\ isOpen => In(q) \cap (In(s) \cup OnWire(w)) \subseteq
                    (IF sends /\ block.whole THEN In(block.msgs) ELSE {})

LEMMA EarlierFacts ==
  ASSUME NEW l \in Seq(Msgs), Once(l), NEW k, NEW m, Earlier(l, k, m)
  PROVE  k # m /\ ~Earlier(l, m, k) /\ Fine(l, k, m)
<1>1. PICK i \in 1 .. Len(l), j \in 1 .. Len(l) : i < j /\ l[i] = k /\ l[j] = m
  BY DEF Earlier
<1>2. k # m
  BY <1>1 DEF Once
<1>3. ASSUME NEW a \in 1 .. Len(l), NEW b \in 1 .. Len(l), a < b, l[a] = m, l[b] = k
      PROVE  FALSE
  <2>1. a = j /\ b = i
    BY <1>1, <1>3 DEF Once
  <2>2. QED
    BY <1>1, <1>3, <2>1
<1>4. ~Earlier(l, m, k)
  BY <1>3 DEF Earlier
<1>5. QED
  BY <1>2, <1>4 DEF Fine

(* No two messages of a queue are the same.                                *)
LEMMA OrderedOnce ==
  ASSUME NEW l \in Seq(Msgs), Once(l), NEW q \in Seq(Msgs), Ordered(l, q)
  PROVE  Once(q)
<1> SUFFICES ASSUME NEW i \in 1 .. Len(q), NEW j \in 1 .. Len(q), i # j
             PROVE  q[i] # q[j]
  BY DEF Once
<1>1. CASE i < j
  BY <1>1, EarlierFacts DEF Ordered
<1>2. CASE j < i
  BY <1>2, EarlierFacts DEF Ordered
<1>3. QED
  BY <1>1, <1>2

LEMMA PickedOrdered ==
  ASSUME NEW l, NEW q \in Seq(Msgs), Ordered(l, q), NEW bits
  PROVE  Ordered(l, Picked(q, bits))
<1> DEFINE s == Picked(q, bits)
<1> SUFFICES ASSUME NEW x \in 1 .. Len(s), NEW y \in 1 .. Len(s), x < y
             PROVE  Earlier(l, s[x], s[y])
  BY DEF Ordered
<1>1. PICK i \in bits \cap (1 .. Len(q)), j \in bits \cap (1 .. Len(q)) :
         i < j /\ s[x] = q[i] /\ s[y] = q[j]
  BY PickedFacts, SMTT(30)
<1>2. QED
  BY <1>1 DEF Ordered

LEMMA OrderedTidy ==
  ASSUME NEW l \in Seq(Msgs), Once(l), NEW q \in Seq(Msgs), Ordered(l, q)
  PROVE  Tidy(l, q)
  BY EarlierFacts DEF Ordered, Tidy

(* A packed block: what is skipped may come later.                         *)
LEMMA PackedBlock ==
  ASSUME NEW l \in Seq(Msgs), Once(l), NEW q \in Seq(Msgs), Ordered(l, q),
         NEW s, s = Picked(q, PackInto(q))
  PROVE  Tidy(l, s) /\ After(l, In(s), In(q) \ In(s))
<1>1. s \in Seq(Msgs) /\ Ordered(l, s) /\ In(s) = {q[j] : j \in PackInto(q) \cap (1 .. Len(q))}
  BY PickedFacts, PickedOrdered
<1>2. Tidy(l, s)
  BY <1>1, OrderedTidy
<1>3. ASSUME NEW x \in In(s), NEW k \in In(q) \ In(s) PROVE Fine(l, x, k)
  <2>1. PICK i \in PackInto(q) \cap (1 .. Len(q)) : x = q[i]
    BY <1>1
  <2>2. PICK j \in 1 .. Len(q) : k = q[j]
    BY DEF In
  <2>3. j \notin PackInto(q) /\ x # k
    BY <1>1, <2>2
  <2>4. CASE i < j
    <3>1. Earlier(l, x, k)
      BY <2>1, <2>2, <2>4 DEF Ordered
    <3>2. QED
      BY <3>1, EarlierFacts
  <2>5. CASE j < i
    <3>1. Size[x] < Size[k]
      BY <2>1, <2>2, <2>3, <2>5, PackIntoFacts
    <3>2. QED
      BY <2>3, <3>1 DEF Fine
  <2>6. QED
    BY <2>1, <2>2, <2>3, <2>4, <2>5
<1>4. QED
  BY <1>2, <1>3 DEF After

(* The clean-up of a queue takes away what was picked, and nothing else.   *)
LEMMA CleanupFacts ==
  ASSUME NEW q \in Seq(Msgs), NEW bits \in SUBSET (1 .. Len(q))
  PROVE  /\ Cleanup(q, bits) \in Seq(Msgs) /\ In(Cleanup(q, bits)) \subseteq In(q)
         /\ In(q) = In(Picked(q, bits)) \cup In(Cleanup(q, bits))
         /\ \A l : Ordered(l, q) => Ordered(l, Cleanup(q, bits))
         /\ Once(q) => In(Picked(q, bits)) \cap In(Cleanup(q, bits)) = {}
<1> DEFINE rest == (1 .. Len(q)) \ bits
<1>1. /\ Cleanup(q, bits) = Picked(q, rest)
      /\ bits \cap (1 .. Len(q)) = bits /\ rest \cap (1 .. Len(q)) = rest
  BY DEF Cleanup
<1>2. /\ Picked(q, rest) \in Seq(Msgs)
      /\ In(Picked(q, rest)) = {q[j] : j \in rest} /\ In(Picked(q, bits)) = {q[j] : j \in bits}
  BY <1>1, PickedFacts
<1>3. \A l : Ordered(l, q) => Ordered(l, Picked(q, rest))
  BY PickedOrdered
<1>4. In(q) = {q[j] : j \in 1 .. Len(q)}
  BY DEF In
<1>5. ASSUME Once(q), NEW x, x \in In(Picked(q, rest)), x \in In(Picked(q, bits)) PROVE FALSE
  <2>1. PICK i \in rest : x = q[i]
    BY <1>2, <1>5
  <2>2. PICK j \in bits : x = q[j]
    BY <1>2, <1>5
  <2>3. i = j
    BY <1>5, <2>1, <2>2 DEF Once
  <2>4. QED
    BY <2>3
<1>6. In(q) = In(Picked(q, bits)) \cup In(Picked(q, rest))
  BY <1>2, <1>4
<1>7. QED
  BY <1>1, <1>2, <1>3, <1>5, <1>6

-----------------------------------------------------------------------------
(* What can happen to a stream.                                            *)

LEMMA StreamSend ==
  ASSUME NEW l \in Seq(Msgs), NEW q \in Seq(Msgs), NEW s, NEW w, NEW sends, NEW block, NEW isOpen,
         StreamOK(l, q, s, w, sends, block, isOpen),
         sends => In(block.msgs) \subseteq In(q), NEW m \in Msgs, m \notin In(l)
  PROVE  StreamOK(Append(l, m), Append(q, m), s, w, sends, block, isOpen)
<1> DEFINE g == Append(l, m)
           h == Append(q, m)
           on == In(s) \cup OnWire(w)
<1>1. In(g) = In(l) \cup {m} /\ In(h) = In(q) \cup {m}
  BY InAppend
<1>2. /\ Once(l) /\ Ordered(l, q) /\ In(q) \subseteq In(l) /\ on \subseteq In(l)
      /\ LineOK(l, s, w) /\ After(l, on, In(q) \ on)
      /\ sends => Tidy(l, block.msgs) /\ After(l, In(block.msgs), In(q) \ In(block.msgs))
      /\ isOpen => In(q) \cap on \subseteq
                      (IF sends /\ block.whole THEN In(block.msgs) ELSE {})
  BY DEF StreamOK
<1>3. Once(g)
  <2>1. /\ Len(l) \in Nat /\ Len(g) = Len(l) + 1 /\ g[Len(l) + 1] = m
        /\ \A i \in 1 .. Len(l) : g[i] = l[i] /\ l[i] # m
    BY AppendProperties DEF In
  <2> HIDE DEF g
  <2>2. QED
    BY <1>2, <2>1 DEF Once
<1>4. Ordered(g, h)
  <2>1. /\ Len(q) \in Nat /\ Len(h) = Len(q) + 1 /\ h[Len(q) + 1] = m
        /\ \A i \in 1 .. Len(q) : h[i] = q[i] /\ q[i] \in In(l)
    BY <1>2, AppendProperties DEF In
  <2>2. \A x \in In(l) : Earlier(g, x, m) /\ \A k \in In(l) : Earlier(g, x, k) <=> Earlier(l, x, k)
    BY LogAppend
  <2> HIDE DEF g, h
  <2>3. ASSUME NEW i \in 1 .. Len(h), NEW j \in 1 .. Len(h), i < j PROVE Earlier(g, h[i], h[j])
    <3>1. i \in 1 .. Len(q) /\ h[i] = q[i] /\ q[i] \in In(l)
      BY <2>1, <2>3
    <3>2. CASE j \in 1 .. Len(q)
      BY <1>2, <2>1, <2>2, <2>3, <3>1, <3>2 DEF Ordered
    <3>3. CASE j = Len(q) + 1
      BY <2>1, <2>2, <3>1, <3>3
    <3>4. QED
      BY <2>1, <3>2, <3>3
  <2>4. QED
    BY <2>3 DEF Ordered
<1>5. LineOK(g, s, w)
  BY <1>2, LineLogAppend
<1>6. ASSUME NEW S \in SUBSET In(l), After(l, S, In(q) \ S) PROVE After(g, S, In(h) \ S)
  <2>1. After(g, S, In(q) \ S)
    <3>1. In(q) \ S \in SUBSET In(l)
      BY <1>2
    <3>2. QED
      BY <1>6, <3>1, LogAppendKeeps
  <2>2. After(g, S, {m})
    BY LogAppendKeeps
  <2>3. In(h) \ S \subseteq (In(q) \ S) \cup {m}
    BY <1>1
  <2> HIDE DEF g, h
  <2>4. QED
    BY <2>1, <2>2, <2>3 DEF After
<1>7. After(g, on, In(h) \ on)
  <2> HIDE DEF on, g, h
  <2>1. QED
    BY <1>2, <1>6
<1>8. ASSUME sends PROVE Tidy(g, block.msgs) /\ After(g, In(block.msgs), In(h) \ In(block.msgs))
  <2>1. In(block.msgs) \in SUBSET In(l)
    BY <1>2, <1>8
  <2>2. Tidy(g, block.msgs)
    BY <1>2, <1>8, <2>1, LogAppendKeeps
  <2> HIDE DEF g, h
  <2>3. QED
    BY <1>2, <1>6, <1>8, <2>1, <2>2
<1>9. In(h) \cap on = In(q) \cap on
  <2>1. m \notin on
    BY <1>2
  <2> HIDE DEF on, h
  <2>2. QED
    BY <1>1, <2>1
<1>10. In(h) \subseteq In(g) /\ on \subseteq In(g)
  <2> HIDE DEF on, g, h
  <2>1. QED
    BY <1>1, <1>2
<1> HIDE DEF g, h
<1>11. StreamOK(g, h, s, w, sends, block, isOpen)
  BY <1>2, <1>3, <1>4, <1>5, <1>7, <1>8, <1>9, <1>10 DEF StreamOK
<1>12. QED
  BY <1>11 DEF g, h

(* The queue is packed into a block, or nothing is sent.                   *)
LEMMA StreamStart ==
  ASSUME NEW l \in Seq(Msgs), NEW q \in Seq(Msgs), NEW s, NEW w, NEW old, NEW isOpen,
         StreamOK(l, q, s, w, FALSE, old, isOpen), NEW block,
         NEW sends \in BOOLEAN,
         sends => block.msgs = Picked(q, PackInto(q)) /\ block.whole = FALSE
  PROVE  StreamOK(l, q, s, w, sends, block, isOpen)
<1>1. Once(l) /\ Ordered(l, q)
  BY DEF StreamOK
<1>2. sends => Tidy(l, block.msgs) /\ After(l, In(block.msgs), In(q) \ In(block.msgs))
  BY <1>1, PackedBlock
<1>3. QED
  BY <1>2 DEF StreamOK

LEMMA StreamClean ==
  ASSUME NEW l \in Seq(Msgs), NEW q \in Seq(Msgs), NEW s, NEW w, NEW block, NEW isOpen,
         StreamOK(l, q, s, w, TRUE, block, isOpen),
         block.bits \in SUBSET (1 .. Len(q)), block.msgs = Picked(q, block.bits)
  PROVE  StreamOK(l, Cleanup(q, block.bits), s, w, FALSE, None, isOpen)
<1> DEFINE r == Cleanup(q, block.bits)
           on == In(s) \cup OnWire(w)
<1>1. /\ Once(l) /\ Ordered(l, q) /\ In(q) \subseteq In(l) /\ on \subseteq In(l)
      /\ LineOK(l, s, w) /\ After(l, on, In(q) \ on)
      /\ isOpen => In(q) \cap on \subseteq In(block.msgs)
  BY DEF StreamOK
<1>2. Once(q)
  BY <1>1, OrderedOnce
<1>3. Ordered(l, r) /\ In(r) \subseteq In(q) /\ In(block.msgs) \cap In(r) = {}
  BY <1>1, <1>2, CleanupFacts
<1> HIDE DEF r
<1>4. After(l, on, In(r) \ on)
  <2> HIDE DEF on
  <2>1. QED
    BY <1>1, <1>3 DEF After
<1>5. isOpen => In(r) \cap on = {}
  <2> HIDE DEF on
  <2>1. QED
    BY <1>1, <1>3
<1>6. StreamOK(l, r, s, w, FALSE, None, isOpen)
  BY <1>1, <1>3, <1>4, <1>5 DEF StreamOK
<1>7. QED
  BY <1>6 DEF r

LEMMA StreamTransmit ==
  ASSUME NEW l \in Seq(Msgs), NEW q \in Seq(Msgs), NEW s, NEW w \in Seq(Seq(Msgs)), NEW block,
         NEW after, StreamOK(l, q, s, w, TRUE, block, TRUE), ~block.whole,
         block.msgs \in Seq(Msgs), In(block.msgs) \subseteq In(q),
         after.msgs = block.msgs, after.whole = TRUE
  PROVE  StreamOK(l, q, s, Append(w, block.msgs), TRUE, after, TRUE)
<1> DEFINE on == In(s) \cup OnWire(w)
           u == Append(w, block.msgs)
           t == In(block.msgs)
<1>1. /\ Once(l) /\ Ordered(l, q) /\ In(q) \subseteq In(l) /\ on \subseteq In(l)
      /\ LineOK(l, s, w) /\ After(l, on, In(q) \ on)
      /\ Tidy(l, block.msgs) /\ After(l, t, In(q) \ t)
      /\ In(q) \cap on = {}
  BY DEF StreamOK
<1>2. After(l, on, t)
  <2> HIDE DEF on, t
  <2>1. t \subseteq In(q)
    BY DEF t
  <2>2. QED
    BY <1>1, <2>1 DEF After
<1>3. LineOK(l, s, u) /\ OnWire(u) = OnWire(w) \cup t
  <2> DEFINE part == block.msgs
  <2>1. part \in Seq(Msgs) /\ Tidy(l, part) /\ After(l, In(s) \cup OnWire(w), In(part))
        /\ LineOK(l, s, w) /\ u = Append(w, part)
    BY <1>1, <1>2
  <2>2. LineOK(l, s, u)
    <3> HIDE DEF part, u
    <3>1. QED
      BY <2>1, LineAppend
  <2>3. QED
    BY <2>2, WireAppend
<1>4. In(s) \cup OnWire(u) = on \cup t
  BY <1>3
<1> DEFINE then == In(s) \cup OnWire(u)
<1>5. After(l, then, In(q) \ then) /\ then \subseteq In(l) /\ In(q) \cap then \subseteq t
  <2>1. then = on \cup t
    BY <1>4
  <2> HIDE DEF on, t, then
  <2>2. t \subseteq In(q)
    BY DEF t
  <2>3. QED
    BY <1>1, <2>1, <2>2 DEF After
<1> HIDE DEF u
<1>6. StreamOK(l, q, s, u, TRUE, after, TRUE)
  BY <1>1, <1>3, <1>5 DEF StreamOK
<1>7. QED
  BY <1>6 DEF u

LEMMA StreamReceive ==
  ASSUME NEW l, NEW q, NEW s \in Seq(Msgs), NEW w \in Seq(Seq(Msgs)), NEW sends, NEW block,
         NEW isOpen, StreamOK(l, q, s, w, sends, block, isOpen), w # <<>>
  PROVE  StreamOK(l, q, s \o w[1], Tail(w), sends, block, isOpen)
<1> DEFINE t == s \o w[1]
           u == Tail(w)
<1>1. LineOK(l, t, u) /\ In(t) \cup OnWire(u) = In(s) \cup OnWire(w)
  BY LineReceive DEF StreamOK
<1> HIDE DEF t, u
<1>2. StreamOK(l, q, t, u, sends, block, isOpen)
  BY <1>1 DEF StreamOK
<1>3. QED
  BY <1>2 DEF t, u

(* The stream is lost, and a part of a block arrives.                      *)
LEMMA StreamLose ==
  ASSUME NEW l, NEW q \in Seq(Msgs), NEW s \in Seq(Msgs), NEW w \in Seq(Seq(Msgs)),
         NEW sends \in BOOLEAN, NEW block,
         StreamOK(l, q, s, w, sends, block, TRUE),
         sends => block.msgs \in Seq(Msgs) /\ In(block.msgs) \subseteq In(q),
         NEW next, next = IF w # <<>> THEN Head(w)
                          ELSE IF sends /\ ~block.whole THEN block.msgs ELSE <<>>,
         NEW k \in 0 .. Len(next)
  PROVE  StreamOK(l, q, s \o SubSeq(next, 1, k), <<>>, sends, block, FALSE)
<1> DEFINE part == SubSeq(next, 1, k)
           on == In(s) \cup OnWire(w)
           then == In(s \o part)
<1>1. /\ Once(l) /\ Ordered(l, q) /\ In(q) \subseteq In(l) /\ on \subseteq In(l)
      /\ LineOK(l, s, w) /\ After(l, on, In(q) \ on)
      /\ sends => Tidy(l, block.msgs) /\ After(l, In(block.msgs), In(q) \ In(block.msgs))
      /\ In(q) \cap on \subseteq (IF sends /\ block.whole THEN In(block.msgs) ELSE {})
  BY DEF StreamOK
<1>2. /\ Tidy(l, s \o part) /\ s \o part \in Seq(Msgs)
      /\ then \subseteq In(l) /\ After(l, then, In(q) \ then)
  <2>1. CASE w # <<>>
    <3>1. next = w[1] /\ w[1] \in Seq(Msgs) /\ 1 \in 1 .. Len(w)
      BY <2>1, HeadTailProperties, EmptySeq
    <3>2. part \in Seq(Msgs) /\ In(part) \in SUBSET In(w[1]) /\ Tidy(l, part)
      BY <1>1, <3>1, PartFacts DEF LineOK
    <3>3. In(w[1]) \subseteq OnWire(w) /\ After(l, In(s), In(w[1]))
      BY <1>1, <3>1 DEF OnWire, LineOK
    <3>4. After(l, In(s), In(part))
      BY <3>2, <3>3 DEF After
    <3>5. Tidy(l, s \o part) /\ s \o part \in Seq(Msgs) /\ then = In(s) \cup In(part)
      <4>1. Tidy(l, s)
        BY <1>1 DEF LineOK
      <4> HIDE DEF part
      <4>2. Tidy(l, s \o part)
        BY <3>2, <3>4, <4>1, TidyConcat
      <4>3. s \o part \in Seq(Msgs)
        BY <3>2, ConcatProperties
      <4>4. then = In(s) \cup In(part)
        BY <3>2, InConcat
      <4>5. QED
        BY <4>2, <4>3, <4>4
    <3>6. then \subseteq In(l)
      BY <1>1, <3>2, <3>3, <3>5
    <3>7. ASSUME NEW x \in then, NEW m \in In(q) \ then PROVE Fine(l, x, m)
      <4>1. x \in on
        BY <3>2, <3>3, <3>5
      <4>2. CASE m \notin on
        <5> HIDE DEF on
        <5>1. QED
          BY <1>1, <3>7, <4>1, <4>2 DEF After
      <4>3. CASE m \in on
        <5>1. m \in OnWire(w) /\ m \notin In(s)
          BY <3>5, <3>7, <4>3
        <5>2. PICK i \in 1 .. Len(w) : m \in In(w[i])
          BY <5>1 DEF OnWire
        <5>3. CASE x \in In(s)
          BY <1>1, <5>2, <5>3 DEF LineOK, After
        <5>4. CASE x \in In(part) /\ i = 1
          <6>1. PICK a \in 1 .. Len(part) : x = part[a]
            BY <5>4 DEF In
          <6>2. PICK b \in 1 .. Len(w[1]) : m = w[1][b]
            BY <5>2, <5>4 DEF In
          <6>3. /\ Len(part) = k /\ k \in Nat /\ k <= Len(w[1]) /\ Len(w[1]) \in Nat
                /\ \A c \in 1 .. k : part[c] = w[1][c]
            BY <3>1, SubSeqProperties, LenProperties
          <6>4. ~(b <= k)
            <7>1. b <= k => part[b] = m /\ b \in 1 .. Len(part)
              BY <6>2, <6>3
            <7>2. m \notin In(part)
              BY <3>5, <3>7
            <7>3. QED
              BY <7>1, <7>2 DEF In
          <6>5. a < b /\ a \in 1 .. Len(w[1]) /\ x = w[1][a]
            BY <6>1, <6>2, <6>3, <6>4
          <6>6. Tidy(l, w[1])
            BY <1>1, <3>1 DEF LineOK
          <6>7. QED
            BY <6>2, <6>5, <6>6 DEF Tidy
        <5>5. CASE x \in In(part) /\ i # 1
          <6>1. 1 < i /\ x \in In(w[1])
            BY <3>2, <5>5
          <6>2. After(l, In(w[1]), In(w[i]))
            BY <1>1, <3>1, <6>1 DEF LineOK
          <6>3. QED
            BY <5>2, <6>1, <6>2 DEF After
        <5>6. QED
          BY <3>5, <5>3, <5>4, <5>5
      <4>4. QED
        BY <4>2, <4>3
    <3>8. QED
      BY <3>5, <3>6, <3>7 DEF After
  <2>2. CASE w = <<>> /\ sends /\ ~block.whole
    <3>1. next = block.msgs /\ OnWire(w) = {} /\ on = In(s) /\ In(q) \cap on = {}
      BY <1>1, <2>2, NoWire
    <3>2. part \in Seq(Msgs) /\ In(part) \in SUBSET In(block.msgs) /\ Tidy(l, part)
      BY <1>1, <2>2, <3>1, PartFacts
    <3>3. In(part) \subseteq In(q)
      BY <2>2, <3>2
    <3>4. After(l, In(s), In(part))
      BY <1>1, <3>1, <3>3 DEF After
    <3>5. Tidy(l, s \o part) /\ s \o part \in Seq(Msgs) /\ then = In(s) \cup In(part)
      <4>1. Tidy(l, s)
        BY <1>1 DEF LineOK
      <4> HIDE DEF part
      <4>2. Tidy(l, s \o part)
        BY <3>2, <3>4, <4>1, TidyConcat
      <4>3. s \o part \in Seq(Msgs)
        BY <3>2, ConcatProperties
      <4>4. then = In(s) \cup In(part)
        BY <3>2, InConcat
      <4>5. QED
        BY <4>2, <4>3, <4>4
    <3>6. then \subseteq In(l)
      BY <1>1, <3>1, <3>3, <3>5
    <3>7. ASSUME NEW x \in then, NEW m \in In(q) \ then PROVE Fine(l, x, m)
      <4>1. CASE x \in In(s)
        BY <1>1, <3>1, <3>5, <3>7, <4>1 DEF After
      <4>2. CASE x \in In(part) /\ m \notin In(block.msgs)
        BY <1>1, <2>2, <3>2, <3>7, <4>2 DEF After
      <4>3. CASE x \in In(part) /\ m \in In(block.msgs)
        <5>1. PICK a \in 1 .. Len(part) : x = part[a]
          BY <4>3 DEF In
        <5>2. PICK b \in 1 .. Len(block.msgs) : m = block.msgs[b]
          BY <4>3 DEF In
        <5>3. /\ Len(part) = k /\ k \in Nat /\ k <= Len(block.msgs) /\ Len(block.msgs) \in Nat
              /\ \A c \in 1 .. k : part[c] = block.msgs[c]
          BY <2>2, <3>1, SubSeqProperties, LenProperties
        <5>4. ~(b <= k)
          <6>1. b <= k => part[b] = m /\ b \in 1 .. Len(part)
            BY <5>2, <5>3
          <6>2. m \notin In(part)
            BY <3>5, <3>7
          <6>3. QED
            BY <6>1, <6>2 DEF In
        <5>5. a < b /\ a \in 1 .. Len(block.msgs) /\ x = block.msgs[a]
          BY <5>1, <5>2, <5>3, <5>4
        <5>6. QED
          BY <1>1, <2>2, <5>2, <5>5 DEF Tidy
      <4>4. QED
        BY <3>5, <4>1, <4>2, <4>3
    <3>8. QED
      BY <3>5, <3>6, <3>7 DEF After
  <2>3. CASE w = <<>> /\ ~(sends /\ ~block.whole)
    <3>1. next = <<>> /\ OnWire(w) = {} /\ on = In(s) /\ k = 0
      BY <2>3, NoWire
    <3>2. part = <<>>
      <4>1. part \in Seq(Msgs) /\ Len(part) = 0
        BY <3>1, SubSeqProperties, EmptySeq
      <4>2. QED
        BY <4>1, EmptySeq
    <3>3. s \o part = s
      BY <3>2, ConcatEmptySeq
    <3>4. QED
      BY <1>1, <3>1, <3>3 DEF LineOK
  <2>4. QED
    BY <2>1, <2>2, <2>3
<1>3. LineOK(l, s \o part, <<>>) /\ then \cup OnWire(<<>>) = then
  BY <1>2, NoWire
<1> DEFINE t == s \o part
<1>4. LineOK(l, t, <<>>) /\ After(l, In(t), In(q) \ In(t)) /\ In(t) \subseteq In(l)
      /\ In(t) \cup OnWire(<<>>) = In(t)
  BY <1>2, <1>3
<1> HIDE DEF t
<1>5. StreamOK(l, q, t, <<>>, sends, block, FALSE)
  BY <1>1, <1>4 DEF StreamOK
<1>6. QED
  BY <1>5 DEF t

LEMMA StreamReconnect ==
  ASSUME NEW l, NEW q, NEW s, NEW w, NEW block, NEW isOpen,
         StreamOK(l, q, s, w, FALSE, block, isOpen)
  PROVE  StreamOK(l, q, <<>>, <<>>, FALSE, block, TRUE)
<1>1. In(<<>>) = {} /\ OnWire(<<>>) = {} /\ Tidy(l, <<>>)
  BY NoWire DEF In, Tidy
<1>2. LineOK(l, <<>>, <<>>) /\ \A T : After(l, {}, T)
  BY <1>1, NoWire DEF After
<1>3. QED
  BY <1>1, <1>2 DEF StreamOK

-----------------------------------------------------------------------------
(* The invariant.                                                          *)

Line == delivered[1] \o (unpacked[1] \o incoming[1])
StreamInv == Stream => StreamOK(log[1], outgoing[1], Line, wire[1], sending, inflight, open)

(* The messages for the peer p that have left the sender.                  *)
Reached(p) ==
    OnWire(wire[p]) \cup In(incoming[p]) \cup In(unpacked[p]) \cup In(delivered[p]) \cup dropped[p]

(* What is handed to the network has left the sender before it leaves the  *)
(* queue; the countdown starts again with each block; only a stream that   *)
(* was lost is not open, and nothing is on its wire.                       *)
Transmitted == sending /\ inflight.whole /\ lost = 0 => In(inflight.msgs) \subseteq Reached(inflight.to)
Counting == sending => countdown = Critical
Closed == ~open => Stream /\ lost > 0 /\ wire[1] = <<>>
Kept == lost = 0 => \A p \in 1 .. n : In(log[p]) \subseteq In(outgoing[p]) \cup Reached(p)

IInv ==
    /\ TypeOK /\ InFlightIsQueued /\ Counting /\ Closed
    /\ Transmitted /\ Kept /\ StreamInv

LEMMA KeptIsNotForgotten == IInv => NothingIsForgotten
<1> SUFFICES ASSUME IInv, lost = 0, NEW p \in 1 .. n, NEW m \in In(log[p])
             PROVE  m \in In(outgoing[p]) \cup InTransit(p) \cup In(delivered[p]) \cup dropped[p]
  BY DEF NothingIsForgotten
<1>1. m \in In(outgoing[p]) \cup Reached(p)
  BY DEF IInv, Kept
<1>2. QED
  BY <1>1 DEF Reached, InTransit

LEMMA PeersFacts ==
  ASSUME n \in Groups
  PROVE  /\ n \in Nat /\ n > 0 /\ \A p \in 1 .. n : p \in Peers
         /\ \A p \in Peers : p \in Nat /\ p > 0 /\ (p <= n => p \in 1 .. n)
         /\ (Stream => 1 \in 1 .. n /\ 1 \in Peers /\ \A p \in 1 .. n : p = 1)
<1>1. \A p \in Peers : p \in Nat /\ p > 0
  BY AsioConnectionAssumption DEF Peers
<1>2. QED
  BY <1>1, PeersOfGroup DEF Stream

LEMMA InitIInv == Init => IInv
<1> SUFFICES ASSUME Init PROVE IInv
  OBVIOUS
<1>1. n \in Groups /\ n \in Nat /\ \A p \in 1 .. n : p \in Peers
  BY PeersFacts DEF Init
<1>2. <<>> \in Seq(Msgs) /\ <<>> \in Seq(Seq(Msgs)) /\ In(<<>>) = {} /\ OnWire(<<>>) = {}
  BY NoWire DEF In
<1>3. None \in [to : 0 .. n, bits : SUBSET (1 .. MaxBits), msgs : Seq(Msgs), whole : BOOLEAN]
  BY <1>1, <1>2 DEF None
<1>4. MaxBits \in Nat /\ MaxLost \in Nat
  BY AsioConnectionAssumption
<1>5. TypeOK
  <2>1. /\ log \in [Peers -> Seq(Msgs)] /\ outgoing \in [Peers -> Seq(Msgs)]
        /\ wire \in [Peers -> Seq(Seq(Msgs))] /\ incoming \in [Peers -> Seq(Msgs)]
        /\ unpacked \in [Peers -> Seq(Msgs)] /\ delivered \in [Peers -> Seq(Msgs)]
    BY <1>2 DEF Init
  <2>2. accepting \in [Peers -> BOOLEAN] /\ dropped \in [Peers -> SUBSET Msgs]
    BY DEF Init
  <2>3. /\ index \in 0 .. n /\ countdown \in 0 .. Critical /\ prevCount \in 0 .. MaxBits
        /\ lost \in 0 .. MaxLost
    BY <1>1, <1>4 DEF Init, Critical
  <2>4. sending \in BOOLEAN /\ open \in BOOLEAN /\ (sending <=> inflight.to # 0)
    BY NoneFacts DEF Init
  <2>5. inflight = None
    BY DEF Init
  <2>6. QED
    BY <1>1, <1>3, <2>1, <2>2, <2>3, <2>4, <2>5 DEF TypeOK
<1>6. InFlightIsQueued /\ Counting /\ Closed /\ Transmitted
  BY DEF Init, InFlightIsQueued, Counting, Closed, Transmitted
<1>7. Kept
  BY <1>1, <1>2 DEF Init, Kept
<1>8. StreamInv
  <2>1. SUFFICES ASSUME Stream
                 PROVE  StreamOK(log[1], outgoing[1], Line, wire[1], sending, inflight, open)
    BY DEF StreamInv
  <2>2. 1 \in Peers
    BY <1>1, <2>1, PeersFacts
  <2>3. /\ log[1] = <<>> /\ outgoing[1] = <<>> /\ wire[1] = <<>> /\ sending = FALSE
        /\ delivered[1] = <<>> /\ unpacked[1] = <<>> /\ incoming[1] = <<>>
    BY <2>2 DEF Init
  <2>4. Line = <<>>
    BY <1>2, <2>3, ConcatEmptySeq DEF Line
  <2>5. LineOK(<<>>, <<>>, <<>>) /\ Once(<<>>) /\ Ordered(<<>>, <<>>)
    BY NoWire DEF Tidy, Once, Ordered
  <2>6. \A T : After(<<>>, {}, T)
    BY DEF After
  <2>7. StreamOK(<<>>, <<>>, <<>>, <<>>, FALSE, inflight, open)
    BY <1>2, <2>5, <2>6 DEF StreamOK
  <2>8. QED
    BY <2>3, <2>4, <2>7
<1>9. QED
  BY <1>5, <1>6, <1>7, <1>8 DEF IInv

(* The block that is being written, and the queue it comes from.           *)
LEMMA SendingFacts ==
  ASSUME IInv, sending
  PROVE  /\ inflight.to \in 1 .. n /\ inflight.to \in Peers
         /\ outgoing[inflight.to] \in Seq(Msgs)
         /\ inflight.bits \in SUBSET (1 .. Len(outgoing[inflight.to]))
         /\ inflight.msgs = Picked(outgoing[inflight.to], inflight.bits)
         /\ inflight.msgs \in Seq(Msgs)
         /\ In(inflight.msgs) \subseteq In(outgoing[inflight.to])
<1>1. n \in Groups /\ inflight.to \in 0 .. n /\ inflight.to # 0 /\ inflight.msgs \in Seq(Msgs)
  BY DEF IInv, TypeOK
<1>2. inflight.to \in 1 .. n /\ inflight.to \in Peers
  BY <1>1, PeersFacts
<1>3. outgoing[inflight.to] \in Seq(Msgs)
  BY <1>2 DEF IInv, TypeOK
<1>4. /\ inflight.bits \in SUBSET (1 .. Len(outgoing[inflight.to]))
      /\ inflight.msgs = Picked(outgoing[inflight.to], inflight.bits)
  BY DEF IInv, InFlightIsQueued
<1>5. In(inflight.msgs) \subseteq In(outgoing[inflight.to])
  BY <1>3, <1>4, CleanupFacts
<1>6. QED
  BY <1>1, <1>2, <1>3, <1>4, <1>5

LEMMA SendStep ==
  ASSUME IInv, NEW p \in Peers, NEW m \in Msgs, Send(p, m)
  PROVE  IInv'
<1>1. /\ p <= n /\ \A q \in Peers : m \notin In(log[q])
      /\ log' = [log EXCEPT ![p] = Append(log[p], m)]
      /\ outgoing' = [outgoing EXCEPT ![p] = Append(outgoing[p], m)]
      /\ n' = n /\ index' = index /\ sending' = sending /\ inflight' = inflight
      /\ countdown' = countdown /\ prevCount' = prevCount /\ open' = open /\ wire' = wire
      /\ incoming' = incoming /\ unpacked' = unpacked /\ accepting' = accepting
      /\ delivered' = delivered /\ dropped' = dropped /\ lost' = lost
  BY DEF Send, Enqueue, senderVars, receiverVars
<1>2. n \in Groups /\ log \in [Peers -> Seq(Msgs)] /\ outgoing \in [Peers -> Seq(Msgs)]
  BY DEF IInv, TypeOK
<1>3. /\ log[p] \in Seq(Msgs) /\ outgoing[p] \in Seq(Msgs) /\ p \in 1 .. n
      /\ Append(log[p], m) \in Seq(Msgs) /\ Append(outgoing[p], m) \in Seq(Msgs)
  BY <1>1, <1>2, PeersFacts, AppendProperties
<1>4. \A q \in Peers : /\ log'[q] = IF q = p THEN Append(log[p], m) ELSE log[q]
                       /\ outgoing'[q] = IF q = p THEN Append(outgoing[p], m) ELSE outgoing[q]
  BY <1>1, <1>2
<1>5. TypeOK'
  <2>1. log' \in [Peers -> Seq(Msgs)] /\ outgoing' \in [Peers -> Seq(Msgs)]
    BY <1>1, <1>2, <1>3
  <2>2. QED
    BY <1>1, <2>1 DEF IInv, TypeOK
<1>6. InFlightIsQueued'
  <2>1. SUFFICES ASSUME sending
                 PROVE  /\ inflight.bits \in SUBSET (1 .. Len(outgoing'[inflight.to]))
                        /\ inflight.msgs = Picked(outgoing'[inflight.to], inflight.bits)
    BY <1>1 DEF InFlightIsQueued
  <2>2. /\ inflight.to \in Peers /\ inflight.bits \in SUBSET (1 .. Len(outgoing[inflight.to]))
        /\ inflight.msgs = Picked(outgoing[inflight.to], inflight.bits)
    BY <2>1, SendingFacts
  <2>3. CASE inflight.to = p
    <3>1. outgoing'[p] = Append(outgoing[p], m)
      BY <1>4
    <3>2. Len(Append(outgoing[p], m)) = Len(outgoing[p]) + 1 /\ Len(outgoing[p]) \in Nat
      BY <1>3, AppendProperties
    <3>3. inflight.bits \in SUBSET (1 .. Len(outgoing[p]) + 1)
      BY <2>2, <2>3, <3>2
    <3>4. Picked(Append(outgoing[p], m), inflight.bits) = Picked(outgoing[p], inflight.bits)
      BY <1>3, <2>2, <2>3, PickedBefore
    <3>5. QED
      BY <2>2, <2>3, <3>1, <3>2, <3>3, <3>4
  <2>4. CASE inflight.to # p
    BY <1>4, <2>2, <2>4
  <2>5. QED
    BY <2>3, <2>4
<1>7. (Counting /\ Closed)'
  BY <1>1 DEF IInv, Counting, Closed, Stream
<1>8. \A q : Reached(q)' = Reached(q)
  BY <1>1 DEF Reached
<1>9. Transmitted'
  BY <1>1, <1>8 DEF IInv, Transmitted
<1>10. Kept'
  <2>1. SUFFICES ASSUME lost = 0, NEW q \in 1 .. n
                 PROVE  In(log'[q]) \subseteq In(outgoing'[q]) \cup Reached(q)
    BY <1>1, <1>8 DEF Kept
  <2>2. q \in Peers /\ In(log[q]) \subseteq In(outgoing[q]) \cup Reached(q)
    BY <1>2, <2>1, PeersFacts DEF IInv, Kept
  <2>3. CASE q = p
    <3>1. In(Append(log[p], m)) = In(log[p]) \cup {m}
      BY <1>3, InAppend
    <3>2. In(Append(outgoing[p], m)) = In(outgoing[p]) \cup {m}
      BY <1>3, InAppend
    <3>3. QED
      BY <1>4, <2>2, <2>3, <3>1, <3>2
  <2>4. CASE q # p
    BY <1>4, <2>2, <2>4
  <2>5. QED
    BY <2>3, <2>4
<1>11. StreamInv'
  <2>1. SUFFICES ASSUME Stream
                 PROVE  StreamOK(log'[1], outgoing'[1], Line, wire[1], sending, inflight, open)
    BY <1>1 DEF StreamInv, Stream, Line
  <2>2. p = 1 /\ 1 \in Peers
    BY <1>2, <1>3, <2>1, PeersFacts
  <2>3. StreamOK(log[1], outgoing[1], Line, wire[1], sending, inflight, open)
    BY <2>1 DEF IInv, StreamInv
  <2>4. sending => In(inflight.msgs) \subseteq In(outgoing[1])
    <3>1. SUFFICES ASSUME sending PROVE In(inflight.msgs) \subseteq In(outgoing[1])
      OBVIOUS
    <3>2. inflight.to = 1
      BY <1>2, <2>1, <3>1, SendingFacts, PeersFacts
    <3>3. QED
      BY <3>1, <3>2, SendingFacts
  <2>5. m \notin In(log[1]) /\ log[1] \in Seq(Msgs) /\ outgoing[1] \in Seq(Msgs)
    BY <1>1, <1>3, <2>2
  <2>6. StreamOK(Append(log[1], m), Append(outgoing[1], m), Line, wire[1], sending, inflight, open)
    BY <2>3, <2>4, <2>5, StreamSend
  <2>7. QED
    BY <1>4, <2>2, <2>6
<1>12. QED
  BY <1>5, <1>6, <1>7, <1>9, <1>10, <1>11 DEF IInv

(* A queue is packed anew, after it was cleaned up or not.                 *)
LEMMA StartStep ==
  ASSUME TypeOK, NEW queues \in [Peers -> Seq(Msgs)], NEW force \in BOOLEAN,
         force => countdown = Critical,
         StartSendIfNeeded(queues, force), outgoing' = queues,
         n' = n, log' = log, open' = open, wire' = wire, incoming' = incoming,
         unpacked' = unpacked, accepting' = accepting, delivered' = delivered,
         dropped' = dropped, lost' = lost, Kept', Closed,
         Stream => StreamOK(log[1], queues[1], Line, wire[1], FALSE, None, open)
  PROVE  IInv'
<1>1. n \in Groups /\ index \in 0 .. n /\ countdown \in 0 .. Critical /\ prevCount \in 0 .. MaxBits
  BY DEF TypeOK
<1>2. /\ index' \in 0 .. n /\ countdown' \in 0 .. Critical /\ prevCount' \in 0 .. MaxBits
      /\ \/ sending' = FALSE /\ inflight' = None
         \/ /\ sending' = TRUE /\ countdown' = Critical
            /\ inflight' \in Blocks(1 .. n) /\ inflight'.whole = FALSE
            /\ inflight'.bits = PackInto(queues[inflight'.to])
            /\ inflight'.msgs = Picked(queues[inflight'.to], inflight'.bits)
  BY <1>1, StartSendFacts
<1>3. sending' => inflight'.to \in 1 .. n /\ inflight'.to # 0 /\ inflight'.to \in Peers
  BY <1>1, <1>2, PeersFacts DEF Blocks
<1>4. /\ inflight' \in [to : 0 .. n, bits : SUBSET (1 .. MaxBits), msgs : Seq(Msgs), whole : BOOLEAN]
      /\ sending' \in BOOLEAN /\ (sending' <=> inflight'.to # 0) /\ inflight'.whole = FALSE
  <2>1. CASE sending' = FALSE /\ inflight' = None
    <3>1. n \in Nat
      BY <1>1, PeersFacts
    <3>2. None \in [to : 0 .. n, bits : SUBSET (1 .. MaxBits), msgs : Seq(Msgs), whole : BOOLEAN]
      BY <3>1, EmptySeq DEF None
    <3>3. QED
      BY <2>1, <3>2, NoneFacts
  <2>2. CASE /\ sending' = TRUE /\ inflight' \in Blocks(1 .. n) /\ inflight'.whole = FALSE
    <3>1. \A p \in 1 .. n : p \in 0 .. n
      BY <1>1, PeersFacts
    <3>2. inflight' \in [to : 0 .. n, bits : SUBSET (1 .. MaxBits), msgs : Seq(Msgs), whole : BOOLEAN]
      BY <2>2, <3>1 DEF Blocks
    <3>3. QED
      BY <1>3, <2>2, <3>2
  <2>3. QED
    BY <1>2, <2>1, <2>2
<1>5. TypeOK'
  BY <1>2, <1>4 DEF TypeOK
<1>6. InFlightIsQueued'
  <2>1. SUFFICES ASSUME sending'
                 PROVE  /\ inflight'.bits \in SUBSET (1 .. Len(queues[inflight'.to]))
                        /\ inflight'.msgs = Picked(queues[inflight'.to], inflight'.bits)
    BY DEF InFlightIsQueued
  <2>2. queues[inflight'.to] \in Seq(Msgs)
    BY <1>3, <2>1
  <2>3. QED
    BY <1>2, <2>1, <2>2, PackIntoFacts
<1>7. (Counting /\ Transmitted /\ Closed)'
  BY <1>2, <1>4 DEF Counting, Transmitted, Closed, Stream
<1>8. StreamInv'
  <2>1. SUFFICES ASSUME Stream
                 PROVE  StreamOK(log[1], queues[1], Line, wire[1], sending', inflight', open)
    BY DEF StreamInv, Stream, Line
  <2>2. log[1] \in Seq(Msgs) /\ queues[1] \in Seq(Msgs)
    <3>1. 1 \in Peers
      BY <1>1, <2>1, PeersFacts
    <3>2. QED
      BY <3>1 DEF TypeOK
  <2>3. sending' => /\ inflight'.msgs = Picked(queues[1], PackInto(queues[1]))
                    /\ inflight'.whole = FALSE
    <3>1. sending' => inflight'.to = 1
      BY <1>1, <1>3, <2>1, PeersFacts
    <3>2. QED
      BY <1>2, <3>1
  <2>4. StreamOK(log[1], queues[1], Line, wire[1], FALSE, None, open)
    BY <2>1
  <2>5. sending' \in BOOLEAN
    BY <1>4
  <2>6. QED
    BY <2>2, <2>3, <2>4, <2>5, StreamStart
<1>9. QED
  BY <1>5, <1>6, <1>7, <1>8 DEF IInv

LEMMA UpdateStep ==
  ASSUME IInv, Update
  PROVE  IInv'
<1>1. /\ ~sending /\ StartSendIfNeeded(outgoing, FALSE)
      /\ outgoing' = outgoing
      /\ n' = n /\ log' = log /\ open' = open /\ wire' = wire /\ incoming' = incoming
      /\ unpacked' = unpacked /\ accepting' = accepting /\ delivered' = delivered
      /\ dropped' = dropped /\ lost' = lost
  BY DEF Update, receiverVars
<1>2. TypeOK /\ outgoing \in [Peers -> Seq(Msgs)] /\ Closed
  BY DEF IInv, TypeOK
<1>3. Kept'
  BY <1>1 DEF IInv, Kept, Reached
<1>4. Stream => StreamOK(log[1], outgoing[1], Line, wire[1], FALSE, None, open)
  <2>1. SUFFICES ASSUME Stream
                 PROVE  StreamOK(log[1], outgoing[1], Line, wire[1], FALSE, None, open)
    OBVIOUS
  <2>2. StreamOK(log[1], outgoing[1], Line, wire[1], FALSE, inflight, open)
    <3>1. sending = FALSE
      BY <1>1, <1>2 DEF TypeOK
    <3>2. QED
      BY <2>1, <3>1 DEF IInv, StreamInv
  <2>3. QED
    BY <2>2 DEF StreamOK
<1>5. QED
  BY <1>1, <1>2, <1>3, <1>4, StartStep

LEMMA HandleSentStep ==
  ASSUME IInv, HandleSent
  PROVE  IInv'
<1> DEFINE to == inflight.to
           rest == Cleanup(outgoing[to], inflight.bits)
           queues == [outgoing EXCEPT ![to] = rest]
<1>1. /\ sending /\ inflight.whole /\ StartSendIfNeeded(outgoing', TRUE)
      /\ outgoing' = queues
      /\ n' = n /\ log' = log /\ open' = open /\ wire' = wire /\ incoming' = incoming
      /\ unpacked' = unpacked /\ accepting' = accepting /\ delivered' = delivered
      /\ dropped' = dropped /\ lost' = lost
  BY DEF HandleSent, receiverVars
<1>2. TypeOK /\ outgoing \in [Peers -> Seq(Msgs)] /\ Closed /\ n \in Groups
  BY DEF IInv, TypeOK
<1>3. /\ to \in 1 .. n /\ to \in Peers /\ outgoing[to] \in Seq(Msgs)
      /\ inflight.bits \in SUBSET (1 .. Len(outgoing[to]))
      /\ inflight.msgs = Picked(outgoing[to], inflight.bits)
  BY <1>1, SendingFacts
<1>4. /\ rest \in Seq(Msgs) /\ In(outgoing[to]) = In(inflight.msgs) \cup In(rest)
  BY <1>3, CleanupFacts
<1> HIDE DEF rest
<1>5. /\ queues \in [Peers -> Seq(Msgs)]
      /\ \A q \in Peers : queues[q] = IF q = to THEN rest ELSE outgoing[q]
  BY <1>2, <1>3, <1>4
<1>6. Kept'
  <2>1. SUFFICES ASSUME lost = 0, NEW q \in 1 .. n
                 PROVE  In(log[q]) \subseteq In(queues[q]) \cup Reached(q)
    BY <1>1 DEF Kept, Reached
  <2>2. q \in Peers /\ In(log[q]) \subseteq In(outgoing[q]) \cup Reached(q)
    BY <1>2, <2>1, PeersFacts DEF IInv, Kept
  <2>3. CASE q = to
    <3>1. In(inflight.msgs) \subseteq Reached(to)
      BY <1>1, <2>1 DEF IInv, Transmitted
    <3>2. queues[q] = rest
      BY <1>5, <2>2, <2>3
    <3> HIDE DEF queues, to
    <3>3. QED
      BY <1>4, <2>2, <2>3, <3>1, <3>2
  <2>4. CASE q # to
    BY <1>5, <2>2, <2>4
  <2>5. QED
    BY <2>3, <2>4
<1>7. Stream => StreamOK(log[1], queues[1], Line, wire[1], FALSE, None, open)
  <2>1. SUFFICES ASSUME Stream
                 PROVE  StreamOK(log[1], queues[1], Line, wire[1], FALSE, None, open)
    OBVIOUS
  <2>2. to = 1 /\ 1 \in Peers /\ log[1] \in Seq(Msgs)
    BY <1>2, <1>3, <2>1, PeersFacts DEF TypeOK
  <2>3. StreamOK(log[1], outgoing[1], Line, wire[1], TRUE, inflight, open)
    BY <1>1, <1>2, <2>1 DEF IInv, StreamInv, TypeOK
  <2>4. StreamOK(log[1], Cleanup(outgoing[1], inflight.bits), Line, wire[1], FALSE, None, open)
    BY <1>3, <2>2, <2>3, StreamClean
  <2>5. QED
    BY <1>5, <2>2, <2>4 DEF rest
<1>8. countdown = Critical
  BY <1>1 DEF IInv, Counting
<1> HIDE DEF queues
<1>9. StartSendIfNeeded(queues, TRUE)
  BY <1>1
<1>10. QED
  BY <1>1, <1>2, <1>5, <1>6, <1>7, <1>8, <1>9, StartStep

LEMMA TransmitStep ==
  ASSUME IInv, Transmit
  PROVE  IInv'
<1> DEFINE to == inflight.to
           longer == Append(wire[to], inflight.msgs)
<1>1. /\ open /\ sending /\ ~inflight.whole
      /\ inflight' = [inflight EXCEPT !.whole = TRUE]
      /\ wire' = [wire EXCEPT ![to] = longer]
      /\ n' = n /\ log' = log /\ outgoing' = outgoing /\ index' = index /\ sending' = sending
      /\ countdown' = countdown /\ prevCount' = prevCount /\ open' = open
      /\ incoming' = incoming /\ unpacked' = unpacked /\ accepting' = accepting
      /\ delivered' = delivered /\ dropped' = dropped /\ lost' = lost
  BY DEF Transmit, receiverVars
<1>2. /\ TypeOK /\ n \in Groups /\ wire \in [Peers -> Seq(Seq(Msgs))]
      /\ inflight \in [to : 0 .. n, bits : SUBSET (1 .. MaxBits), msgs : Seq(Msgs), whole : BOOLEAN]
  BY DEF IInv, TypeOK
<1>3. /\ to \in 1 .. n /\ to \in Peers /\ inflight.msgs \in Seq(Msgs)
      /\ In(inflight.msgs) \subseteq In(outgoing[to])
  BY <1>1, SendingFacts
<1>4. /\ inflight'.to = to /\ inflight'.bits = inflight.bits /\ inflight'.msgs = inflight.msgs
      /\ inflight'.whole = TRUE
      /\ inflight' \in [to : 0 .. n, bits : SUBSET (1 .. MaxBits), msgs : Seq(Msgs), whole : BOOLEAN]
  BY <1>1, <1>2
<1>5. wire[to] \in Seq(Seq(Msgs)) /\ longer \in Seq(Seq(Msgs))
  BY <1>2, <1>3, AppendProperties
<1>6. OnWire(longer) = OnWire(wire[to]) \cup In(inflight.msgs)
  BY <1>3, <1>5, WireAppend
<1> HIDE DEF longer
<1>7. /\ wire' \in [Peers -> Seq(Seq(Msgs))]
      /\ \A q \in Peers : wire'[q] = IF q = to THEN longer ELSE wire[q]
  BY <1>1, <1>2, <1>3, <1>5
<1>8. TypeOK'
  BY <1>1, <1>2, <1>4, <1>7 DEF TypeOK
<1>9. (InFlightIsQueued /\ Counting /\ Closed)'
  <2>1. (Counting /\ Closed)'
    BY <1>1 DEF IInv, Counting, Closed
  <2>2. InFlightIsQueued'
    BY <1>1, <1>4 DEF IInv, InFlightIsQueued
  <2>3. QED
    BY <2>1, <2>2
<1>10. \A q \in Peers : Reached(q) \subseteq Reached(q)'
  BY <1>1, <1>6, <1>7 DEF Reached
<1>11. OnWire(wire'[to]) = OnWire(wire[to]) \cup In(inflight.msgs)
  <2>1. wire'[to] = longer
    BY <1>3, <1>7
  <2>2. QED
    BY <1>6, <2>1
<1>12. Transmitted'
  <2>1. Transmitted' <=> (sending' /\ inflight'.whole /\ lost' = 0 =>
                             In(inflight'.msgs) \subseteq Reached(inflight.to)')
    BY DEF Transmitted
  <2>2. OnWire(wire'[to]) \subseteq Reached(inflight.to)'
    BY <1>4 DEF Reached
  <2>3. QED
    BY <1>4, <1>11, <2>1, <2>2
<1>13. Kept'
  <2>1. SUFFICES ASSUME lost = 0, NEW q \in 1 .. n
                 PROVE  In(log[q]) \subseteq In(outgoing[q]) \cup Reached(q)'
    BY <1>1 DEF Kept
  <2>2. q \in Peers /\ In(log[q]) \subseteq In(outgoing[q]) \cup Reached(q)
    BY <1>2, <2>1, PeersFacts DEF IInv, Kept
  <2>3. QED
    BY <1>10, <2>2
<1>14. StreamInv'
  <2>1. SUFFICES ASSUME Stream
                 PROVE  StreamOK(log[1], outgoing[1], Line, wire'[1], TRUE, inflight', TRUE)
    BY <1>1, <1>2 DEF StreamInv, Stream, Line, TypeOK
  <2>2. to = 1 /\ 1 \in Peers /\ log[1] \in Seq(Msgs) /\ outgoing[1] \in Seq(Msgs)
    BY <1>2, <1>3, <2>1, PeersFacts DEF TypeOK
  <2>3. StreamOK(log[1], outgoing[1], Line, wire[1], TRUE, inflight, TRUE)
    BY <1>1, <1>2, <2>1 DEF IInv, StreamInv, TypeOK
  <2>4. StreamOK(log[1], outgoing[1], Line, Append(wire[1], inflight.msgs), TRUE, inflight', TRUE)
    BY <1>1, <1>3, <1>4, <1>5, <2>2, <2>3, StreamTransmit
  <2>5. QED
    BY <1>7, <2>2, <2>4 DEF longer
<1>15. QED
  BY <1>8, <1>9, <1>12, <1>13, <1>14 DEF IInv

LEMMA HandleSendErrorStep ==
  ASSUME IInv, HandleSendError
  PROVE  IInv'
<1>1. /\ sending /\ ~open /\ sending' = FALSE /\ inflight' = None
      /\ n' = n /\ log' = log /\ outgoing' = outgoing /\ index' = index
      /\ countdown' = countdown /\ prevCount' = prevCount /\ open' = open /\ wire' = wire
      /\ incoming' = incoming /\ unpacked' = unpacked /\ accepting' = accepting
      /\ delivered' = delivered /\ dropped' = dropped /\ lost' = lost
  BY DEF HandleSendError, receiverVars
<1>2. TypeOK /\ n \in Groups /\ n \in Nat
  BY PeersFacts DEF IInv, TypeOK
<1>3. /\ inflight' \in [to : 0 .. n, bits : SUBSET (1 .. MaxBits), msgs : Seq(Msgs), whole : BOOLEAN]
      /\ inflight'.to = 0
  BY <1>1, <1>2, NoneFacts DEF Blocks
<1>4. TypeOK'
  BY <1>1, <1>2, <1>3 DEF TypeOK
<1>5. (InFlightIsQueued /\ Counting /\ Closed /\ Transmitted)'
  BY <1>1 DEF IInv, InFlightIsQueued, Counting, Closed, Transmitted, Stream
<1>6. Kept'
  BY <1>1 DEF IInv, Kept, Reached
<1>7. StreamInv'
  <2>1. SUFFICES ASSUME Stream
                 PROVE  StreamOK(log[1], outgoing[1], Line, wire[1], FALSE, None, FALSE)
    BY <1>1, <1>2 DEF StreamInv, Stream, Line, TypeOK
  <2>2. StreamOK(log[1], outgoing[1], Line, wire[1], TRUE, inflight, FALSE)
    BY <1>1, <1>2, <2>1 DEF IInv, StreamInv, TypeOK
  <2>3. QED
    BY <2>2 DEF StreamOK
<1>8. QED
  BY <1>4, <1>5, <1>6, <1>7 DEF IInv

-----------------------------------------------------------------------------
(* The network and the peer.                                               *)

(* What has left the sender is not taken back, as long as the connection   *)
(* was not lost.                                                           *)
LEMMA SentStays ==
  ASSUME IInv, n' = n, log' = log, outgoing' = outgoing, sending' = sending,
         inflight' = inflight, countdown' = countdown,
         \/ lost' # 0
         \/ lost' = lost /\ \A q \in Peers : Reached(q) \subseteq Reached(q)'
  PROVE  (InFlightIsQueued /\ Counting /\ Transmitted /\ Kept)'
<1>1. (InFlightIsQueued /\ Counting)'
  BY DEF IInv, InFlightIsQueued, Counting
<1>2. n \in Groups
  BY DEF IInv, TypeOK
<1>3. CASE lost' # 0
  BY <1>1, <1>3 DEF Transmitted, Kept
<1>4. CASE lost' = lost /\ \A q \in Peers : Reached(q) \subseteq Reached(q)'
  <2>1. Kept'
    <3>1. SUFFICES ASSUME lost = 0, NEW q \in 1 .. n
                   PROVE  In(log[q]) \subseteq In(outgoing[q]) \cup Reached(q)'
      BY <1>4 DEF Kept
    <3>2. q \in Peers /\ In(log[q]) \subseteq In(outgoing[q]) \cup Reached(q)
      BY <1>2, <3>1, PeersFacts DEF IInv, Kept
    <3>3. QED
      BY <1>4, <3>2
  <2>2. Transmitted'
    <3>1. SUFFICES ASSUME sending, inflight.whole, lost = 0
                   PROVE  In(inflight.msgs) \subseteq Reached(inflight.to)'
      BY <1>4 DEF Transmitted
    <3>2. inflight.to \in Peers /\ In(inflight.msgs) \subseteq Reached(inflight.to)
      BY <3>1, SendingFacts DEF IInv, Transmitted
    <3> DEFINE to == inflight.to
    <3>3. Reached(to) \subseteq Reached(to)'
      <4>1. \A q \in Peers : Reached(q) \subseteq Reached(q)'
        BY <1>4
      <4>2. to' = to
        OBVIOUS
      <4>3. QED
        BY <3>2, <4>1, <4>2 DEF Reached
    <3>4. QED
      BY <3>2, <3>3
  <2>3. QED
    BY <1>1, <2>1, <2>2
<1>5. QED
  BY <1>3, <1>4

LEMMA ConcatElements ==
  ASSUME NEW S, NEW s \in Seq(S), NEW t \in Seq(S)
  PROVE  /\ s \o t \in Seq(S) /\ Len(s \o t) = Len(s) + Len(t)
         /\ \A j \in 1 .. Len(s) : (s \o t)[j] = s[j]
         /\ \A j \in 1 .. Len(t) : (s \o t)[Len(s) + j] = t[j]
  BY ConcatProperties, LenProperties

Regrouped(a, b, c, d) == (a \o (b \o c)) \o d = a \o (b \o (c \o d))

LEMMA ThreeParts ==
  ASSUME NEW M, NEW a \in Seq(M), NEW b \in Seq(M), NEW c \in Seq(M), NEW d \in Seq(M)
  PROVE  Regrouped(a, b, c, d)
<1>1. b \o c \in Seq(M)
  BY ConcatProperties
<1>2. (b \o c) \o d = b \o (c \o d)
  BY ConcatAssociative
<1>3. \A x \in Seq(M) : (a \o x) \o d = a \o (x \o d)
  <2>1. SUFFICES ASSUME NEW x \in Seq(M) PROVE (a \o x) \o d = a \o (x \o d)
    OBVIOUS
  <2>2. QED
    BY ConcatAssociative, SMTT(30)
<1>4. (a \o (b \o c)) \o d = a \o (b \o (c \o d))
  BY <1>1, <1>2, <1>3
<1>5. QED
  BY <1>4 DEF Regrouped

(* One block is taken from the wire.                                       *)
LEMMA WireGap ==
  ASSUME NEW w, Len(w) \in Nat, NEW i \in 1 .. Len(w), NEW u, Len(u) = Len(w) - 1,
         \A j \in 1 .. i - 1 : u[j] = w[j],
         \A j \in 1 .. Len(w) - i : u[(i - 1) + j] = w[i + j]
  PROVE  OnWire(w) \subseteq OnWire(u) \cup In(w[i])
<1> SUFFICES ASSUME NEW x \in OnWire(w) PROVE x \in OnWire(u) \cup In(w[i])
  OBVIOUS
<1>1. PICK j \in 1 .. Len(w) : x \in In(w[j])
  BY DEF OnWire
<1>2. CASE j < i
  <2>1. j \in 1 .. Len(u) /\ j \in 1 .. i - 1
    BY <1>2
  <2>2. x \in In(u[j])
    BY <1>1, <2>1
  <2>3. QED
    BY <2>1, <2>2 DEF OnWire
<1>3. CASE j > i
  <2> DEFINE k == j - i
  <2>1. k \in 1 .. Len(w) - i /\ i + k = j /\ (i - 1) + k \in 1 .. Len(w) - 1
    BY <1>3
  <2> HIDE DEF k
  <2>2. x \in In(u[(i - 1) + k]) /\ (i - 1) + k \in 1 .. Len(u)
    BY <1>1, <2>1
  <2>3. QED
    BY <2>2 DEF OnWire
<1>4. CASE j = i
  BY <1>1, <1>4
<1>5. QED
  BY <1>2, <1>3, <1>4

LEMMA WireRemove ==
  ASSUME NEW w \in Seq(Seq(Msgs)), NEW i \in 1 .. Len(w),
         NEW u, u = SubSeq(w, 1, i - 1) \o SubSeq(w, i + 1, Len(w))
  PROVE  /\ u \in Seq(Seq(Msgs)) /\ OnWire(w) \subseteq OnWire(u) \cup In(w[i])
         /\ i = 1 => u = Tail(w)
<1> DEFINE S == Seq(Msgs)
<1> HIDE DEF S
<1>1. w \in Seq(S) /\ Len(w) \in Nat
  BY LenProperties DEF S
<1> DEFINE s == SubSeq(w, 1, i - 1)
           t == SubSeq(w, i + 1, Len(w))
           all == s \o t
<1>2. /\ s \in Seq(S) /\ Len(s) = i - 1 /\ \A j \in 1 .. i - 1 : s[j] = w[j]
  <2>1. 1 \in Int /\ i - 1 \in Int /\ \A j \in 1 .. i - 1 : w[j] \in S
    BY <1>1
  <2>2. /\ s \in Seq(S)
        /\ Len(s) = IF 1 <= i - 1 THEN i - 1 - 1 + 1 ELSE 0
        /\ \A j \in 1 .. i - 1 - 1 + 1 : s[j] = w[1 + j - 1]
    BY <1>1, <2>1, SubSeqProperties
  <2> HIDE DEF s
  <2>3. i \in Int /\ 1 <= i
    BY <1>1
  <2>4. Len(s) = i - 1
    BY <2>2, <2>3
  <2>5. \A j \in 1 .. i - 1 : s[j] = w[j]
    <3>1. SUFFICES ASSUME NEW j \in 1 .. i - 1 PROVE s[j] = w[j]
      OBVIOUS
    <3>2. j \in 1 .. i - 1 - 1 + 1 /\ 1 + j - 1 = j
      BY <2>3
    <3>3. s[j] = w[1 + j - 1]
      BY <2>2, <3>2
    <3>4. QED
      BY <3>2, <3>3
  <2>6. QED
    BY <2>2, <2>4, <2>5
<1>3. /\ t \in Seq(S) /\ Len(t) = Len(w) - i /\ \A j \in 1 .. Len(w) - i : t[j] = w[i + j]
  <2>1. i + 1 \in Int /\ Len(w) \in Int /\ \A j \in i + 1 .. Len(w) : w[j] \in S
    BY <1>1
  <2>2. /\ t \in Seq(S)
        /\ Len(t) = IF i + 1 <= Len(w) THEN Len(w) - (i + 1) + 1 ELSE 0
        /\ \A j \in 1 .. Len(w) - (i + 1) + 1 : t[j] = w[i + 1 + j - 1]
    BY <1>1, <2>1, SubSeqProperties
  <2> HIDE DEF s, t
  <2>3. i \in Int /\ i <= Len(w)
    BY <1>1
  <2>4. Len(t) = Len(w) - i
    BY <1>1, <2>2, <2>3
  <2>5. \A j \in 1 .. Len(w) - i : t[j] = w[i + j]
    <3>1. SUFFICES ASSUME NEW j \in 1 .. Len(w) - i PROVE t[j] = w[i + j]
      OBVIOUS
    <3>2. j \in 1 .. Len(w) - (i + 1) + 1 /\ i + 1 + j - 1 = i + j
      BY <1>1, <2>3
    <3>3. t[j] = w[i + 1 + j - 1]
      BY <2>2, <3>2
    <3>4. QED
      BY <3>2, <3>3
  <2>6. QED
    BY <2>2, <2>4, <2>5
<1>4. u = all
  OBVIOUS
<1> HIDE DEF s, t
<1>5. /\ all \in Seq(S) /\ Len(all) = Len(s) + Len(t)
      /\ \A j \in 1 .. Len(s) : all[j] = s[j]
      /\ \A j \in 1 .. Len(t) : all[Len(s) + j] = t[j]
  <2>1. s \in Seq(S) /\ t \in Seq(S)
    BY <1>2, <1>3
  <2>2. /\ s \o t \in Seq(S) /\ Len(s \o t) = Len(s) + Len(t)
        /\ \A j \in 1 .. Len(s) : (s \o t)[j] = s[j]
        /\ \A j \in 1 .. Len(t) : (s \o t)[Len(s) + j] = t[j]
    <3>1. \A x, y \in Seq(S) :
            /\ x \o y \in Seq(S) /\ Len(x \o y) = Len(x) + Len(y)
            /\ \A j \in 1 .. Len(x) : (x \o y)[j] = x[j]
            /\ \A j \in 1 .. Len(y) : (x \o y)[Len(x) + j] = y[j]
      BY ConcatElements
    <3>2. QED
      BY <2>1, <3>1
  <2>3. all = s \o t
    OBVIOUS
  <2> HIDE DEF all
  <2>4. QED
    BY <2>2, <2>3
<1> HIDE DEF all
<1>6. /\ Len(all) = Len(w) - 1
      /\ \A j \in 1 .. i - 1 : all[j] = w[j]
      /\ \A j \in 1 .. Len(w) - i : all[(i - 1) + j] = w[i + j]
  <2>1. Len(all) = Len(w) - 1
    BY <1>1, <1>2, <1>3, <1>5
  <2>2. \A j \in 1 .. i - 1 : all[j] = w[j]
    BY <1>2, <1>5
  <2>3. \A j \in 1 .. Len(w) - i : all[(i - 1) + j] = w[i + j]
    BY <1>2, <1>3, <1>5
  <2>4. QED
    BY <2>1, <2>2, <2>3
<1>7. OnWire(w) \subseteq OnWire(all) \cup In(w[i])
  BY <1>1, <1>6, WireGap
<1>8. ASSUME i = 1 PROVE all = Tail(w)
  <2> DEFINE v == Tail(w)
  <2>1. v \in Seq(S) /\ Len(v) = Len(w) - 1 /\ \A j \in 1 .. Len(w) - 1 : v[j] = w[j + 1]
    <3>1. w # <<>>
      BY <1>1, EmptySeq
    <3>2. QED
      BY <1>1, <3>1, HeadTailProperties
  <2> HIDE DEF v
  <2>2. Len(all) = Len(v) /\ \A j \in 1 .. Len(all) : all[j] = v[j]
    <3>1. SUFFICES ASSUME NEW j \in 1 .. Len(w) - 1 PROVE all[j] = v[j]
      BY <1>6, <2>1
    <3>2. (i - 1) + j = j /\ i + j = j + 1 /\ j \in 1 .. Len(w) - i
      BY <1>1, <1>8
    <3>3. all[(i - 1) + j] = w[i + j]
      BY <1>6, <3>2
    <3>4. QED
      BY <2>1, <3>2, <3>3
  <2>3. all = v
    BY <1>5, <2>1, <2>2, SeqEqual
  <2>4. QED
    BY <2>3 DEF v
<1>9. QED
  BY <1>4, <1>5, <1>7, <1>8 DEF S

(* The line of a stream grows by what arrives.                             *)
LEMMA LineGrows ==
  ASSUME TypeOK, Stream, NEW part \in Seq(Msgs), incoming'[1] = incoming[1] \o part,
         unpacked' = unpacked, delivered' = delivered
  PROVE  Line \in Seq(Msgs) /\ Line' = Line \o part
<1>1. 1 \in Peers
  BY PeersFacts DEF TypeOK
<1>2. delivered[1] \in Seq(Msgs) /\ unpacked[1] \in Seq(Msgs) /\ incoming[1] \in Seq(Msgs)
  BY <1>1 DEF TypeOK
<1>3. Line' = delivered[1] \o (unpacked[1] \o (incoming[1] \o part))
  BY DEF Line
<1>4. Regrouped(delivered[1], unpacked[1], incoming[1], part)
  BY <1>2, ThreeParts
<1>5. unpacked[1] \o incoming[1] \in Seq(Msgs)
  BY <1>2, ConcatProperties
<1>6. Line \in Seq(Msgs)
  BY <1>2, <1>5, ConcatProperties DEF Line
<1>7. QED
  BY <1>3, <1>4, <1>6 DEF Line, Regrouped

LEMMA HandleReceivedStep ==
  ASSUME IInv, NEW p \in Peers, HandleReceived(p)
  PROVE  IInv'
<1>1. PICK i \in 1 .. Len(wire[p]) :
         /\ Stream => i = 1
         /\ incoming' = [incoming EXCEPT ![p] = incoming[p] \o wire[p][i]]
         /\ wire' = [wire EXCEPT ![p] = SubSeq(wire[p], 1, i - 1)
                                            \o SubSeq(wire[p], i + 1, Len(wire[p]))]
  BY DEF HandleReceived
<1>2. /\ n' = n /\ log' = log /\ outgoing' = outgoing /\ index' = index /\ sending' = sending
      /\ inflight' = inflight /\ countdown' = countdown /\ prevCount' = prevCount
      /\ open' = open /\ unpacked' = unpacked /\ accepting' = accepting
      /\ delivered' = delivered /\ dropped' = dropped /\ lost' = lost
  BY DEF HandleReceived, senderVars
<1>3. /\ TypeOK /\ n \in Groups /\ wire \in [Peers -> Seq(Seq(Msgs))] /\ incoming \in [Peers -> Seq(Msgs)]
  BY DEF IInv, TypeOK
<1> DEFINE block == wire[p][i]
           more == incoming[p] \o block
           rest == SubSeq(wire[p], 1, i - 1) \o SubSeq(wire[p], i + 1, Len(wire[p]))
<1>4. /\ wire[p] \in Seq(Seq(Msgs)) /\ incoming[p] \in Seq(Msgs) /\ block \in Seq(Msgs)
  BY <1>3, ElementOfSeq
<1>5. more \in Seq(Msgs) /\ In(more) = In(incoming[p]) \cup In(block)
  <2> HIDE DEF block
  <2>1. QED
    BY <1>4, ConcatProperties, InConcat
<1>6. /\ rest \in Seq(Seq(Msgs)) /\ OnWire(wire[p]) \subseteq OnWire(rest) \cup In(block)
      /\ i = 1 => rest = Tail(wire[p])
  BY <1>4, WireRemove
<1>7. /\ incoming' = [incoming EXCEPT ![p] = more] /\ wire' = [wire EXCEPT ![p] = rest]
  BY <1>1
<1> HIDE DEF more, rest
<1>8. /\ incoming' \in [Peers -> Seq(Msgs)] /\ wire' \in [Peers -> Seq(Seq(Msgs))]
      /\ \A q \in Peers : /\ incoming'[q] = IF q = p THEN more ELSE incoming[q]
                          /\ wire'[q] = IF q = p THEN rest ELSE wire[q]
  BY <1>3, <1>5, <1>6, <1>7
<1>9. TypeOK'
  BY <1>2, <1>3, <1>8 DEF TypeOK
<1>10. ASSUME NEW q \in Peers PROVE Reached(q) \subseteq Reached(q)'
  <2>1. CASE q = p
    <3>1. incoming'[q] = more /\ wire'[q] = rest
      BY <1>8, <2>1
    <3> HIDE DEF block
    <3>2. QED
      BY <1>2, <1>5, <1>6, <2>1, <3>1 DEF Reached
  <2>2. CASE q # p
    BY <1>2, <1>8, <2>2 DEF Reached
  <2>3. QED
    BY <2>1, <2>2
<1>11. (InFlightIsQueued /\ Counting /\ Transmitted /\ Kept)'
  BY <1>2, <1>10, SentStays
<1>12. Closed'
  <2>1. SUFFICES ASSUME ~open PROVE Stream /\ lost > 0 /\ wire'[1] = <<>>
    BY <1>2 DEF Closed, Stream
  <2>2. Stream /\ lost > 0 /\ wire[1] = <<>> /\ 1 \in Peers
    BY <1>3, <2>1, PeersFacts DEF IInv, Closed
  <2>3. p # 1
    BY <1>1, <2>2
  <2>4. QED
    BY <1>8, <2>2, <2>3
<1>13. StreamInv'
  <2>1. SUFFICES ASSUME Stream
                 PROVE  StreamOK(log[1], outgoing[1], Line', wire'[1], sending, inflight, open)
    BY <1>2 DEF StreamInv, Stream
  <2>2. /\ 1 \in Peers /\ i = 1
        /\ StreamOK(log[1], outgoing[1], Line, wire[1], sending, inflight, open)
    BY <1>1, <1>3, <2>1, PeersFacts DEF IInv, StreamInv
  <2>3. delivered[1] \in Seq(Msgs) /\ unpacked[1] \in Seq(Msgs) /\ incoming[1] \in Seq(Msgs)
    BY <1>3, <2>2 DEF TypeOK
  <2>4. CASE p = 1
    <3>1. incoming'[1] = incoming[1] \o block /\ wire'[1] = Tail(wire[1]) /\ block = wire[1][1]
      BY <1>6, <1>8, <2>2, <2>4 DEF more
    <3>2. Line' = Line \o block
      <4> HIDE DEF block
      <4>1. incoming'[1] = incoming[1] \o block /\ block \in Seq(Msgs)
        BY <1>4, <3>1
      <4>2. QED
        BY <1>2, <1>3, <2>1, <4>1, LineGrows
    <3>3. Line \in Seq(Msgs)
      BY <1>2, <1>3, <1>4, <2>1, <3>1, LineGrows
    <3>4. wire[1] # <<>>
      BY <1>4, <2>4, EmptySeq
    <3>5. StreamOK(log[1], outgoing[1], Line \o wire[1][1], Tail(wire[1]), sending, inflight, open)
      BY <1>4, <2>2, <2>4, <3>3, <3>4, StreamReceive
    <3>6. QED
      BY <3>1, <3>2, <3>5
  <2>5. CASE p # 1
    <3>1. incoming'[1] = incoming[1] /\ wire'[1] = wire[1]
      BY <1>8, <2>2, <2>5
    <3>2. Line' = Line
      BY <1>2, <3>1 DEF Line
    <3>3. QED
      BY <2>2, <3>1, <3>2
  <2>6. QED
    BY <2>4, <2>5
<1>14. QED
  BY <1>9, <1>11, <1>12, <1>13 DEF IInv

LEMMA LoseDatagramStep ==
  ASSUME IInv, NEW p \in Peers, LoseDatagram(p)
  PROVE  IInv'
<1> DEFINE block == Head(wire[p])
           gone == dropped[p] \cup In(block)
           rest == Tail(wire[p])
<1>1. /\ ~Stream /\ wire[p] # <<>>
      /\ dropped' = [dropped EXCEPT ![p] = gone] /\ wire' = [wire EXCEPT ![p] = rest]
      /\ n' = n /\ log' = log /\ outgoing' = outgoing /\ index' = index /\ sending' = sending
      /\ inflight' = inflight /\ countdown' = countdown /\ prevCount' = prevCount
      /\ open' = open /\ incoming' = incoming /\ unpacked' = unpacked /\ accepting' = accepting
      /\ delivered' = delivered /\ lost' = lost
  BY DEF LoseDatagram, senderVars, receiverVars
<1>2. /\ TypeOK /\ n \in Groups /\ wire \in [Peers -> Seq(Seq(Msgs))]
      /\ dropped \in [Peers -> SUBSET Msgs] /\ wire[p] \in Seq(Seq(Msgs))
  BY DEF IInv, TypeOK
<1>3. /\ Len(wire[p]) \in Nat /\ Len(wire[p]) > 0 /\ block = wire[p][1] /\ block \in Seq(Msgs)
      /\ rest \in Seq(Seq(Msgs)) /\ Len(rest) = Len(wire[p]) - 1
      /\ \A j \in 1 .. Len(rest) : rest[j] = wire[p][j + 1]
  BY <1>1, <1>2, HeadTailProperties, EmptySeq
<1> HIDE DEF block, rest
<1>4. OnWire(wire[p]) \subseteq OnWire(rest) \cup In(block)
  <2>1. SUFFICES ASSUME NEW x \in OnWire(wire[p]) PROVE x \in OnWire(rest) \cup In(block)
    OBVIOUS
  <2>2. PICK j \in 1 .. Len(wire[p]) : x \in In(wire[p][j])
    BY DEF OnWire
  <2>3. CASE j = 1
    BY <1>3, <2>2, <2>3
  <2>4. CASE j - 1 \in 1 .. Len(rest)
    <3>1. rest[j - 1] = wire[p][(j - 1) + 1] /\ (j - 1) + 1 = j
      BY <1>3, <2>4
    <3>2. x \in In(rest[j - 1])
      BY <2>2, <3>1
    <3>3. QED
      BY <2>4, <3>2 DEF OnWire
  <2>5. QED
    BY <1>3, <2>3, <2>4
<1>5. gone \in SUBSET Msgs
  <2>1. In(block) \in SUBSET Msgs
    BY <1>3, InFacts
  <2>2. QED
    BY <1>2, <2>1
<1> HIDE DEF gone
<1>6. /\ dropped' \in [Peers -> SUBSET Msgs] /\ wire' \in [Peers -> Seq(Seq(Msgs))]
      /\ \A q \in Peers : /\ dropped'[q] = IF q = p THEN gone ELSE dropped[q]
                          /\ wire'[q] = IF q = p THEN rest ELSE wire[q]
  BY <1>1, <1>2, <1>3, <1>5
<1>7. TypeOK'
  BY <1>1, <1>2, <1>6 DEF TypeOK
<1>8. ASSUME NEW q \in Peers PROVE Reached(q) \subseteq Reached(q)'
  <2>1. CASE q = p
    <3>1. dropped'[q] = gone /\ wire'[q] = rest
      BY <1>6, <2>1
    <3>2. dropped[p] \cup In(block) = gone
      BY DEF gone
    <3>3. QED
      BY <1>1, <1>4, <2>1, <3>1, <3>2 DEF Reached
  <2>2. CASE q # p
    BY <1>1, <1>6, <2>2 DEF Reached
  <2>3. QED
    BY <2>1, <2>2
<1>9. (InFlightIsQueued /\ Counting /\ Transmitted /\ Kept)'
  BY <1>1, <1>8, SentStays
<1>10. Closed' /\ StreamInv'
  <2>1. open
    BY <1>1 DEF IInv, Closed
  <2>2. QED
    BY <1>1, <2>1 DEF Closed, StreamInv, Stream
<1>11. QED
  BY <1>7, <1>9, <1>10 DEF IInv

LEMMA LoseConnectionStep ==
  ASSUME IInv, LoseConnection
  PROVE  IInv'
<1> DEFINE next == IF wire[1] # <<>> THEN Head(wire[1])
                   ELSE IF sending /\ ~inflight.whole THEN inflight.msgs ELSE <<>>
<1>1. /\ Stream /\ open /\ lost < MaxLost /\ open' = FALSE /\ lost' = lost + 1
      /\ wire' = [wire EXCEPT ![1] = <<>>]
      /\ n' = n /\ log' = log /\ outgoing' = outgoing /\ index' = index /\ sending' = sending
      /\ inflight' = inflight /\ countdown' = countdown /\ prevCount' = prevCount
      /\ unpacked' = unpacked /\ accepting' = accepting /\ delivered' = delivered
      /\ dropped' = dropped
  BY DEF LoseConnection, senderVars
<1>2. PICK k \in 0 .. Len(next) : incoming' = [incoming EXCEPT ![1] = incoming[1] \o SubSeq(next, 1, k)]
  BY DEF LoseConnection
<1>3. /\ TypeOK /\ n \in Groups /\ wire \in [Peers -> Seq(Seq(Msgs))]
      /\ incoming \in [Peers -> Seq(Msgs)] /\ lost \in Nat /\ sending \in BOOLEAN
      /\ log \in [Peers -> Seq(Msgs)] /\ outgoing \in [Peers -> Seq(Msgs)]
      /\ open = TRUE
  BY <1>1, AsioConnectionAssumption DEF IInv, TypeOK
<1>4. 1 \in Peers /\ \A q \in 1 .. n : q = 1
  BY <1>1, <1>3, PeersFacts
<1>5. sending => /\ inflight.msgs \in Seq(Msgs)
                 /\ In(inflight.msgs) \subseteq In(outgoing[1])
  <2>1. SUFFICES ASSUME sending
                 PROVE  inflight.msgs \in Seq(Msgs) /\ In(inflight.msgs) \subseteq In(outgoing[1])
    OBVIOUS
  <2>2. inflight.to = 1
    BY <1>4, <2>1, SendingFacts
  <2>3. QED
    BY <2>1, <2>2, SendingFacts
<1>6. /\ wire[1] \in Seq(Seq(Msgs)) /\ incoming[1] \in Seq(Msgs)
      /\ log[1] \in Seq(Msgs) /\ outgoing[1] \in Seq(Msgs)
  BY <1>3, <1>4
<1>7. next \in Seq(Msgs)
  <2>1. CASE wire[1] # <<>>
    BY <1>6, <2>1, HeadTailProperties
  <2>2. CASE wire[1] = <<>>
    BY <1>5, <2>2, EmptySeq
  <2>3. QED
    BY <2>1, <2>2
<1> DEFINE part == SubSeq(next, 1, k)
           more == incoming[1] \o part
<1>8. part \in Seq(Msgs)
  <2> HIDE DEF next
  <2>1. QED
    BY <1>7, PartFacts
<1>9. more \in Seq(Msgs)
  <2> HIDE DEF part
  <2>1. QED
    BY <1>6, <1>8, ConcatProperties
<1>10. /\ incoming' \in [Peers -> Seq(Msgs)] /\ incoming'[1] = more
       /\ wire' \in [Peers -> Seq(Seq(Msgs))] /\ wire'[1] = <<>>
  <2>1. incoming' = [incoming EXCEPT ![1] = more]
    BY <1>2
  <2>2. <<>> \in Seq(Seq(Msgs))
    BY NoWire
  <2> HIDE DEF more
  <2>3. QED
    BY <1>1, <1>3, <1>4, <1>9, <2>1, <2>2
<1>11. TypeOK'
  <2>1. lost' \in 0 .. MaxLost
    BY <1>1, <1>3, AsioConnectionAssumption
  <2>2. QED
    BY <1>1, <1>10, <2>1 DEF IInv, TypeOK
<1>12. (InFlightIsQueued /\ Counting /\ Transmitted /\ Kept)'
  <2>1. lost' # 0
    BY <1>1, <1>3
  <2>2. QED
    BY <1>1, <2>1, SentStays
<1>13. Closed'
  BY <1>1, <1>3, <1>10 DEF Closed, Stream
<1>14. StreamInv'
  <2>1. Line \in Seq(Msgs) /\ Line' = Line \o part
    <3> HIDE DEF part
    <3>1. incoming'[1] = incoming[1] \o part
      BY <1>10
    <3>2. QED
      BY <1>1, <1>3, <1>8, <3>1, LineGrows
  <2>2. StreamOK(log[1], outgoing[1], Line, wire[1], sending, inflight, TRUE)
    BY <1>1, <1>3 DEF IInv, StreamInv
  <2>3. next = IF wire[1] # <<>> THEN Head(wire[1])
               ELSE IF sending /\ ~inflight.whole THEN inflight.msgs ELSE <<>>
    OBVIOUS
  <2>4. StreamOK(log[1], outgoing[1], Line \o SubSeq(next, 1, k), <<>>, sending, inflight, FALSE)
    <3> HIDE DEF next
    <3>1. QED
      BY <1>3, <1>5, <1>6, <2>1, <2>2, <2>3, StreamLose
  <2>5. QED
    BY <1>1, <1>10, <2>1, <2>4 DEF StreamInv, Stream
<1>15. QED
  BY <1>11, <1>12, <1>13, <1>14 DEF IInv

LEMMA ReconnectStep ==
  ASSUME IInv, Reconnect
  PROVE  IInv'
<1> DEFINE gone == dropped[1] \cup (In(log[1]) \ (In(outgoing[1]) \cup In(delivered[1])))
<1>1. /\ ~open /\ ~sending /\ open' = TRUE /\ dropped' = [dropped EXCEPT ![1] = gone]
      /\ incoming' = [incoming EXCEPT ![1] = <<>>] /\ unpacked' = [unpacked EXCEPT ![1] = <<>>]
      /\ accepting' = [accepting EXCEPT ![1] = FALSE] /\ delivered' = [delivered EXCEPT ![1] = <<>>]
      /\ n' = n /\ log' = log /\ outgoing' = outgoing /\ index' = index /\ sending' = sending
      /\ inflight' = inflight /\ countdown' = countdown /\ prevCount' = prevCount
      /\ wire' = wire /\ lost' = lost
  BY DEF Reconnect, senderVars
<1>2. Stream /\ lost > 0 /\ wire[1] = <<>>
  BY <1>1 DEF IInv, Closed
<1>3. /\ TypeOK /\ n \in Groups /\ lost \in Nat /\ sending = FALSE
      /\ log \in [Peers -> Seq(Msgs)] /\ dropped \in [Peers -> SUBSET Msgs]
      /\ incoming \in [Peers -> Seq(Msgs)] /\ unpacked \in [Peers -> Seq(Msgs)]
      /\ delivered \in [Peers -> Seq(Msgs)] /\ accepting \in [Peers -> BOOLEAN]
  BY <1>1, AsioConnectionAssumption DEF IInv, TypeOK
<1>4. 1 \in Peers
  BY <1>2, <1>3, PeersFacts
<1>5. gone \in SUBSET Msgs
  <2>1. In(log[1]) \in SUBSET Msgs
    BY <1>3, <1>4, InFacts
  <2>2. QED
    BY <1>3, <1>4, <2>1
<1> HIDE DEF gone
<1>6. /\ incoming' \in [Peers -> Seq(Msgs)] /\ unpacked' \in [Peers -> Seq(Msgs)]
      /\ delivered' \in [Peers -> Seq(Msgs)] /\ accepting' \in [Peers -> BOOLEAN]
      /\ dropped' \in [Peers -> SUBSET Msgs]
  <2>1. <<>> \in Seq(Msgs)
    BY EmptySeq
  <2>2. QED
    BY <1>1, <1>3, <1>4, <1>5, <2>1
<1>7. incoming'[1] = <<>> /\ unpacked'[1] = <<>> /\ delivered'[1] = <<>>
  BY <1>1, <1>3, <1>4
<1>8. TypeOK'
  BY <1>1, <1>6 DEF IInv, TypeOK
<1>9. (InFlightIsQueued /\ Counting /\ Transmitted /\ Kept)'
  <2>1. lost' # 0
    BY <1>1, <1>2, <1>3
  <2>2. QED
    BY <1>1, <2>1, SentStays
<1>10. Closed'
  BY <1>1 DEF Closed
<1>11. StreamInv'
  <2>1. Line' = <<>> \o (<<>> \o <<>>)
    BY <1>7 DEF Line
  <2>2. Line' = <<>>
    <3>1. <<>> \in Seq(Msgs)
      BY EmptySeq
    <3>2. QED
      BY <2>1, <3>1, ConcatEmptySeq
  <2>3. StreamOK(log[1], outgoing[1], Line, wire[1], FALSE, inflight, open)
    BY <1>2, <1>3 DEF IInv, StreamInv
  <2>4. StreamOK(log[1], outgoing[1], <<>>, <<>>, FALSE, inflight, TRUE)
    BY <2>3, StreamReconnect
  <2>5. QED
    BY <1>1, <1>2, <1>3, <2>2, <2>4 DEF StreamInv
<1>12. QED
  BY <1>8, <1>9, <1>10, <1>11 DEF IInv

LEMMA AdoptStep ==
  ASSUME IInv, NEW p \in Peers, Adopt(p)
  PROVE  IInv'
<1>1. /\ accepting' = [accepting EXCEPT ![p] = TRUE]
      /\ n' = n /\ log' = log /\ outgoing' = outgoing /\ index' = index /\ sending' = sending
      /\ inflight' = inflight /\ countdown' = countdown /\ prevCount' = prevCount
      /\ open' = open /\ wire' = wire /\ incoming' = incoming /\ unpacked' = unpacked
      /\ delivered' = delivered /\ dropped' = dropped /\ lost' = lost
  BY DEF Adopt, senderVars
<1>2. TypeOK'
  BY <1>1 DEF IInv, TypeOK
<1>3. (InFlightIsQueued /\ Counting /\ Transmitted /\ Kept)'
  BY <1>1, SentStays DEF Reached
<1>4. (Closed /\ StreamInv)'
  BY <1>1 DEF IInv, Closed, StreamInv, Stream, Line
<1>5. QED
  BY <1>2, <1>3, <1>4 DEF IInv

LEMMA FetchMessagesStep ==
  ASSUME IInv, NEW p \in Peers, FetchMessages(p)
  PROVE  IInv'
<1> DEFINE all == unpacked[p] \o incoming[p]
           left == IF accepting[p] THEN <<>> ELSE all
           done == IF accepting[p] THEN delivered[p] \o all ELSE delivered[p]
<1>1. /\ incoming' = [incoming EXCEPT ![p] = <<>>] /\ unpacked' = [unpacked EXCEPT ![p] = left]
      /\ delivered' = [delivered EXCEPT ![p] = done]
      /\ n' = n /\ log' = log /\ outgoing' = outgoing /\ index' = index /\ sending' = sending
      /\ inflight' = inflight /\ countdown' = countdown /\ prevCount' = prevCount
      /\ open' = open /\ wire' = wire /\ accepting' = accepting
      /\ dropped' = dropped /\ lost' = lost
  BY DEF FetchMessages, senderVars
<1>2. /\ TypeOK /\ n \in Groups
      /\ incoming \in [Peers -> Seq(Msgs)] /\ unpacked \in [Peers -> Seq(Msgs)]
      /\ delivered \in [Peers -> Seq(Msgs)]
      /\ incoming[p] \in Seq(Msgs) /\ unpacked[p] \in Seq(Msgs) /\ delivered[p] \in Seq(Msgs)
  BY DEF IInv, TypeOK
<1>3. all \in Seq(Msgs) /\ In(all) = In(unpacked[p]) \cup In(incoming[p])
  BY <1>2, ConcatProperties, InConcat
<1> HIDE DEF all
<1>4. /\ left \in Seq(Msgs) /\ done \in Seq(Msgs) /\ <<>> \in Seq(Msgs)
      /\ In(left) \cup In(done) = In(delivered[p]) \cup In(all)
  <2>1. CASE accepting[p]
    <3>1. left = <<>> /\ done = delivered[p] \o all /\ In(<<>>) = {}
      BY <2>1 DEF In
    <3>2. In(delivered[p] \o all) = In(delivered[p]) \cup In(all)
      BY <1>2, <1>3, InConcat
    <3>3. <<>> \in Seq(Msgs) /\ delivered[p] \o all \in Seq(Msgs)
      BY <1>2, <1>3, EmptySeq, ConcatProperties
    <3>4. QED
      BY <3>1, <3>2, <3>3
  <2>2. CASE ~accepting[p]
    BY <1>2, <1>3, <2>2, EmptySeq
  <2>3. QED
    BY <2>1, <2>2
<1>5. Line' = Line \/ p # 1
  <2>1. SUFFICES ASSUME p = 1 PROVE Line' = Line
    OBVIOUS
  <2>2. Line = delivered[p] \o all
    BY <2>1 DEF Line, all
  <2>3. Line' = done \o (left \o <<>>)
    BY <1>1, <1>2, <2>1 DEF Line
  <2>4. left \o <<>> = left
    BY <1>4, ConcatEmptySeq
  <2>5. done \o left = delivered[p] \o all
    <3>1. CASE accepting[p]
      <4>1. left = <<>> /\ done = delivered[p] \o all
        BY <3>1
      <4>2. done \o <<>> = done
        BY <1>4, ConcatEmptySeq
      <4>3. QED
        BY <4>1, <4>2
    <3>2. CASE ~accepting[p]
      BY <3>2
    <3>3. QED
      BY <3>1, <3>2
  <2> HIDE DEF left, done
  <2>6. QED
    BY <2>2, <2>3, <2>4, <2>5
<1> HIDE DEF left, done
<1>6. /\ incoming' \in [Peers -> Seq(Msgs)] /\ unpacked' \in [Peers -> Seq(Msgs)]
      /\ delivered' \in [Peers -> Seq(Msgs)]
      /\ \A q \in Peers : /\ incoming'[q] = IF q = p THEN <<>> ELSE incoming[q]
                          /\ unpacked'[q] = IF q = p THEN left ELSE unpacked[q]
                          /\ delivered'[q] = IF q = p THEN done ELSE delivered[q]
  BY <1>1, <1>2, <1>4
<1>7. TypeOK'
  BY <1>1, <1>6 DEF IInv, TypeOK
<1>8. ASSUME NEW q \in Peers PROVE Reached(q) \subseteq Reached(q)'
  <2>1. CASE q = p
    <3>1. incoming'[q] = <<>> /\ unpacked'[q] = left /\ delivered'[q] = done
      BY <1>6, <2>1
    <3>2. In(incoming[q]) \cup In(unpacked[q]) \cup In(delivered[q]) = In(left) \cup In(done)
      BY <1>3, <1>4, <2>1
    <3>3. QED
      BY <1>1, <3>1, <3>2 DEF Reached
  <2>2. CASE q # p
    BY <1>1, <1>6, <2>2 DEF Reached
  <2>3. QED
    BY <2>1, <2>2
<1>9. (InFlightIsQueued /\ Counting /\ Transmitted /\ Kept)'
  BY <1>1, <1>8, SentStays
<1>10. Closed'
  BY <1>1 DEF IInv, Closed, Stream
<1>11. StreamInv'
  <2>1. SUFFICES ASSUME Stream
                 PROVE  StreamOK(log[1], outgoing[1], Line', wire[1], sending, inflight, open)
    BY <1>1 DEF StreamInv, Stream
  <2>2. Line' = Line
    <3>1. CASE p = 1
      BY <1>5, <3>1
    <3>2. CASE p # 1
      <4>1. 1 \in Peers
        BY <1>2, <2>1, PeersFacts
      <4>2. QED
        BY <1>6, <3>2, <4>1 DEF Line
    <3>3. QED
      BY <3>1, <3>2
  <2>3. QED
    BY <2>1, <2>2 DEF IInv, StreamInv
<1>12. QED
  BY <1>7, <1>9, <1>10, <1>11 DEF IInv

LEMMA NextIInv == IInv /\ [Next]_vars => IInv'
<1> SUFFICES ASSUME IInv, [Next]_vars PROVE IInv'
  OBVIOUS
<1>1. CASE UNCHANGED vars
  BY <1>1 DEF vars, senderVars, receiverVars, IInv, TypeOK, InFlightIsQueued, Counting, Closed,
              Transmitted, Kept, StreamInv, Stream, Line, Reached
<1>2. ASSUME NEW p \in Peers, NEW m \in Msgs, Send(p, m) PROVE IInv'
  BY <1>2, SendStep
<1>3. ASSUME NEW p \in Peers, HandleReceived(p) PROVE IInv'
  BY <1>3, HandleReceivedStep
<1>4. ASSUME NEW p \in Peers, LoseDatagram(p) PROVE IInv'
  BY <1>4, LoseDatagramStep
<1>5. ASSUME NEW p \in Peers, Adopt(p) PROVE IInv'
  BY <1>5, AdoptStep
<1>6. ASSUME NEW p \in Peers, FetchMessages(p) PROVE IInv'
  BY <1>6, FetchMessagesStep
<1>7. QED
  BY <1>1, <1>2, <1>3, <1>4, <1>5, <1>6, UpdateStep, TransmitStep, HandleSentStep,
     HandleSendErrorStep, LoseConnectionStep, ReconnectStep DEF Next

LEMMA AsioIInv == Spec => []IInv
  BY InitIInv, NextIInv, PTL DEF Spec

(* TypeOK, in every reachable state: in particular, a block that is being  *)
(* written always is for one of the peers.                                 *)
THEOREM AsioTypeOK == Spec => []TypeOK
<1>1. IInv => TypeOK
  BY DEF IInv
<1>2. QED
  BY <1>1, AsioIInv, PTL

(* InFlightIsQueued: what handle_sent will clean up is what was written.   *)
THEOREM AsioInFlightIsQueued == Spec => []InFlightIsQueued
<1>1. IInv => InFlightIsQueued
  BY DEF IInv
<1>2. QED
  BY <1>1, AsioIInv, PTL

(* NothingIsForgotten: a message that send accepted is queued, under way,  *)
(* handled, or was in a datagram that was lost, for as long as the         *)
(* connection lasts.                                                       *)
THEOREM AsioForgetsNothing == Spec => []NothingIsForgotten
  BY AsioIInv, KeptIsNotForgotten, PTL

-----------------------------------------------------------------------------
(* A stream connection is a channel.                                       *)

LEMMA InThree ==
  ASSUME NEW M, NEW a \in Seq(M), NEW b \in Seq(M), NEW c \in Seq(M)
  PROVE  In(a \o (b \o c)) = In(a) \cup In(b) \cup In(c)
<1> DEFINE bc == b \o c
<1>1. bc \in Seq(M) /\ In(bc) = In(b) \cup In(c)
  BY ConcatProperties, InConcat
<1> HIDE DEF bc
<1>2. In(a \o bc) = In(a) \cup In(bc)
  BY <1>1, InConcat
<1>3. QED
  BY <1>1, <1>2 DEF bc

LEMMA StreamFacts ==
  ASSUME IInv, Stream
  PROVE  /\ 1 \in Peers /\ 1 \in 1 .. n /\ \A q \in 1 .. n : q = 1
         /\ log[1] \in Seq(Msgs) /\ outgoing[1] \in Seq(Msgs) /\ wire[1] \in Seq(Seq(Msgs))
         /\ delivered[1] \in Seq(Msgs) /\ unpacked[1] \in Seq(Msgs) /\ incoming[1] \in Seq(Msgs)
         /\ Line \in Seq(Msgs)
         /\ In(Line) = In(delivered[1]) \cup In(unpacked[1]) \cup In(incoming[1])
         /\ StreamOK(log[1], outgoing[1], Line, wire[1], sending, inflight, open)
<1>1. 1 \in Peers /\ 1 \in 1 .. n /\ \A q \in 1 .. n : q = 1
  BY PeersFacts DEF IInv, TypeOK
<1>2. /\ log[1] \in Seq(Msgs) /\ outgoing[1] \in Seq(Msgs) /\ wire[1] \in Seq(Seq(Msgs))
      /\ delivered[1] \in Seq(Msgs) /\ unpacked[1] \in Seq(Msgs) /\ incoming[1] \in Seq(Msgs)
  BY <1>1 DEF IInv, TypeOK
<1>3. Line \in Seq(Msgs)
  <2>1. unpacked[1] \o incoming[1] \in Seq(Msgs)
    BY <1>2, ConcatProperties
  <2>2. QED
    BY <1>2, <2>1, ConcatProperties DEF Line
<1>4. In(Line) = In(delivered[1]) \cup In(unpacked[1]) \cup In(incoming[1])
  BY <1>2, InThree DEF Line
<1>5. StreamOK(log[1], outgoing[1], Line, wire[1], sending, inflight, open)
  BY DEF IInv, StreamInv
<1>6. QED
  BY <1>1, <1>2, <1>3, <1>4, <1>5

LEMMA WaitingFacts ==
  ASSUME IInv, Stream
  PROVE  /\ Waiting = (In(outgoing[1]) \cup OnWire(wire[1]) \cup In(Line)) \ In(delivered[1])
         /\ In(delivered[1]) \subseteq In(log[1]) /\ Waiting \subseteq In(log[1])
<1>1. Waiting = (In(outgoing[1]) \cup OnWire(wire[1]) \cup In(Line)) \ In(delivered[1])
  BY StreamFacts DEF Waiting, InTransit
<1>2. In(outgoing[1]) \subseteq In(log[1]) /\ In(Line) \cup OnWire(wire[1]) \subseteq In(log[1])
  BY StreamFacts DEF StreamOK
<1>3. In(delivered[1]) \subseteq In(Line)
  BY StreamFacts
<1>4. QED
  BY <1>1, <1>2, <1>3

(* What is fetched from a stream, all, where its peer has handled d: of    *)
(* what waits then, only larger messages were accepted earlier.            *)
Ready(l, todo, all) ==
    \A i \in 1 .. Len(all) :
        LET waiting == todo \ {all[j] : j \in 1 .. (i - 1)}
        IN  /\ all[i] \in waiting
            /\ \A k \in waiting : Earlier(l, k, all[i]) => Size[all[i]] < Size[k]

LEMMA FetchOrder ==
  ASSUME NEW l \in Seq(Msgs), NEW q \in Seq(Msgs), NEW d \in Seq(Msgs), NEW all \in Seq(Msgs),
         NEW w \in Seq(Seq(Msgs)), NEW sends, NEW block, NEW isOpen,
         StreamOK(l, q, d \o all, w, sends, block, isOpen),
         NEW todo, todo = (In(q) \cup OnWire(w) \cup In(d \o all)) \ In(d)
  PROVE  /\ \A i \in 1 .. Len(all) : all[i] \in todo
         /\ \A i, j \in 1 .. Len(all) : i < j => Fine(l, all[i], all[j])
         /\ Ready(l, todo, all)
<1> DEFINE s == d \o all
<1>1. /\ Len(d) \in Nat /\ Len(all) \in Nat /\ Len(s) = Len(d) + Len(all)
      /\ \A j \in 1 .. Len(d) : s[j] = d[j]
      /\ \A j \in 1 .. Len(all) : s[Len(d) + j] = all[j]
  <2>1. Len(d) \in Nat /\ Len(all) \in Nat
    BY LenProperties
  <2>2. /\ Len(s) = Len(d) + Len(all)
        /\ \A j \in 1 .. Len(d) : s[j] = d[j]
        /\ \A j \in 1 .. Len(all) : s[Len(d) + j] = all[j]
    BY ConcatElements
  <2>3. QED
    BY <2>1, <2>2
<1>2. In(s) = In(d) \cup In(all)
  BY InConcat
<1> HIDE DEF s
<1>3. /\ Once(l) /\ Tidy(l, s) /\ In(q) \subseteq In(l)
      /\ \A i \in 1 .. Len(w) : After(l, In(s), In(w[i]))
      /\ After(l, In(s) \cup OnWire(w), In(q) \ (In(s) \cup OnWire(w)))
      /\ todo = (In(q) \cup OnWire(w) \cup In(s)) \ In(d)
  BY DEF StreamOK, LineOK, s
<1>4. \A i, j \in 1 .. Len(all) : i < j => Fine(l, all[i], all[j])
  <2>1. SUFFICES ASSUME NEW i \in 1 .. Len(all), NEW j \in 1 .. Len(all), i < j
                 PROVE  Fine(l, all[i], all[j])
    OBVIOUS
  <2>2. /\ Len(d) + i \in 1 .. Len(s) /\ Len(d) + j \in 1 .. Len(s) /\ Len(d) + i < Len(d) + j
        /\ s[Len(d) + i] = all[i] /\ s[Len(d) + j] = all[j]
    BY <1>1, <2>1
  <2>3. Fine(l, s[Len(d) + i], s[Len(d) + j])
    BY <1>3, <2>2 DEF Tidy
  <2>4. QED
    BY <2>2, <2>3
<1>5. \A i \in 1 .. Len(all) : all[i] \in todo
  <2>1. SUFFICES ASSUME NEW i \in 1 .. Len(all), all[i] \in In(d) PROVE FALSE
    BY <1>2, <1>3 DEF In
  <2>2. PICK j \in 1 .. Len(d) : all[i] = d[j]
    BY <2>1 DEF In
  <2>3. /\ j \in 1 .. Len(s) /\ Len(d) + i \in 1 .. Len(s) /\ j < Len(d) + i
        /\ s[j] = d[j] /\ s[Len(d) + i] = all[i]
    BY <1>1
  <2>4. Fine(l, s[j], s[Len(d) + i])
    BY <1>3, <2>3 DEF Tidy
  <2>5. QED
    BY <2>2, <2>3, <2>4 DEF Fine
<1>6. ASSUME NEW i \in 1 .. Len(all), NEW k \in todo \ {all[j] : j \in 1 .. (i - 1)},
             Earlier(l, k, all[i])
      PROVE  Size[all[i]] < Size[k]
  <2>1. all[i] \in In(s) /\ all[i] # k
    <3>1. all[i] # k
      BY <1>3, <1>6, EarlierFacts
    <3>2. QED
      BY <1>2, <3>1 DEF In
  <2>2. CASE k \in In(all)
    <3>1. PICK j \in 1 .. Len(all) : k = all[j]
      BY <2>2 DEF In
    <3>2. j \notin 1 .. (i - 1)
      BY <1>6, <3>1
    <3>3. i < j
      BY <1>1, <2>1, <3>1, <3>2
    <3>4. Fine(l, all[i], all[j])
      BY <1>4, <3>3
    <3>5. QED
      BY <1>6, <3>1, <3>4 DEF Fine
  <2>3. CASE k \notin In(all) /\ k \in OnWire(w)
    <3>1. PICK j \in 1 .. Len(w) : k \in In(w[j])
      BY <2>3 DEF OnWire
    <3>2. Fine(l, all[i], k)
      BY <1>3, <2>1, <3>1 DEF After
    <3>3. QED
      BY <1>6, <3>2 DEF Fine
  <2>4. CASE k \notin In(all) /\ k \notin OnWire(w)
    <3>1. k \in In(q) \ (In(s) \cup OnWire(w))
      BY <1>2, <1>3, <1>6, <2>4
    <3>2. Fine(l, all[i], k)
      BY <1>3, <2>1, <3>1 DEF After
    <3>3. QED
      BY <1>6, <3>2 DEF Fine
  <2>5. QED
    BY <2>2, <2>3, <2>4
<1>7. ASSUME NEW i \in 1 .. Len(all) PROVE all[i] \notin {all[j] : j \in 1 .. (i - 1)}
  <2>1. SUFFICES ASSUME NEW j \in 1 .. (i - 1), all[j] = all[i] PROVE FALSE
    OBVIOUS
  <2>2. j \in 1 .. Len(all) /\ j < i
    BY <1>1
  <2>3. Fine(l, all[j], all[i])
    BY <1>4, <2>2
  <2>4. QED
    BY <2>1, <2>3 DEF Fine
<1>8. Ready(l, todo, all)
  BY <1>5, <1>6, <1>7 DEF Ready
<1>9. QED
  BY <1>4, <1>5, <1>8

(* As many messages wait as are fetched.                                   *)
LEMMA FetchBound ==
  ASSUME NEW l \in Seq(Msgs), NEW todo \in SUBSET In(l), NEW all \in Seq(Msgs),
         \A i \in 1 .. Len(all) : all[i] \in todo,
         \A i, j \in 1 .. Len(all) : i < j => all[i] # all[j]
  PROVE  Cardinality(todo) \in Nat /\ Len(all) <= Cardinality(todo)
<1>1. IsFiniteSet(In(l))
  <2>1. l \in Surjection(1 .. Len(l), In(l))
    <3>1. l \in [1 .. Len(l) -> In(l)]
      <4>1. l \in [1 .. Len(l) -> Msgs]
        BY SeqDef, LenProperties
      <4>2. QED
        BY <4>1 DEF In
    <3>2. QED
      BY <3>1 DEF Surjection, In
  <2>2. IsFiniteSet(1 .. Len(l))
    BY LenProperties, FS_Interval
  <2>3. QED
    BY <2>1, <2>2, FS_Surjection
<1>2. IsFiniteSet(todo) /\ Cardinality(todo) \in Nat
  BY <1>1, FS_Subset, FS_CardinalityType
<1>3. Len(all) \in Nat /\ IsFiniteSet(1 .. Len(all)) /\ Cardinality(1 .. Len(all)) = Len(all)
  <2>1. Len(all) \in Nat
    BY LenProperties
  <2> DEFINE N == Len(all)
  <2>2. N \in Nat
    BY <2>1
  <2>3. IsFiniteSet(1 .. N) /\ Cardinality(1 .. N) = N
    <3> HIDE DEF N
    <3>1. IsFiniteSet(1 .. N) /\ Cardinality(1 .. N) = IF 1 > N THEN 0 ELSE N - 1 + 1
      BY <2>2, FS_Interval
    <3>2. QED
      BY <2>2, <3>1
  <2>4. QED
    BY <2>2, <2>3
<1>4. ASSUME Cardinality(todo) < Len(all) PROVE FALSE
  <2>1. all \in [1 .. Len(all) -> todo]
    BY LenProperties
  <2>2. PICK x, y \in 1 .. Len(all) : x # y /\ all[x] = all[y]
    BY <1>2, <1>3, <1>4, <2>1, FS_PigeonHole
  <2>3. x < y \/ y < x
    BY <2>2
  <2>4. QED
    BY <2>2, <2>3
<1>5. QED
  BY <1>2, <1>3, <1>4

(* The channel stays as it is, or one of its actions is taken.             *)
LEMMA ChannelStays ==
  ASSUME Stream, n' = n, log'[1] = log[1], delivered'[1] = delivered[1], Waiting' = Waiting
  PROVE  UNCHANGED Ch!vars
  BY DEF Ch!vars, Stream

LEMMA ChannelBreaks ==
  ASSUME Stream, n' = n, log'[1] = log[1], delivered'[1] = delivered[1],
         Waiting' \subseteq Waiting
  PROVE  Ch!Next
<1>1. Ch!Break
  BY DEF Ch!Break, Stream
<1>2. QED
  BY <1>1 DEF Ch!Next

LEMMA ChannelSend ==
  ASSUME IInv, Stream, NEW p \in Peers, NEW m \in Msgs, Send(p, m)
  PROVE  Ch!Next
<1>1. /\ p <= n /\ \A q \in Peers : m \notin In(log[q])
      /\ log' = [log EXCEPT ![p] = Append(log[p], m)]
      /\ outgoing' = [outgoing EXCEPT ![p] = Append(outgoing[p], m)]
      /\ n' = n /\ wire' = wire /\ incoming' = incoming /\ unpacked' = unpacked
      /\ delivered' = delivered
  BY DEF Send, Enqueue, receiverVars
<1>2. /\ 1 \in Peers /\ log[1] \in Seq(Msgs) /\ outgoing[1] \in Seq(Msgs)
      /\ log \in [Peers -> Seq(Msgs)] /\ outgoing \in [Peers -> Seq(Msgs)] /\ n \in Groups
  BY StreamFacts DEF IInv, TypeOK
<1>3. p = 1
  BY <1>1, <1>2, PeersFacts
<1>4. log'[1] = Append(log[1], m) /\ outgoing'[1] = Append(outgoing[1], m)
  BY <1>1, <1>2, <1>3
<1>5. In(outgoing'[1]) = In(outgoing[1]) \cup {m}
  BY <1>2, <1>4, InAppend
<1>6. m \notin In(log[1]) /\ m \notin In(delivered[1])
  BY <1>1, <1>2, WaitingFacts
<1>7. Waiting' = Waiting \cup {m}
  BY <1>1, <1>5, <1>6 DEF Waiting, InTransit
<1>8. Ch!Accept(m)
  <2>1. m \notin Ch!In(IF Stream THEN log[1] ELSE <<>>)
    BY <1>6 DEF Ch!In, In
  <2>2. QED
    BY <1>1, <1>4, <1>7, <2>1 DEF Ch!Accept, Stream
<1>9. QED
  BY <1>8 DEF Ch!Next

LEMMA ChannelTransmit ==
  ASSUME IInv, Stream, Transmit
  PROVE  UNCHANGED Ch!vars
<1> DEFINE to == inflight.to
<1>1. /\ sending /\ wire' = [wire EXCEPT ![to] = Append(wire[to], inflight.msgs)]
      /\ n' = n /\ log' = log /\ outgoing' = outgoing /\ incoming' = incoming
      /\ unpacked' = unpacked /\ delivered' = delivered
  BY DEF Transmit, receiverVars
<1>2. to = 1 /\ 1 \in Peers /\ inflight.msgs \in Seq(Msgs) /\ In(inflight.msgs) \subseteq In(outgoing[1])
  BY <1>1, SendingFacts, StreamFacts
<1>3. wire[1] \in Seq(Seq(Msgs)) /\ wire'[1] = Append(wire[1], inflight.msgs)
  BY <1>1, <1>2 DEF IInv, TypeOK
<1>4. OnWire(wire'[1]) = OnWire(wire[1]) \cup In(inflight.msgs)
  BY <1>2, <1>3, WireAppend
<1>5. Waiting' = Waiting
  BY <1>1, <1>2, <1>4 DEF Waiting, InTransit
<1>6. QED
  BY <1>1, <1>5, ChannelStays

LEMMA ChannelHandleSent ==
  ASSUME IInv, Stream, HandleSent
  PROVE  Ch!Next
<1> DEFINE to == inflight.to
           rest == Cleanup(outgoing[to], inflight.bits)
<1>1. /\ sending /\ outgoing' = [outgoing EXCEPT ![to] = rest]
      /\ n' = n /\ log' = log /\ wire' = wire /\ incoming' = incoming
      /\ unpacked' = unpacked /\ delivered' = delivered
  BY DEF HandleSent, receiverVars
<1>2. /\ to = 1 /\ 1 \in Peers /\ outgoing[to] \in Seq(Msgs)
      /\ inflight.bits \in SUBSET (1 .. Len(outgoing[to]))
      /\ inflight.msgs = Picked(outgoing[to], inflight.bits)
  BY <1>1, SendingFacts, StreamFacts
<1>3. In(outgoing[to]) = In(inflight.msgs) \cup In(rest)
  BY <1>2, CleanupFacts
<1> HIDE DEF rest
<1>4. outgoing'[1] = rest
  BY <1>1, <1>2 DEF IInv, TypeOK
<1>5. Waiting' \subseteq Waiting
  BY <1>1, <1>2, <1>3, <1>4 DEF Waiting, InTransit
<1>6. QED
  BY <1>1, <1>5, ChannelBreaks

LEMMA ChannelHandleReceived ==
  ASSUME IInv, Stream, NEW p \in Peers, HandleReceived(p)
  PROVE  UNCHANGED Ch!vars
<1>1. PICK i \in 1 .. Len(wire[p]) :
         /\ i = 1
         /\ incoming' = [incoming EXCEPT ![p] = incoming[p] \o wire[p][i]]
         /\ wire' = [wire EXCEPT ![p] = SubSeq(wire[p], 1, i - 1)
                                            \o SubSeq(wire[p], i + 1, Len(wire[p]))]
  BY DEF HandleReceived
<1>2. /\ n' = n /\ log' = log /\ outgoing' = outgoing /\ unpacked' = unpacked
      /\ delivered' = delivered
  BY DEF HandleReceived
<1>3. /\ 1 \in Peers /\ wire \in [Peers -> Seq(Seq(Msgs))] /\ incoming \in [Peers -> Seq(Msgs)]
      /\ wire[1] \in Seq(Seq(Msgs)) /\ incoming[1] \in Seq(Msgs)
  BY StreamFacts DEF IInv, TypeOK
<1>4. CASE p # 1
  <2>1. incoming'[1] = incoming[1] /\ wire'[1] = wire[1]
    BY <1>1, <1>3, <1>4
  <2>2. Waiting' = Waiting
    BY <1>2, <2>1 DEF Waiting, InTransit
  <2>3. QED
    BY <1>2, <2>2, ChannelStays
<1>5. CASE p = 1
  <2> DEFINE block == wire[1][1]
             rest == SubSeq(wire[1], 1, 1 - 1) \o SubSeq(wire[1], 1 + 1, Len(wire[1]))
  <2>1. wire[1] # <<>> /\ block \in Seq(Msgs) /\ 1 \in 1 .. Len(wire[1])
    BY <1>1, <1>3, <1>5, EmptySeq, ElementOfSeq
  <2>2. rest = Tail(wire[1])
    BY <1>3, <2>1, WireRemove
  <2>3. incoming'[1] = incoming[1] \o block /\ wire'[1] = Tail(wire[1])
    BY <1>1, <1>3, <1>5, <2>2
  <2>4. In(Line \o block) \cup OnWire(Tail(wire[1])) = In(Line) \cup OnWire(wire[1])
    <3> DEFINE l == log[1]
               s == Line
               w == wire[1]
    <3>1. s \in Seq(Msgs) /\ w \in Seq(Seq(Msgs)) /\ w # <<>> /\ LineOK(l, s, w)
      BY <2>1, StreamFacts DEF StreamOK
    <3> HIDE DEF l, s, w
    <3>2. In(s \o w[1]) \cup OnWire(Tail(w)) = In(s) \cup OnWire(w)
      BY <3>1, LineReceive
    <3>3. QED
      BY <3>2 DEF s, w
  <2>5. /\ In(Line \o block) = In(Line) \cup In(block)
        /\ In(incoming[1] \o block) = In(incoming[1]) \cup In(block)
    <3> HIDE DEF block
    <3>1. In(Line \o block) = In(Line) \cup In(block)
      BY <2>1, StreamFacts, InConcat
    <3>2. In(incoming[1] \o block) = In(incoming[1]) \cup In(block)
      BY <1>3, <2>1, InConcat
    <3>3. QED
      BY <3>1, <3>2
  <2>6. In(Line) = In(delivered[1]) \cup In(unpacked[1]) \cup In(incoming[1])
    BY StreamFacts
  <2> HIDE DEF block, rest
  <2>7. Waiting' = (In(outgoing[1]) \cup OnWire(Tail(wire[1])) \cup In(incoming[1] \o block)
                       \cup In(unpacked[1])) \ In(delivered[1])
    BY <1>2, <2>3 DEF Waiting, InTransit
  <2>8. Waiting' = Waiting
    BY <2>4, <2>5, <2>6, <2>7, WaitingFacts
  <2>9. QED
    BY <1>2, <2>8, ChannelStays
<1>6. QED
  BY <1>4, <1>5

LEMMA ChannelLose ==
  ASSUME IInv, Stream, LoseConnection
  PROVE  Ch!Next
<1> DEFINE next == IF wire[1] # <<>> THEN Head(wire[1])
                   ELSE IF sending /\ ~inflight.whole THEN inflight.msgs ELSE <<>>
<1>1. /\ wire' = [wire EXCEPT ![1] = <<>>]
      /\ n' = n /\ log' = log /\ outgoing' = outgoing /\ unpacked' = unpacked
      /\ delivered' = delivered
  BY DEF LoseConnection
<1>2. PICK k \in 0 .. Len(next) : incoming' = [incoming EXCEPT ![1] = incoming[1] \o SubSeq(next, 1, k)]
  BY DEF LoseConnection
<1>3. /\ 1 \in Peers /\ wire \in [Peers -> Seq(Seq(Msgs))] /\ incoming \in [Peers -> Seq(Msgs)]
      /\ wire[1] \in Seq(Seq(Msgs)) /\ incoming[1] \in Seq(Msgs)
  BY StreamFacts DEF IInv, TypeOK
<1>4. next \in Seq(Msgs) /\ In(next) \subseteq OnWire(wire[1]) \cup In(outgoing[1])
  <2>1. CASE wire[1] # <<>>
    <3>1. next = wire[1][1] /\ 1 \in 1 .. Len(wire[1]) /\ next \in Seq(Msgs)
      BY <1>3, <2>1, HeadTailProperties, EmptySeq
    <3>2. In(wire[1][1]) \subseteq OnWire(wire[1])
      BY <3>1 DEF OnWire
    <3>3. QED
      BY <3>1, <3>2
  <2>2. CASE wire[1] = <<>> /\ sending /\ ~inflight.whole
    BY <2>2, SendingFacts, StreamFacts
  <2>3. CASE wire[1] = <<>> /\ ~(sending /\ ~inflight.whole)
    BY <2>3, EmptySeq DEF In
  <2>4. QED
    BY <2>1, <2>2, <2>3
<1> DEFINE part == SubSeq(next, 1, k)
<1>5. part \in Seq(Msgs) /\ In(part) \in SUBSET In(next)
  <2> HIDE DEF next
  <2>1. QED
    BY <1>4, PartFacts
<1> HIDE DEF next
<1>6. incoming'[1] = incoming[1] \o part /\ wire'[1] = <<>>
  BY <1>1, <1>2, <1>3
<1>7. In(incoming[1] \o part) = In(incoming[1]) \cup In(part)
  <2> HIDE DEF part
  <2>1. QED
    BY <1>3, <1>5, InConcat
<1> HIDE DEF part
<1>8. Waiting' = (In(outgoing[1]) \cup In(incoming[1] \o part) \cup In(unpacked[1])) \ In(delivered[1])
  <2>1. OnWire(wire'[1]) = {}
    BY <1>6, NoWire
  <2>2. QED
    BY <1>1, <1>6, <2>1 DEF Waiting, InTransit
<1>9. Waiting' \subseteq Waiting
  BY <1>4, <1>5, <1>7, <1>8 DEF Waiting, InTransit
<1>10. QED
  BY <1>1, <1>9, ChannelBreaks

LEMMA ChannelReconnect ==
  ASSUME IInv, Stream, Reconnect
  PROVE  Ch!Next
<1>1. /\ incoming' = [incoming EXCEPT ![1] = <<>>] /\ unpacked' = [unpacked EXCEPT ![1] = <<>>]
      /\ delivered' = [delivered EXCEPT ![1] = <<>>]
      /\ n' = n /\ log' = log /\ outgoing' = outgoing /\ wire' = wire
  BY DEF Reconnect
<1>2. incoming'[1] = <<>> /\ unpacked'[1] = <<>> /\ delivered'[1] = <<>>
  BY <1>1, StreamFacts DEF IInv, TypeOK
<1>3. Waiting' = In(outgoing[1]) \cup OnWire(wire[1])
  <2>1. In(<<>>) = {}
    BY DEF In
  <2>2. QED
    BY <1>1, <1>2, <2>1 DEF Waiting, InTransit
<1>4. Waiting' \subseteq In(log[1])
  BY <1>3, StreamFacts DEF StreamOK
<1>5. Ch!In(log[1]) = In(log[1])
  BY DEF Ch!In, In
<1>6. Ch!Reconnect
  BY <1>1, <1>2, <1>4, <1>5 DEF Ch!Reconnect, Stream
<1>7. QED
  BY <1>6 DEF Ch!Next

LEMMA ChannelFetch ==
  ASSUME IInv, Stream, NEW p \in Peers, FetchMessages(p)
  PROVE  Ch!Next \/ UNCHANGED Ch!vars
<1> DEFINE all == unpacked[p] \o incoming[p]
<1>1. /\ incoming[p] # <<>>
      /\ incoming' = [incoming EXCEPT ![p] = <<>>]
      /\ unpacked' = [unpacked EXCEPT ![p] = IF accepting[p] THEN <<>> ELSE all]
      /\ delivered' = [delivered EXCEPT ![p] = IF accepting[p] THEN delivered[p] \o all
                                               ELSE delivered[p]]
      /\ n' = n /\ log' = log /\ outgoing' = outgoing /\ wire' = wire
  BY DEF FetchMessages
<1>2. /\ 1 \in Peers /\ incoming \in [Peers -> Seq(Msgs)] /\ unpacked \in [Peers -> Seq(Msgs)]
      /\ delivered \in [Peers -> Seq(Msgs)] /\ log[1] \in Seq(Msgs) /\ outgoing[1] \in Seq(Msgs)
      /\ wire[1] \in Seq(Seq(Msgs))
      /\ incoming[p] \in Seq(Msgs) /\ unpacked[p] \in Seq(Msgs) /\ delivered[p] \in Seq(Msgs)
  BY StreamFacts DEF IInv, TypeOK
<1>3. /\ all \in Seq(Msgs) /\ In(all) = In(unpacked[p]) \cup In(incoming[p]) /\ Len(all) > 0
  <2>1. Len(incoming[p]) \in Nat /\ Len(incoming[p]) > 0 /\ Len(unpacked[p]) \in Nat
    BY <1>1, <1>2, EmptySeq, LenProperties
  <2>2. QED
    BY <1>2, <2>1, ConcatProperties, InConcat
<1>4. In(<<>>) = {}
  BY DEF In
<1> HIDE DEF all
<1>5. CASE p # 1
  <2>1. incoming'[1] = incoming[1] /\ unpacked'[1] = unpacked[1] /\ delivered'[1] = delivered[1]
    BY <1>1, <1>2, <1>5
  <2>2. Waiting' = Waiting
    BY <1>1, <2>1 DEF Waiting, InTransit
  <2>3. QED
    BY <1>1, <2>1, <2>2, ChannelStays
<1>6. CASE p = 1 /\ ~accepting[p]
  <2>1. incoming'[1] = <<>> /\ unpacked'[1] = all /\ delivered'[1] = delivered[1]
    BY <1>1, <1>2, <1>6
  <2>2. Waiting' = Waiting
    BY <1>1, <1>3, <1>4, <1>6, <2>1 DEF Waiting, InTransit
  <2>3. QED
    BY <1>1, <2>1, <2>2, ChannelStays
<1>7. CASE p = 1 /\ accepting[p]
  <2>1. incoming'[1] = <<>> /\ unpacked'[1] = <<>> /\ delivered'[1] = delivered[1] \o all
    BY <1>1, <1>2, <1>7
  <2>2. In(delivered[1] \o all) = In(delivered[1]) \cup In(all)
    BY <1>2, <1>3, <1>7, InConcat
  <2>3. Line = delivered[1] \o all
    BY <1>7 DEF Line, all
  <2>4. /\ Waiting = (In(outgoing[1]) \cup OnWire(wire[1]) \cup In(delivered[1] \o all))
                        \ In(delivered[1])
        /\ Waiting \in SUBSET In(log[1])
    BY <2>3, WaitingFacts
  <2>5. Waiting' = Waiting \ In(all)
    <3>1. Waiting' = (In(outgoing[1]) \cup OnWire(wire[1])) \ In(delivered[1] \o all)
      BY <1>1, <1>4, <2>1 DEF Waiting, InTransit
    <3>2. QED
      BY <2>2, <2>4, <3>1
  <2>6. StreamOK(log[1], outgoing[1], delivered[1] \o all, wire[1], sending, inflight, open)
    BY <2>3, StreamFacts
  <2> DEFINE todo == Waiting
  <2>7. todo = (In(outgoing[1]) \cup OnWire(wire[1]) \cup In(delivered[1] \o all)) \ In(delivered[1])
    BY <2>4
  <2> HIDE DEF todo
  <2>8. /\ \A i \in 1 .. Len(all) : all[i] \in todo
        /\ \A i, j \in 1 .. Len(all) : i < j => Fine(log[1], all[i], all[j])
        /\ Ready(log[1], todo, all)
    <3> DEFINE l == log[1]
               q == outgoing[1]
               d == delivered[1]
               w == wire[1]
    <3>1. /\ l \in Seq(Msgs) /\ q \in Seq(Msgs) /\ d \in Seq(Msgs) /\ all \in Seq(Msgs)
          /\ w \in Seq(Seq(Msgs)) /\ StreamOK(l, q, d \o all, w, sending, inflight, open)
          /\ todo = (In(q) \cup OnWire(w) \cup In(d \o all)) \ In(d)
      BY <1>2, <1>3, <1>7, <2>6, <2>7
    <3> HIDE DEF l, q, d, w
    <3>2. Ready(l, todo, all)
      BY <3>1, FetchOrder
    <3>3. \A i \in 1 .. Len(all) : all[i] \in todo
      BY <3>2 DEF Ready
    <3>4. \A i, j \in 1 .. Len(all) : i < j => Fine(l, all[i], all[j])
      BY <3>1, FetchOrder
    <3>5. QED
      BY <3>2, <3>3, <3>4 DEF l
  <2>9. Cardinality(todo) \in Nat /\ Len(all) <= Cardinality(todo)
    <3>1. \A i, j \in 1 .. Len(all) : i < j => all[i] # all[j]
      BY <2>8 DEF Fine
    <3>2. todo \in SUBSET In(log[1])
      BY <2>4 DEF todo
    <3>3. QED
      BY <1>2, <1>3, <2>8, <3>1, <3>2, FetchBound
  <2>10. Len(all) \in 1 .. Cardinality(todo) /\ all \in [1 .. Len(all) -> todo]
    BY <1>3, <2>8, <2>9, LenProperties
  <2>11. Ch!Fetch(all)
    <3>1. Ch!In(all) = In(all)
      BY DEF Ch!In, In
    <3>2. \A k, m : Ch!Before(k, m) <=> Earlier(log[1], k, m)
      BY DEF Ch!Before, Earlier
    <3>3. \A i \in 1 .. Len(all) :
             LET waiting == todo \ {all[j] : j \in 1 .. (i - 1)}
             IN  /\ all[i] \in waiting
                 /\ \A k \in waiting : Ch!Before(k, all[i]) => Size[all[i]] < Size[k]
      BY <2>8, <3>2 DEF Ready
    <3>4. Stream' /\ delivered'[1] = delivered[1] \o all /\ Waiting' = Waiting \ Ch!In(all)
          /\ log'[1] = log[1]
      BY <1>1, <2>1, <2>5, <3>1 DEF Stream
    <3>5. \A i \in 1 .. Len(all) :
             LET waiting == (IF Stream THEN Waiting ELSE {}) \ {all[j] : j \in 1 .. (i - 1)}
             IN  /\ all[i] \in waiting
                 /\ \A k \in waiting : Ch!Before(k, all[i]) => Size[all[i]] < Size[k]
      BY <3>3 DEF todo
    <3>6. QED
      BY <3>4, <3>5 DEF Ch!Fetch
  <2>12. QED
    <3>1. todo = IF Stream THEN Waiting ELSE {}
      BY DEF todo
    <3>2. /\ Len(all) \in 1 .. Cardinality(IF Stream THEN Waiting ELSE {})
          /\ all \in [1 .. Len(all) -> (IF Stream THEN Waiting ELSE {})]
      BY <2>10, <3>1
    <3>3. \A S : Ch!Cardinality(S) = Cardinality(S)
      BY DEF Ch!Cardinality, Cardinality
    <3>4. QED
      BY <2>11, <3>2, <3>3 DEF Ch!Next
<1>8. QED
  BY <1>5, <1>6, <1>7

LEMMA ChannelStep == IInv /\ [Next]_vars => [Ch!Next]_(Ch!vars)
<1> SUFFICES ASSUME IInv, [Next]_vars PROVE Ch!Next \/ UNCHANGED Ch!vars
  OBVIOUS
<1>1. n' = n
  BY DEF Next, vars, Send, HandleReceived, LoseDatagram, Adopt, FetchMessages, Update, Transmit,
         HandleSent, HandleSendError, LoseConnection, Reconnect
<1>2. CASE ~Stream
  BY <1>1, <1>2 DEF Ch!vars, Stream
<1>3. CASE Stream
  <2>1. CASE UNCHANGED vars
    <3>1. Waiting' = Waiting /\ log'[1] = log[1] /\ delivered'[1] = delivered[1]
      BY <2>1 DEF vars, receiverVars, Waiting, InTransit
    <3>2. QED
      BY <1>1, <1>3, <3>1, ChannelStays
  <2>2. ASSUME NEW p \in Peers, NEW m \in Msgs, Send(p, m) PROVE Ch!Next
    BY <1>3, <2>2, ChannelSend
  <2>3. ASSUME NEW p \in Peers, HandleReceived(p) PROVE UNCHANGED Ch!vars
    BY <1>3, <2>3, ChannelHandleReceived
  <2>4. ASSUME NEW p \in Peers, LoseDatagram(p) PROVE FALSE
    BY <1>3, <2>4 DEF LoseDatagram
  <2>5. ASSUME NEW p \in Peers, Adopt(p) PROVE UNCHANGED Ch!vars
    <3>1. Waiting' = Waiting /\ log'[1] = log[1] /\ delivered'[1] = delivered[1]
      BY <2>5 DEF Adopt, Waiting, InTransit
    <3>2. QED
      BY <1>1, <1>3, <3>1, ChannelStays
  <2>6. ASSUME NEW p \in Peers, FetchMessages(p) PROVE Ch!Next \/ UNCHANGED Ch!vars
    BY <1>3, <2>6, ChannelFetch
  <2>7. CASE Update \/ HandleSendError
    <3>1. Waiting' = Waiting /\ log'[1] = log[1] /\ delivered'[1] = delivered[1]
      BY <2>7 DEF Update, HandleSendError, receiverVars, Waiting, InTransit
    <3>2. QED
      BY <1>1, <1>3, <3>1, ChannelStays
  <2>8. QED
    BY <1>3, <2>1, <2>2, <2>3, <2>4, <2>5, <2>6, <2>7, ChannelTransmit, ChannelHandleSent,
       ChannelLose, ChannelReconnect DEF Next
<1>4. QED
  BY <1>2, <1>3

(* IsChannel: a stream connection implements the channel.  Its peer        *)
(* handles each message at most once before the connection is lost, and    *)
(* what overtakes a message is smaller; blocks that are written before the *)
(* queue is cleaned up, and a connection that is lost between the two, add *)
(* no behaviour.                                                           *)
THEOREM AsioConnectionIsChannel == Spec => IsChannel
<1>1. Init => Ch!Init
  <2>1. SUFFICES ASSUME Init, Stream PROVE Waiting = {} /\ log[1] = <<>> /\ delivered[1] = <<>>
    BY DEF Ch!Init
  <2>2. 1 \in Peers
    BY <2>1, PeersFacts DEF Init
  <2>3. /\ log[1] = <<>> /\ outgoing[1] = <<>> /\ wire[1] = <<>>
        /\ delivered[1] = <<>> /\ unpacked[1] = <<>> /\ incoming[1] = <<>>
    BY <2>1, <2>2 DEF Init
  <2>4. QED
    BY <2>3, NoWire DEF Waiting, InTransit, In
<1>2. QED
  BY <1>1, ChannelStep, AsioIInv, PTL DEF Spec, IsChannel, Ch!Spec

-----------------------------------------------------------------------------
(* How connections come about: each is in one place.                       *)

LEMMA ScenarioStays ==
  ASSUME [ConnectNext]_connectVars
  PROVE  kind' = kind /\ addrs' = addrs
<1>1. ASSUME NEW c \in Connectors, UpdateConnector(c) PROVE kind' = kind /\ addrs' = addrs
  BY <1>1 DEF UpdateConnector
<1>2. ASSUME NEW c \in Connectors, Resolved(c) PROVE kind' = kind /\ addrs' = addrs
  BY <1>2 DEF Resolved
<1>3. ASSUME NEW c \in Connectors, Connected(c) PROVE kind' = kind /\ addrs' = addrs
  BY <1>3 DEF Connected
<1>4. ASSUME NEW c \in Connectors, ConnectFails(c) PROVE kind' = kind /\ addrs' = addrs
  BY <1>4 DEF ConnectFails
<1>5. ASSUME NEW c \in Connectors, HandleReceiveError(c) PROVE kind' = kind /\ addrs' = addrs
  BY <1>5 DEF HandleReceiveError
<1>6. ASSUME NEW c \in Connectors, ConnectAborted(c) PROVE kind' = kind /\ addrs' = addrs
  BY <1>6 DEF ConnectAborted
<1>7. ASSUME NEW c \in Connectors, Expire(c) PROVE kind' = kind /\ addrs' = addrs
  BY <1>7 DEF Expire
<1>8. ASSUME NEW c \in Connectors, ResolveFails(c) PROVE kind' = kind /\ addrs' = addrs
  BY <1>8 DEF ResolveFails
<1>9. ASSUME NEW c \in Connectors, OnReceived(c) PROVE kind' = kind /\ addrs' = addrs
  BY <1>9 DEF OnReceived
<1>10. ASSUME UpdateAcceptor PROVE kind' = kind /\ addrs' = addrs
  BY <1>10 DEF UpdateAcceptor
<1>11. ASSUME HandleAccept PROVE kind' = kind /\ addrs' = addrs
  BY <1>11 DEF HandleAccept
<1>12. ASSUME HandleAcceptError PROVE kind' = kind /\ addrs' = addrs
  BY <1>12 DEF HandleAcceptError
<1>13. ASSUME ProcessAccepted PROVE kind' = kind /\ addrs' = addrs
  BY <1>13 DEF ProcessAccepted
<1>14. ASSUME ProcessAcceptedDatagrams PROVE kind' = kind /\ addrs' = addrs
  BY <1>14 DEF ProcessAcceptedDatagrams
<1>15. ASSUME NEW c \in Connectors, FetchDatagrams(c) PROVE kind' = kind /\ addrs' = addrs
  BY <1>15 DEF FetchDatagrams
<1>16. ASSUME DescriptorsFreed PROVE kind' = kind /\ addrs' = addrs
  BY <1>16 DEF DescriptorsFreed
<1>17. ASSUME NEW s \in served, CleanupConnection(s) PROVE kind' = kind /\ addrs' = addrs
  BY <1>17 DEF CleanupConnection
<1>18. ASSUME NEW f \in flushing, FlushingExpires(f) PROVE kind' = kind /\ addrs' = addrs
  BY <1>18 DEF FlushingExpires
<1>19. CASE UNCHANGED connectVars
  BY <1>19 DEF connectVars
<1>20. Datagrams \subseteq Connectors
  BY DEF Datagrams
<1>21. QED
  BY <1>1, <1>2, <1>3, <1>4, <1>5, <1>6, <1>7, <1>8, <1>9, <1>10, <1>11, <1>12, <1>13, <1>14, <1>15, <1>16, <1>17, <1>18, <1>19, <1>20 DEF ConnectNext, Connector, Server


LEMMA AddressesAndKindsStay ==
  ASSUME [ConnectNext]_connectVars
  PROVE  Connectors' = Connectors /\ Streams' = Streams /\ Datagrams' = Datagrams
<1>1. kind' = kind
  BY ScenarioStays
<1>2. QED
  BY <1>1 DEF Connectors, Streams, Datagrams

LEMMA ConnectorTypesStay ==
  ASSUME ConnectorTypeOK, UNCHANGED connectorVars, Connectors' = Connectors
  PROVE  ConnectorTypeOK'
  BY DEF ConnectorTypeOK, connectorVars

LEMMA AcceptorTypesStay ==
  ASSUME AcceptorTypeOK, UNCHANGED acceptorVars, Streams' = Streams
  PROVE  AcceptorTypeOK'
  BY DEF AcceptorTypeOK, acceptorVars

LEMMA RouterTypesStay ==
  ASSUME RouterTypeOK, UNCHANGED routerVars, Streams' = Streams, Connectors' = Connectors
  PROVE  RouterTypeOK'
  BY DEF RouterTypeOK, routerVars

LEMMA DatagramTypesStay ==
  ASSUME DatagramTypeOK, UNCHANGED datagramVars, Connectors' = Connectors, Datagrams' = Datagrams
  PROVE  DatagramTypeOK'
  BY DEF DatagramTypeOK, datagramVars

LEMMA HandlerTypes ==
  ASSUME ConnectorTypeOK, NEW c \in Connectors, ConnectHandler(c)
  PROVE  /\ sock' \in [Connectors -> {"closed", "open", "connected"}]
         /\ connecting' \in [Connectors -> BOOLEAN]
         /\ trying' \in [Connectors -> Nat]
         /\ op' \in [Connectors -> {"none", "resolve", "connect"}]
<1>1. CASE trying[c] < Len(addrs[c])
  <2>1. /\ trying' = [trying EXCEPT ![c] = trying[c] + 1]
        /\ op' = [op EXCEPT ![c] = "connect"] /\ sock' = [sock EXCEPT ![c] = "open"]
        /\ connecting' = connecting
    BY <1>1 DEF ConnectHandler, StartConnect
  <2>2. trying[c] + 1 \in Nat
    BY DEF ConnectorTypeOK
  <2>3. QED
    BY <2>1, <2>2 DEF ConnectorTypeOK
<1>2. CASE ~(trying[c] < Len(addrs[c]))
  <2>1. /\ trying' = trying /\ sock' = sock
        /\ op' = [op EXCEPT ![c] = "none"] /\ connecting' = [connecting EXCEPT ![c] = FALSE]
    BY <1>2 DEF ConnectHandler
  <2>2. QED
    BY <2>1 DEF ConnectorTypeOK
<1>3. QED
  BY <1>1, <1>2

LEMMA ConnectTypeStep ==
  ASSUME ConnectTypeOK, AttemptsAreSound, [ConnectNext]_connectVars
  PROVE  ConnectTypeOK'
<1>1. kind' = kind /\ addrs' = addrs /\ Connectors' = Connectors /\ Streams' = Streams /\ Datagrams' = Datagrams
  BY ScenarioStays, AddressesAndKindsStay
<1>2. Streams \subseteq Connectors /\ Datagrams \subseteq Connectors
  BY DEF Streams, Datagrams
<1>3. \A c \in Connectors : kind[c] = "udp" => c \in Datagrams
  BY DEF Streams, Datagrams
<1>4. \A c \in Connectors : kind[c] # "udp" => c \in Streams
  BY DEF Streams
<1> DEFINE Good == ConnectorTypeOK' /\ AcceptorTypeOK' /\ RouterTypeOK' /\ DatagramTypeOK'
<1>5. ConnectorTypeOK /\ AcceptorTypeOK /\ RouterTypeOK /\ DatagramTypeOK
  BY DEF ConnectTypeOK
<1>6. ASSUME NEW c \in Connectors, UpdateConnector(c) PROVE Good
  <2>1. ConnectorTypeOK'
    <3>1. sock' \in [Connectors -> {"closed", "open", "connected"}]
      BY <1>6, <1>5 DEF ConnectorTypeOK, UpdateConnector, StartReceive, StartResolve, ConnectPath, StartConnect
    <3>2. connecting' \in [Connectors -> BOOLEAN]
      BY <1>6, <1>5 DEF ConnectorTypeOK, UpdateConnector, StartReceive, StartResolve, ConnectPath, StartConnect
    <3>3. recving' \in [Connectors -> BOOLEAN]
      BY <1>6, <1>5 DEF ConnectorTypeOK, UpdateConnector, StartReceive, StartResolve, ConnectPath, StartConnect
    <3>4. trying' \in [Connectors -> Nat]
      BY <1>6, <1>5 DEF ConnectorTypeOK, UpdateConnector, StartReceive, StartResolve, ConnectPath, StartConnect
    <3>5. op' \in [Connectors -> {"none", "resolve", "connect"}]
      BY <1>6, <1>5 DEF ConnectorTypeOK, UpdateConnector, StartReceive, StartResolve, ConnectPath, StartConnect
    <3>6. ready' \in [Connectors -> SUBSET {"receive", "connect"}]
      BY <1>6, <1>5 DEF ConnectorTypeOK, UpdateConnector, StartReceive, StartResolve, ConnectPath, StartConnect
    <3>7. due' \in [Connectors -> BOOLEAN]
      BY <1>6, <1>5 DEF ConnectorTypeOK, UpdateConnector, StartReceive, StartResolve, ConnectPath, StartConnect
    <3>8. made' \in [Connectors -> Nat]
      BY <1>6, <1>5 DEF ConnectorTypeOK, UpdateConnector, StartReceive, StartResolve, ConnectPath, StartConnect
    <3>9. fails' \in Nat
      BY <1>6, <1>5 DEF ConnectorTypeOK, UpdateConnector, StartReceive, StartResolve, ConnectPath, StartConnect
    <3>10. QED
      BY <1>1, <3>1, <3>2, <3>3, <3>4, <3>5, <3>6, <3>7, <3>8, <3>9 DEF ConnectorTypeOK
  <2>2. AcceptorTypeOK'
    BY <1>6, <1>1, <1>5, AcceptorTypesStay DEF UpdateConnector
  <2>3. RouterTypeOK'
    BY <1>6, <1>1, <1>5, RouterTypesStay DEF UpdateConnector
  <2>4. DatagramTypeOK'
    BY <1>6, <1>1, <1>5, DatagramTypesStay DEF UpdateConnector
  <2>5. QED
    BY <2>1, <2>2, <2>3, <2>4
<1>7. ASSUME NEW c \in Connectors, Resolved(c) PROVE Good
  <2>1. ConnectorTypeOK'
    <3>1. sock' \in [Connectors -> {"closed", "open", "connected"}]
      BY <1>7, <1>5 DEF ConnectorTypeOK, Resolved, StartConnect, Establish
    <3>2. connecting' \in [Connectors -> BOOLEAN]
      BY <1>7, <1>5 DEF ConnectorTypeOK, Resolved, StartConnect, Establish
    <3>3. recving' \in [Connectors -> BOOLEAN]
      BY <1>7, <1>5 DEF ConnectorTypeOK, Resolved, StartConnect, Establish
    <3>4. trying' \in [Connectors -> Nat]
      BY <1>7, <1>5 DEF ConnectorTypeOK, Resolved, StartConnect, Establish
    <3>5. op' \in [Connectors -> {"none", "resolve", "connect"}]
      BY <1>7, <1>5 DEF ConnectorTypeOK, Resolved, StartConnect, Establish
    <3>6. ready' \in [Connectors -> SUBSET {"receive", "connect"}]
      BY <1>7, <1>5 DEF ConnectorTypeOK, Resolved, StartConnect, Establish
    <3>7. due' \in [Connectors -> BOOLEAN]
      BY <1>7, <1>5 DEF ConnectorTypeOK, Resolved, StartConnect, Establish
    <3>8. made' \in [Connectors -> Nat]
      BY <1>7, <1>5 DEF ConnectorTypeOK, Resolved, StartConnect, Establish
    <3>9. fails' \in Nat
      BY <1>7, <1>5 DEF ConnectorTypeOK, Resolved, StartConnect, Establish
    <3>10. QED
      BY <1>1, <3>1, <3>2, <3>3, <3>4, <3>5, <3>6, <3>7, <3>8, <3>9 DEF ConnectorTypeOK
  <2>2. AcceptorTypeOK'
    BY <1>7, <1>1, <1>5, AcceptorTypesStay DEF Resolved
  <2>3. RouterTypeOK'
    BY <1>7, <1>1, <1>5, RouterTypesStay DEF Resolved
  <2>4. DatagramTypeOK'
    BY <1>7, <1>1, <1>5, DatagramTypesStay DEF Resolved
  <2>5. QED
    BY <2>1, <2>2, <2>3, <2>4
<1>8. ASSUME NEW c \in Connectors, Connected(c) PROVE Good
  <2>1. ConnectorTypeOK'
    BY <1>8, <1>1, <1>2, <1>3, <1>4, <1>5 DEF ConnectorTypeOK, Connected
  <2>2. AcceptorTypeOK'
    <3>1. c \in Streams /\ made[c] + 1 \in Nat
      BY <1>8, <1>4, <1>5 DEF Connected, AttemptsAreSound, ConnectorTypeOK
    <3>2. <<c, made[c] + 1>> \in Streams \X Nat
      BY <3>1
    <3>3. backlog' = Append(backlog, <<c, made[c] + 1>>) /\ UNCHANGED <<listening, accepted, spinning, full>>
      BY <1>8 DEF Connected
    <3>4. QED
      BY <1>1, <1>5, <3>2, <3>3, AppendProperties DEF AcceptorTypeOK
  <2>3. RouterTypeOK'
    BY <1>8, <1>1, <1>5, RouterTypesStay DEF Connected
  <2>4. DatagramTypeOK'
    BY <1>8, <1>1, <1>5, DatagramTypesStay DEF Connected
  <2>5. QED
    BY <2>1, <2>2, <2>3, <2>4
<1>9. ASSUME NEW c \in Connectors, ConnectFails(c) PROVE Good
  <2>1. ConnectorTypeOK'
    <3>1. sock' \in [Connectors -> {"closed", "open", "connected"}]
      BY <1>9, <1>5, HandlerTypes DEF ConnectFails
    <3>2. connecting' \in [Connectors -> BOOLEAN]
      BY <1>9, <1>5, HandlerTypes DEF ConnectFails
    <3>3. recving' \in [Connectors -> BOOLEAN]
      BY <1>9, <1>5 DEF ConnectorTypeOK, ConnectFails
    <3>4. trying' \in [Connectors -> Nat]
      BY <1>9, <1>5, HandlerTypes DEF ConnectFails
    <3>5. op' \in [Connectors -> {"none", "resolve", "connect"}]
      BY <1>9, <1>5, HandlerTypes DEF ConnectFails
    <3>6. ready' \in [Connectors -> SUBSET {"receive", "connect"}]
      BY <1>9, <1>5 DEF ConnectorTypeOK, ConnectFails
    <3>7. due' \in [Connectors -> BOOLEAN]
      BY <1>9, <1>5 DEF ConnectorTypeOK, ConnectFails
    <3>8. made' \in [Connectors -> Nat]
      BY <1>9, <1>5 DEF ConnectorTypeOK, ConnectFails
    <3>9. fails' \in Nat
      BY <1>9, <1>5 DEF ConnectorTypeOK, ConnectFails
    <3>10. QED
      BY <1>1, <3>1, <3>2, <3>3, <3>4, <3>5, <3>6, <3>7, <3>8, <3>9 DEF ConnectorTypeOK
  <2>2. AcceptorTypeOK'
    BY <1>9, <1>1, <1>5, AcceptorTypesStay DEF ConnectFails
  <2>3. RouterTypeOK'
    BY <1>9, <1>1, <1>5, RouterTypesStay DEF ConnectFails
  <2>4. DatagramTypeOK'
    BY <1>9, <1>1, <1>5, DatagramTypesStay DEF ConnectFails
  <2>5. QED
    BY <2>1, <2>2, <2>3, <2>4
<1>10. ASSUME NEW c \in Connectors, HandleReceiveError(c) PROVE Good
  <2>1. ConnectorTypeOK'
    BY <1>10, <1>1, <1>2, <1>3, <1>4, <1>5 DEF ConnectorTypeOK, HandleReceiveError
  <2>2. AcceptorTypeOK'
    BY <1>10, <1>1, <1>5, AcceptorTypesStay DEF HandleReceiveError
  <2>3. RouterTypeOK'
    BY <1>10, <1>1, <1>5, RouterTypesStay DEF HandleReceiveError
  <2>4. DatagramTypeOK'
    BY <1>10, <1>1, <1>5, DatagramTypesStay DEF HandleReceiveError
  <2>5. QED
    BY <2>1, <2>2, <2>3, <2>4
<1>11. ASSUME NEW c \in Connectors, ConnectAborted(c) PROVE Good
  <2>1. ConnectorTypeOK'
    <3>1. sock' \in [Connectors -> {"closed", "open", "connected"}]
      BY <1>11, <1>5, HandlerTypes DEF ConnectAborted
    <3>2. connecting' \in [Connectors -> BOOLEAN]
      BY <1>11, <1>5, HandlerTypes DEF ConnectAborted
    <3>3. recving' \in [Connectors -> BOOLEAN]
      BY <1>11, <1>5 DEF ConnectorTypeOK, ConnectAborted
    <3>4. trying' \in [Connectors -> Nat]
      BY <1>11, <1>5, HandlerTypes DEF ConnectAborted
    <3>5. op' \in [Connectors -> {"none", "resolve", "connect"}]
      BY <1>11, <1>5, HandlerTypes DEF ConnectAborted
    <3>6. ready' \in [Connectors -> SUBSET {"receive", "connect"}]
      BY <1>11, <1>5 DEF ConnectorTypeOK, ConnectAborted
    <3>7. due' \in [Connectors -> BOOLEAN]
      BY <1>11, <1>5 DEF ConnectorTypeOK, ConnectAborted
    <3>8. made' \in [Connectors -> Nat]
      BY <1>11, <1>5 DEF ConnectorTypeOK, ConnectAborted
    <3>9. fails' \in Nat
      BY <1>11, <1>5 DEF ConnectorTypeOK, ConnectAborted
    <3>10. QED
      BY <1>1, <3>1, <3>2, <3>3, <3>4, <3>5, <3>6, <3>7, <3>8, <3>9 DEF ConnectorTypeOK
  <2>2. AcceptorTypeOK'
    BY <1>11, <1>1, <1>5, AcceptorTypesStay DEF ConnectAborted
  <2>3. RouterTypeOK'
    BY <1>11, <1>1, <1>5, RouterTypesStay DEF ConnectAborted
  <2>4. DatagramTypeOK'
    BY <1>11, <1>1, <1>5, DatagramTypesStay DEF ConnectAborted
  <2>5. QED
    BY <2>1, <2>2, <2>3, <2>4
<1>12. ASSUME NEW c \in Connectors, Expire(c) PROVE Good
  <2>1. ConnectorTypeOK'
    BY <1>12, <1>1, <1>2, <1>3, <1>4, <1>5 DEF ConnectorTypeOK, Expire
  <2>2. AcceptorTypeOK'
    BY <1>12, <1>1, <1>5, AcceptorTypesStay DEF Expire
  <2>3. RouterTypeOK'
    BY <1>12, <1>1, <1>5, RouterTypesStay DEF Expire
  <2>4. DatagramTypeOK'
    BY <1>12, <1>1, <1>5, DatagramTypesStay DEF Expire
  <2>5. QED
    BY <2>1, <2>2, <2>3, <2>4
<1>13. ASSUME NEW c \in Connectors, ResolveFails(c) PROVE Good
  <2>1. ConnectorTypeOK'
    BY <1>13, <1>1, <1>2, <1>3, <1>4, <1>5 DEF ConnectorTypeOK, ResolveFails
  <2>2. AcceptorTypeOK'
    BY <1>13, <1>1, <1>5, AcceptorTypesStay DEF ResolveFails
  <2>3. RouterTypeOK'
    BY <1>13, <1>1, <1>5, RouterTypesStay DEF ResolveFails
  <2>4. DatagramTypeOK'
    BY <1>13, <1>1, <1>5, DatagramTypesStay DEF ResolveFails
  <2>5. QED
    BY <2>1, <2>2, <2>3, <2>4
<1>14. ASSUME NEW c \in Connectors, OnReceived(c) PROVE Good
  <2>1. ConnectorTypeOK'
    BY <1>14, <1>1, <1>5, ConnectorTypesStay DEF OnReceived
  <2>2. AcceptorTypeOK'
    BY <1>14, <1>1, <1>5, AcceptorTypesStay DEF OnReceived
  <2>3. RouterTypeOK'
    BY <1>14, <1>1, <1>5, RouterTypesStay DEF OnReceived
  <2>4. DatagramTypeOK'
    BY <1>14, <1>1, <1>2, <1>3, <1>4, <1>5 DEF DatagramTypeOK, OnReceived, Known
  <2>5. QED
    BY <2>1, <2>2, <2>3, <2>4
<1>15. ASSUME UpdateAcceptor PROVE Good
  <2>1. ConnectorTypeOK'
    BY <1>15, <1>1, <1>5, ConnectorTypesStay DEF UpdateAcceptor
  <2>2. AcceptorTypeOK'
    BY <1>15, <1>1, <1>2, <1>3, <1>4, <1>5 DEF AcceptorTypeOK, UpdateAcceptor
  <2>3. RouterTypeOK'
    BY <1>15, <1>1, <1>5, RouterTypesStay DEF UpdateAcceptor
  <2>4. DatagramTypeOK'
    BY <1>15, <1>1, <1>5, DatagramTypesStay DEF UpdateAcceptor
  <2>5. QED
    BY <2>1, <2>2, <2>3, <2>4
<1>16. ASSUME HandleAccept PROVE Good
  <2>1. ConnectorTypeOK'
    BY <1>16, <1>1, <1>5, ConnectorTypesStay DEF HandleAccept
  <2>2. AcceptorTypeOK'
    <3> DEFINE T == Streams \X Nat
    <3>1. backlog \in Seq(T) /\ accepted \in Seq(T) /\ backlog # <<>>
      BY <1>16, <1>5 DEF AcceptorTypeOK, HandleAccept
    <3>2. accepted' = Append(accepted, Head(backlog)) /\ backlog' = Tail(backlog)
          /\ spinning' = FALSE /\ UNCHANGED <<listening, full>>
      BY <1>16 DEF HandleAccept
    <3> HIDE DEF T
    <3>3. Append(accepted, Head(backlog)) \in Seq(T) /\ Tail(backlog) \in Seq(T)
      BY <3>1
    <3> USE DEF T
    <3>4. accepted' \in Seq(Streams \X Nat) /\ backlog' \in Seq(Streams \X Nat)
      BY <3>2, <3>3
    <3>5. spinning' \in BOOLEAN /\ listening' \in BOOLEAN /\ full' \in BOOLEAN
      BY <1>5, <3>2 DEF AcceptorTypeOK
    <3>6. QED
      BY <1>1, <3>4, <3>5 DEF AcceptorTypeOK
  <2>3. RouterTypeOK'
    BY <1>16, <1>1, <1>5, RouterTypesStay DEF HandleAccept
  <2>4. DatagramTypeOK'
    BY <1>16, <1>1, <1>5, DatagramTypesStay DEF HandleAccept
  <2>5. QED
    BY <2>1, <2>2, <2>3, <2>4
<1>17. ASSUME HandleAcceptError PROVE Good
  <2>1. ConnectorTypeOK'
    BY <1>17, <1>1, <1>5, ConnectorTypesStay DEF HandleAcceptError
  <2>2. AcceptorTypeOK'
    BY <1>17, <1>1, <1>2, <1>3, <1>4, <1>5 DEF AcceptorTypeOK, HandleAcceptError
  <2>3. RouterTypeOK'
    BY <1>17, <1>1, <1>5, RouterTypesStay DEF HandleAcceptError
  <2>4. DatagramTypeOK'
    BY <1>17, <1>1, <1>5, DatagramTypesStay DEF HandleAcceptError
  <2>5. QED
    BY <2>1, <2>2, <2>3, <2>4
<1>18. ASSUME ProcessAccepted PROVE Good
  <2>1. ConnectorTypeOK'
    BY <1>18, <1>1, <1>2, <1>3, <1>4, <1>5 DEF ConnectorTypeOK, ProcessAccepted, UpdateFlushing, EndsOfStream, Present, AcceptorTypeOK
  <2>2. AcceptorTypeOK'
    BY <1>18, <1>1, <1>2, <1>3, <1>4, <1>5 DEF AcceptorTypeOK, ProcessAccepted, UpdateFlushing, EndsOfStream, Present
  <2>3. RouterTypeOK'
    <3>1. /\ flushing' = {f \in flushing : ~f.expired}
          /\ closed' = closed \cup {f.conn : f \in {g \in flushing : g.expired}}
          /\ served' = served \cup Sockets(accepted) /\ drops' = drops
      BY <1>18 DEF UpdateFlushing, ProcessAccepted
    <3>2. Sockets(accepted) \subseteq Connectors \X Nat
      <4>1. \A i \in DOMAIN accepted : accepted[i] \in Streams \X Nat
        BY <1>5 DEF AcceptorTypeOK
      <4>2. QED
        BY <1>2, <4>1 DEF Sockets
    <3>3. \A f \in flushing : f.conn \in Streams \X Nat
      BY <1>5 DEF RouterTypeOK
    <3>4. QED
      BY <1>1, <1>5, <3>1, <3>2, <3>3 DEF RouterTypeOK
  <2>4. DatagramTypeOK'
    BY <1>18, <1>1, <1>5, DatagramTypesStay DEF ProcessAccepted
  <2>5. QED
    BY <2>1, <2>2, <2>3, <2>4
<1>19. ASSUME ProcessAcceptedDatagrams PROVE Good
  <2>1. ConnectorTypeOK'
    BY <1>19, <1>1, <1>5, ConnectorTypesStay DEF ProcessAcceptedDatagrams
  <2>2. AcceptorTypeOK'
    BY <1>19, <1>1, <1>5, AcceptorTypesStay DEF ProcessAcceptedDatagrams
  <2>3. RouterTypeOK'
    BY <1>19, <1>1, <1>2, <1>3, <1>4, <1>5 DEF RouterTypeOK, ProcessAcceptedDatagrams, Present, DatagramTypeOK, ConnectorTypeOK
  <2>4. DatagramTypeOK'
    BY <1>19, <1>1, <1>2, <1>3, <1>4, <1>5 DEF DatagramTypeOK, ProcessAcceptedDatagrams, Present
  <2>5. QED
    BY <2>1, <2>2, <2>3, <2>4
<1>20. ASSUME NEW c \in Connectors, FetchDatagrams(c) PROVE Good
  <2>1. ConnectorTypeOK'
    BY <1>20, <1>1, <1>5, ConnectorTypesStay DEF FetchDatagrams
  <2>2. AcceptorTypeOK'
    BY <1>20, <1>1, <1>5, AcceptorTypesStay DEF FetchDatagrams
  <2>3. RouterTypeOK'
    BY <1>20, <1>1, <1>5, RouterTypesStay DEF FetchDatagrams
  <2>4. DatagramTypeOK'
    BY <1>20, <1>1, <1>2, <1>3, <1>4, <1>5 DEF DatagramTypeOK, FetchDatagrams, Present
  <2>5. QED
    BY <2>1, <2>2, <2>3, <2>4
<1>21. ASSUME DescriptorsFreed PROVE Good
  <2>1. ConnectorTypeOK'
    BY <1>21, <1>1, <1>5, ConnectorTypesStay DEF DescriptorsFreed
  <2>2. AcceptorTypeOK'
    BY <1>21, <1>1, <1>2, <1>3, <1>4, <1>5 DEF AcceptorTypeOK, DescriptorsFreed
  <2>3. RouterTypeOK'
    BY <1>21, <1>1, <1>5, RouterTypesStay DEF DescriptorsFreed
  <2>4. DatagramTypeOK'
    BY <1>21, <1>1, <1>5, DatagramTypesStay DEF DescriptorsFreed
  <2>5. QED
    BY <2>1, <2>2, <2>3, <2>4
<1>22. ASSUME NEW s \in served, CleanupConnection(s) PROVE Good
  <2>1. ConnectorTypeOK'
    BY <1>22, <1>1, <1>2, <1>3, <1>4, <1>5 DEF ConnectorTypeOK, CleanupConnection, UpdateFlushing, EndsOfStream, Present
  <2>2. AcceptorTypeOK'
    BY <1>22, <1>1, <1>5, AcceptorTypesStay DEF CleanupConnection
  <2>3. RouterTypeOK'
    <3>1. served' = served \ {s} /\ drops > 0 /\ drops' = drops - 1
      BY <1>22 DEF CleanupConnection
    <3>2. served' \subseteq Connectors \X Nat /\ drops' \in Nat
      BY <1>5, <3>1 DEF RouterTypeOK
    <3>3. \A f \in flushing : f.conn \in Streams \X Nat
      BY <1>5 DEF RouterTypeOK
    <3>4. CASE s[1] \in Streams
      <4> DEFINE x == [conn |-> s, expired |-> FALSE]
      <4>1. /\ flushing' = {f \in flushing : ~f.expired} \cup {x}
            /\ closed' = closed \cup {f.conn : f \in {g \in flushing : g.expired}}
        BY <1>22, <3>4 DEF UpdateFlushing, CleanupConnection
      <4>2. s \in Streams \X Nat
        BY <1>5, <3>4 DEF RouterTypeOK
      <4>3. x \in [conn : Streams \X Nat, expired : BOOLEAN]
        BY <4>2
      <4> HIDE DEF x
      <4>4. QED
        BY <1>1, <1>5, <3>2, <3>3, <4>1, <4>3 DEF RouterTypeOK
    <3>5. CASE s[1] \notin Streams
      <4>1. flushing' = flushing /\ closed' = closed
        BY <1>22, <3>5 DEF CleanupConnection
      <4>2. QED
        BY <1>1, <1>5, <3>2, <4>1 DEF RouterTypeOK
    <3>6. QED
      BY <3>4, <3>5
  <2>4. DatagramTypeOK'
    BY <1>22, <1>1, <1>5, DatagramTypesStay DEF CleanupConnection
  <2>5. QED
    BY <2>1, <2>2, <2>3, <2>4
<1>23. ASSUME NEW f \in flushing, FlushingExpires(f) PROVE Good
  <2>1. ConnectorTypeOK'
    BY <1>23, <1>1, <1>5, ConnectorTypesStay DEF FlushingExpires
  <2>2. AcceptorTypeOK'
    BY <1>23, <1>1, <1>5, AcceptorTypesStay DEF FlushingExpires
  <2>3. RouterTypeOK'
    BY <1>23, <1>1, <1>2, <1>3, <1>4, <1>5 DEF RouterTypeOK, FlushingExpires
  <2>4. DatagramTypeOK'
    BY <1>23, <1>1, <1>5, DatagramTypesStay DEF FlushingExpires
  <2>5. QED
    BY <2>1, <2>2, <2>3, <2>4
<1>24. ASSUME UNCHANGED connectVars PROVE Good
  BY <1>24, <1>1, <1>5, ConnectorTypesStay, AcceptorTypesStay, RouterTypesStay, DatagramTypesStay DEF connectVars
<1>25. Good
  <2>1. Datagrams \subseteq Connectors
    BY <1>2
  <2> HIDE DEF Good
  <2>2. QED
    BY <2>1, <1>6, <1>7, <1>8, <1>9, <1>10, <1>11, <1>12, <1>13, <1>14, <1>15, <1>16, <1>17, <1>18, <1>19, <1>20, <1>21, <1>22, <1>23, <1>24 DEF ConnectNext, Connector, Server
<1>26. QED
  BY <1>1, <1>25 DEF ConnectTypeOK

LEMMA AttemptsStep ==
  ASSUME ConnectTypeOK, AttemptsAreSound, [ConnectNext]_connectVars
  PROVE  AttemptsAreSound'
<1>1. kind' = kind /\ Connectors' = Connectors
  BY ScenarioStays, AddressesAndKindsStay
<1>2. ASSUME NEW c \in Connectors, UpdateConnector(c) PROVE AttemptsAreSound'
  <2>1. op[c] \in {"none", "resolve", "connect"} /\ kind[c] \in {"tcp", "local", "udp"}
        /\ sock[c] \in {"closed", "open", "connected"}
    BY DEF ConnectTypeOK, ConnectorTypeOK
  <2>2. CASE sock[c] # "closed"
    <3>1. UNCHANGED <<sock, connecting, op>> /\ \A d \in Connectors : ready'[d] \subseteq ready[d] \cup {"receive"}
      BY <1>2, <2>2, ZenonT(30) DEF UpdateConnector, StartReceive, ConnectTypeOK, ConnectorTypeOK
    <3>2. QED
      BY <1>1, <3>1 DEF AttemptsAreSound
  <2>3. CASE sock[c] = "closed" /\ kind[c] = "local"
    <3>1. /\ ready' = ready /\ connecting' = [connecting EXCEPT ![c] = TRUE]
          /\ op' = [op EXCEPT ![c] = "connect"] /\ sock' = [sock EXCEPT ![c] = "open"]
      BY <1>2, <2>3 DEF UpdateConnector, StartResolve, ConnectPath, StartConnect
    <3>2. QED
      BY <1>1, <2>3, <3>1 DEF AttemptsAreSound, ConnectTypeOK, ConnectorTypeOK
  <2>4. CASE sock[c] = "closed" /\ kind[c] # "local"
    <3>1. /\ ready' = ready /\ connecting' = [connecting EXCEPT ![c] = TRUE]
          /\ op' = [op EXCEPT ![c] = "resolve"] /\ sock' = sock /\ ready[c] = {}
      BY <1>2, <2>4 DEF UpdateConnector, StartResolve
    <3>2. QED
      BY <1>1, <2>4, <3>1 DEF AttemptsAreSound, ConnectTypeOK, ConnectorTypeOK
  <2>5. QED
    BY <2>2, <2>3, <2>4
<1>3. ASSUME NEW c \in Connectors, Resolved(c) PROVE AttemptsAreSound'
  BY <1>3, <1>1 DEF AttemptsAreSound, ConnectTypeOK, ConnectorTypeOK, Resolved, StartConnect, Establish, acceptorVars, routerVars, datagramVars
<1>4. ASSUME NEW c \in Connectors, Connected(c) PROVE AttemptsAreSound'
  BY <1>4, <1>1 DEF AttemptsAreSound, ConnectTypeOK, ConnectorTypeOK, Connected, routerVars, datagramVars
<1>5. ASSUME NEW c \in Connectors, ConnectFails(c) PROVE AttemptsAreSound'
  BY <1>5, <1>1 DEF AttemptsAreSound, ConnectTypeOK, ConnectorTypeOK, ConnectFails, ConnectHandler, StartConnect, acceptorVars, routerVars, datagramVars
<1>6. ASSUME NEW c \in Connectors, HandleReceiveError(c) PROVE AttemptsAreSound'
  BY <1>6, <1>1 DEF AttemptsAreSound, ConnectTypeOK, ConnectorTypeOK, HandleReceiveError, acceptorVars, routerVars, datagramVars
<1>7. ASSUME NEW c \in Connectors, ConnectAborted(c) PROVE AttemptsAreSound'
  BY <1>7, <1>1 DEF AttemptsAreSound, ConnectTypeOK, ConnectorTypeOK, ConnectAborted, ConnectHandler, StartConnect, acceptorVars, routerVars, datagramVars
<1>8. ASSUME NEW c \in Connectors, Expire(c) PROVE AttemptsAreSound'
  BY <1>8, <1>1 DEF AttemptsAreSound, ConnectTypeOK, ConnectorTypeOK, Expire, acceptorVars, routerVars, datagramVars
<1>9. ASSUME NEW c \in Connectors, ResolveFails(c) PROVE AttemptsAreSound'
  BY <1>9, <1>1 DEF AttemptsAreSound, ConnectTypeOK, ConnectorTypeOK, ResolveFails, acceptorVars, routerVars, datagramVars
<1>10. ASSUME NEW c \in Connectors, OnReceived(c) PROVE AttemptsAreSound'
  BY <1>10, <1>1 DEF AttemptsAreSound, ConnectTypeOK, ConnectorTypeOK, OnReceived, Known, connectorVars, acceptorVars, routerVars
<1>11. ASSUME UpdateAcceptor PROVE AttemptsAreSound'
  BY <1>11, <1>1 DEF AttemptsAreSound, ConnectTypeOK, ConnectorTypeOK, UpdateAcceptor, connectorVars, routerVars, datagramVars
<1>12. ASSUME HandleAccept PROVE AttemptsAreSound'
  BY <1>12, <1>1 DEF AttemptsAreSound, ConnectTypeOK, ConnectorTypeOK, HandleAccept, connectorVars, routerVars, datagramVars
<1>13. ASSUME HandleAcceptError PROVE AttemptsAreSound'
  BY <1>13, <1>1 DEF AttemptsAreSound, ConnectTypeOK, ConnectorTypeOK, HandleAcceptError, connectorVars, routerVars, datagramVars
<1>14. ASSUME ProcessAccepted PROVE AttemptsAreSound'
  BY <1>14, <1>1 DEF AttemptsAreSound, ConnectTypeOK, ConnectorTypeOK, ProcessAccepted, UpdateFlushing, EndsOfStream, Present, datagramVars
<1>15. ASSUME ProcessAcceptedDatagrams PROVE AttemptsAreSound'
  BY <1>15, <1>1 DEF AttemptsAreSound, ConnectTypeOK, ConnectorTypeOK, ProcessAcceptedDatagrams, Present, connectorVars, acceptorVars
<1>16. ASSUME NEW c \in Connectors, FetchDatagrams(c) PROVE AttemptsAreSound'
  BY <1>16, <1>1 DEF AttemptsAreSound, ConnectTypeOK, ConnectorTypeOK, FetchDatagrams, Present, connectorVars, acceptorVars, routerVars
<1>17. ASSUME DescriptorsFreed PROVE AttemptsAreSound'
  BY <1>17, <1>1 DEF AttemptsAreSound, ConnectTypeOK, ConnectorTypeOK, DescriptorsFreed, connectorVars, routerVars, datagramVars
<1>18. ASSUME NEW s \in served, CleanupConnection(s) PROVE AttemptsAreSound'
  BY <1>18, <1>1 DEF AttemptsAreSound, ConnectTypeOK, ConnectorTypeOK, CleanupConnection, UpdateFlushing, EndsOfStream, Present, acceptorVars, datagramVars
<1>19. ASSUME NEW f \in flushing, FlushingExpires(f) PROVE AttemptsAreSound'
  BY <1>19, <1>1 DEF AttemptsAreSound, ConnectTypeOK, ConnectorTypeOK, FlushingExpires, connectorVars, acceptorVars, datagramVars
<1>20. CASE UNCHANGED connectVars
  BY <1>20, <1>1 DEF AttemptsAreSound, connectVars, connectorVars, acceptorVars, routerVars, datagramVars
<1>21. Datagrams \subseteq Connectors
  BY DEF Datagrams
<1>22. QED
  BY <1>2, <1>3, <1>4, <1>5, <1>6, <1>7, <1>8, <1>9, <1>10, <1>11, <1>12, <1>13, <1>14, <1>15, <1>16, <1>17, <1>18, <1>19, <1>20, <1>21 DEF ConnectNext, Connector, Server

(* The lists of sockets.                                                   *)
LEMMA SocketsAppended ==
  ASSUME NEW S, NEW s \in Seq(S), NEW e \in S
  PROVE  /\ Sockets(Append(s, e)) = Sockets(s) \cup {e}
         /\ Distinct(s) /\ e \notin Sockets(s) => Distinct(Append(s, e))
<1> DEFINE t == Append(s, e)
<1>1. /\ DOMAIN s = 1 .. Len(s) /\ DOMAIN t = 1 .. (Len(s) + 1)
      /\ \A i \in 1 .. Len(s) : t[i] = s[i]
      /\ t[Len(s) + 1] = e
      /\ Len(s) \in Nat
  OBVIOUS
<1> HIDE DEF t
<1>2. Sockets(t) = Sockets(s) \cup {e}
  BY <1>1 DEF Sockets
<1>3. ASSUME Distinct(s), e \notin Sockets(s) PROVE Distinct(t)
  BY <1>1, <1>3 DEF Distinct, Sockets
<1>4. QED
  BY <1>2, <1>3 DEF t

LEMMA SocketsTaken ==
  ASSUME NEW S, NEW s \in Seq(S), s # <<>>
  PROVE  /\ Head(s) \in Sockets(s)
         /\ Distinct(s) => /\ Sockets(Tail(s)) = Sockets(s) \ {Head(s)}
                           /\ Distinct(Tail(s))
<1> DEFINE t == Tail(s)
<1>1. /\ DOMAIN s = 1 .. Len(s) /\ DOMAIN t = 1 .. (Len(s) - 1)
      /\ \A i \in 1 .. (Len(s) - 1) : t[i] = s[i + 1]
      /\ Head(s) = s[1]
      /\ Len(s) \in Nat /\ Len(s) > 0
  OBVIOUS
<1> HIDE DEF t
<1>2. Head(s) \in Sockets(s)
  BY <1>1 DEF Sockets
<1>3. ASSUME Distinct(s) PROVE Sockets(t) = Sockets(s) \ {Head(s)} /\ Distinct(t)
  <2>1. \A i \in DOMAIN s \ {1} : i - 1 \in DOMAIN t /\ t[i - 1] = s[i]
    BY <1>1
  <2>2. \A i \in DOMAIN t : i + 1 \in DOMAIN s /\ i + 1 # 1 /\ t[i] = s[i + 1]
    BY <1>1
  <2>3. Sockets(t) \subseteq Sockets(s) \ {Head(s)}
    <3>1. SUFFICES ASSUME NEW i \in DOMAIN t PROVE t[i] \in Sockets(s) /\ t[i] # Head(s)
      BY DEF Sockets
    <3>2. i + 1 \in DOMAIN s /\ i + 1 # 1 /\ t[i] = s[i + 1] /\ 1 \in DOMAIN s
      BY <1>1, <2>2
    <3>3. QED
      BY <1>1, <1>3, <3>2 DEF Sockets, Distinct
  <2>4. Sockets(s) \ {Head(s)} \subseteq Sockets(t)
    <3>1. SUFFICES ASSUME NEW i \in DOMAIN s, s[i] # Head(s) PROVE s[i] \in Sockets(t)
      BY DEF Sockets
    <3>2. i # 1
      BY <1>1, <3>1
    <3>3. i - 1 \in DOMAIN t /\ t[i - 1] = s[i]
      BY <2>1, <3>2
    <3>4. QED
      BY <3>3 DEF Sockets
  <2>5. Distinct(t)
    <3>1. SUFFICES ASSUME NEW i \in DOMAIN t, NEW j \in DOMAIN t, t[i] = t[j] PROVE i = j
      BY DEF Distinct
    <3>2. i + 1 = j + 1
      BY <1>3, <2>2, <3>1 DEF Distinct
    <3>3. QED
      BY <1>1, <3>2
  <2>6. QED
    BY <2>3, <2>4, <2>5
<1>4. QED
  BY <1>2, <1>3 DEF t

LEMMA NoSockets == Sockets(<<>>) = {} /\ Distinct(<<>>)
  BY DEF Sockets, Distinct

(* Sockets that have waited long enough are closed, one may come.          *)
LEMMA FlushingMoved ==
  ASSUME ConnectTypeOK,
         \A f, g \in flushing : f.conn = g.conn => f = g,
         NEW more,
         more \subseteq [conn : Streams \X Nat, expired : BOOLEAN],
         \A f, g \in more : f = g,
         \A f \in more : f.conn \notin InFlushing,
         UpdateFlushing(more)
  PROVE  \E gone \in SUBSET InFlushing :
            /\ InFlushing' = (InFlushing \ gone) \cup {f.conn : f \in more}
            /\ closed' = closed \cup gone
            /\ \A f, g \in flushing' : f.conn = g.conn => f = g
<1> DEFINE gone == {f.conn : f \in {g \in flushing : g.expired}}
<1>1. flushing' = {f \in flushing : ~f.expired} \cup more /\ closed' = closed \cup gone
  BY DEF UpdateFlushing
<1>2. gone \in SUBSET InFlushing
  BY DEF InFlushing
<1>3. InFlushing' = (InFlushing \ gone) \cup {f.conn : f \in more}
  <2>1. \A x : x \in InFlushing' <=> \E f \in flushing' : f.conn = x
    BY DEF InFlushing
  <2>2. \A x : x \in InFlushing <=> \E f \in flushing : f.conn = x
    BY DEF InFlushing
  <2>3. \A x : x \in gone <=> \E f \in flushing : f.expired /\ f.conn = x
    OBVIOUS
  <2>4. \A f \in flushing : f.expired \in BOOLEAN
    BY DEF ConnectTypeOK, ConnectorTypeOK, AcceptorTypeOK, RouterTypeOK, DatagramTypeOK
  <2> HIDE DEF gone
  <2>5. ASSUME NEW x PROVE x \in InFlushing' <=> x \in (InFlushing \ gone) \cup {f.conn : f \in more}
    BY <1>1, <2>1, <2>2, <2>3, <2>4
  <2>6. QED
    BY <2>5
<1>4. \A f, g \in flushing' : f.conn = g.conn => f = g
  BY <1>1 DEF InFlushing
<1>5. QED
  BY <1>1, <1>2, <1>3, <1>4

(* What does not touch the places and makes no stream.                     *)
LEMMA PlacesStay ==
  ASSUME PlacesAreApart, Streams' = Streams,
         backlog' = backlog, accepted' = accepted, served' = served,
         flushing' = flushing, closed' = closed,
         \A c \in Streams : made'[c] = made[c]
  PROVE  PlacesAreApart'
<1>1. Sockets(backlog)' = Sockets(backlog) /\ Sockets(accepted)' = Sockets(accepted)
      /\ InFlushing' = InFlushing /\ Distinct(backlog)' = Distinct(backlog) /\ Distinct(accepted)' = Distinct(accepted)
  BY DEF Sockets, InFlushing, Distinct
<1>2. Somewhere' = Somewhere
  BY <1>1 DEF Somewhere
<1>3. QED
  BY <1>1, <1>2 DEF PlacesAreApart

LEMMA SomewhereIs ==
  \A x : x \in Somewhere <=> \/ x \in Sockets(backlog) \/ x \in Sockets(accepted)
                             \/ x \in served \/ x \in InFlushing \/ x \in closed
  BY DEF Somewhere

LEMMA PlacesAtConnected ==
  ASSUME ConnectTypeOK, PlacesAreApart, NEW c \in Connectors, kind[c] # "udp", Connected(c), Streams' = Streams
  PROVE  PlacesAreApart'
<1> DEFINE x == <<c, made[c] + 1>>
<1>1. c \in Streams /\ made[c] \in Nat /\ x \in Streams \X Nat /\ backlog \in Seq(Streams \X Nat)
  BY DEF Streams, ConnectTypeOK, ConnectorTypeOK, AcceptorTypeOK, RouterTypeOK, DatagramTypeOK
<1>2. /\ backlog' = Append(backlog, x) /\ accepted' = accepted /\ served' = served
      /\ flushing' = flushing /\ closed' = closed
      /\ made' = [made EXCEPT ![c] = @ + 1]
  BY DEF Connected, routerVars
<1>3. x \notin Somewhere
  <2>1. ~(made[c] + 1 \in 1 .. made[c]) /\ made[c] + 1 \in Nat
    BY <1>1
  <2>2. QED
    BY <1>1, <2>1 DEF PlacesAreApart
<1>4. x \notin Sockets(backlog) /\ x \notin Sockets(accepted) /\ x \notin served /\ x \notin InFlushing /\ x \notin closed
  BY <1>3, SomewhereIs
<1>5. Sockets(backlog)' = Sockets(backlog) \cup {x}
  <2> DEFINE T == Streams \X Nat
  <2> HIDE DEF x, T
  <2>1. Sockets(Append(backlog, x)) = Sockets(backlog) \cup {x}
    <3>1. x \in T /\ backlog \in Seq(T)
      BY <1>1 DEF T
    <3>2. QED
      BY <3>1, SocketsAppended
  <2>2. QED
    BY <1>2, <2>1 DEF Sockets
<1>6. Distinct(backlog)'
  <2> DEFINE T == Streams \X Nat
  <2> HIDE DEF x, T
  <2>1. Distinct(Append(backlog, x))
    <3>1. x \in T /\ backlog \in Seq(T) /\ x \notin Sockets(backlog) /\ Distinct(backlog)
      BY <1>1, <1>4 DEF T, PlacesAreApart
    <3>2. QED
      BY <3>1, SocketsAppended
  <2>2. QED
    BY <1>2, <2>1 DEF Distinct
<1>7. Sockets(accepted)' = Sockets(accepted) /\ InFlushing' = InFlushing /\ Distinct(accepted)'
  BY <1>2 DEF Sockets, InFlushing, Distinct, PlacesAreApart
<1>8. Somewhere' = Somewhere \cup {x}
  BY <1>2, <1>5, <1>7 DEF Somewhere
<1>9. ASSUME NEW e \in Streams', NEW k \in Nat PROVE <<e, k>> \in Somewhere' <=> k \in 1 .. made'[e]
  <2>1. <<e, k>> \in Somewhere <=> k \in 1 .. made[e]
    BY <1>9 DEF PlacesAreApart
  <2>2. <<e, k>> = x <=> e = c /\ k = made[c] + 1
    OBVIOUS
  <2>3. made[e] \in Nat /\ made'[e] = IF e = c THEN made[e] + 1 ELSE made[e]
    BY <1>2 DEF ConnectTypeOK, ConnectorTypeOK, AcceptorTypeOK, RouterTypeOK, DatagramTypeOK, Streams
  <2>4. QED
    BY <1>8, <2>1, <2>2, <2>3
<1> HIDE DEF x
<1>10. QED
  BY <1>2, <1>4, <1>5, <1>6, <1>7, <1>9 DEF PlacesAreApart

LEMMA PlacesAtAccept ==
  ASSUME ConnectTypeOK, PlacesAreApart, HandleAccept, Streams' = Streams
  PROVE  PlacesAreApart'
<1> DEFINE x == Head(backlog)
<1>1. backlog \in Seq(Streams \X Nat) /\ accepted \in Seq(Streams \X Nat) /\ x \in Streams \X Nat
  BY DEF ConnectTypeOK, ConnectorTypeOK, AcceptorTypeOK, RouterTypeOK, DatagramTypeOK, HandleAccept
<1>2. /\ backlog' = Tail(backlog) /\ accepted' = Append(accepted, x) /\ served' = served
      /\ flushing' = flushing /\ closed' = closed /\ made' = made /\ backlog # <<>>
  BY DEF HandleAccept, routerVars, connectorVars
<1>3. x \in Sockets(backlog)
  BY <1>1, <1>2, SocketsTaken
<1>4. x \notin Sockets(accepted) /\ x \notin served /\ x \notin InFlushing /\ x \notin closed
  BY <1>3 DEF PlacesAreApart
<1>5. Sockets(backlog)' = Sockets(backlog) \ {x} /\ Distinct(backlog)'
  <2>1. Sockets(Tail(backlog)) = Sockets(backlog) \ {x} /\ Distinct(Tail(backlog))
    BY <1>1, <1>2, SocketsTaken DEF PlacesAreApart
  <2>2. QED
    BY <1>2, <2>1 DEF Sockets, Distinct
<1>6. Sockets(accepted)' = Sockets(accepted) \cup {x} /\ Distinct(accepted)'
  <2>1. Sockets(Append(accepted, x)) = Sockets(accepted) \cup {x} /\ Distinct(Append(accepted, x))
    BY <1>1, <1>4, SocketsAppended DEF PlacesAreApart
  <2>2. QED
    BY <1>2, <2>1 DEF Sockets, Distinct
<1>7. InFlushing' = InFlushing
  BY <1>2 DEF InFlushing
<1> HIDE DEF x
<1>8. Somewhere' = Somewhere
  BY <1>2, <1>3, <1>5, <1>6, <1>7 DEF Somewhere
<1>9. QED
  BY <1>2, <1>3, <1>4, <1>5, <1>6, <1>7, <1>8 DEF PlacesAreApart

LEMMA PlacesAtProcess ==
  ASSUME ConnectTypeOK, PlacesAreApart, ProcessAccepted, Streams' = Streams
  PROVE  PlacesAreApart'
<1>1. /\ backlog' = backlog /\ accepted' = <<>> /\ served' = served \cup Sockets(accepted)
      /\ made' = made /\ UpdateFlushing({})
  BY DEF ProcessAccepted
<1>2. PICK gone \in SUBSET InFlushing :
            /\ InFlushing' = (InFlushing \ gone) \cup {f.conn : f \in {}}
            /\ closed' = closed \cup gone
            /\ \A f, g \in flushing' : f.conn = g.conn => f = g
  <2>1. \A f, g \in flushing : f.conn = g.conn => f = g
    BY DEF PlacesAreApart
  <2>2. QED
    BY <1>1, <2>1, FlushingMoved
<1>3. InFlushing' = InFlushing \ gone
  BY <1>2
<1>4. Sockets(backlog)' = Sockets(backlog) /\ Distinct(backlog)' /\ Sockets(accepted)' = {} /\ Distinct(accepted)'
  BY <1>1, NoSockets DEF Sockets, Distinct, PlacesAreApart
<1>5. Somewhere' = Somewhere
  BY <1>1, <1>2, <1>3, <1>4 DEF Somewhere
<1>6. QED
  BY <1>1, <1>2, <1>3, <1>4, <1>5 DEF PlacesAreApart

LEMMA PlacesAtCleanup ==
  ASSUME ConnectTypeOK, PlacesAreApart, NEW s \in served, CleanupConnection(s), Streams' = Streams
  PROVE  PlacesAreApart'
<1>1. /\ backlog' = backlog /\ accepted' = accepted /\ served' = served \ {s} /\ made' = made
      /\ IF s[1] \in Streams THEN UpdateFlushing({[conn |-> s, expired |-> FALSE]})
         ELSE flushing' = flushing /\ closed' = closed
  BY DEF CleanupConnection, acceptorVars
<1>2. s \in Connectors \X Nat
  BY DEF ConnectTypeOK, ConnectorTypeOK, AcceptorTypeOK, RouterTypeOK, DatagramTypeOK
<1>3. Sockets(backlog)' = Sockets(backlog) /\ Distinct(backlog)'
      /\ Sockets(accepted)' = Sockets(accepted) /\ Distinct(accepted)'
  BY <1>1 DEF Sockets, Distinct, PlacesAreApart
<1>4. s \notin Sockets(backlog) /\ s \notin Sockets(accepted) /\ s \notin InFlushing /\ s \notin closed
  BY DEF PlacesAreApart
<1>5. CASE s[1] \in Streams
  <2> DEFINE more == {[conn |-> s, expired |-> FALSE]}
  <2>1. PICK gone \in SUBSET InFlushing :
            /\ InFlushing' = (InFlushing \ gone) \cup {f.conn : f \in more}
            /\ closed' = closed \cup gone
            /\ \A f, g \in flushing' : f.conn = g.conn => f = g
    <3>1. \A f, g \in flushing : f.conn = g.conn => f = g
      BY DEF PlacesAreApart
    <3>2. UpdateFlushing(more)
      BY <1>1, <1>5
    <3>3. more \subseteq [conn : Streams \X Nat, expired : BOOLEAN] /\ \A f \in more : f.conn = s
      BY <1>2, <1>5
    <3>4. \A f, g \in more : f = g
      OBVIOUS
    <3> HIDE DEF more
    <3>5. QED
      BY <1>4, <3>1, <3>2, <3>3, <3>4, FlushingMoved
  <2>2. {f.conn : f \in more} = {s}
    OBVIOUS
  <2> HIDE DEF more
  <2>3. InFlushing' = (InFlushing \ gone) \cup {s}
    BY <2>1, <2>2
  <2>4. Somewhere' = Somewhere
    BY <1>1, <1>3, <2>1, <2>3 DEF Somewhere
  <2>5. QED
    BY <1>1, <1>3, <1>4, <2>1, <2>3, <2>4 DEF PlacesAreApart
<1>6. CASE s[1] \notin Streams
  <2>1. flushing' = flushing /\ closed' = closed /\ InFlushing' = InFlushing
    BY <1>1, <1>6 DEF InFlushing
  <2>2. Somewhere' \cup {s} = Somewhere
    BY <1>1, <1>3, <2>1 DEF Somewhere
  <2>3. ASSUME NEW c \in Streams', NEW k \in Nat PROVE <<c, k>> \in Somewhere' <=> k \in 1 .. made'[c]
    <3>1. <<c, k>> # s
      BY <1>6, <2>3
    <3>2. <<c, k>> \in Somewhere <=> k \in 1 .. made[c]
      BY <2>3 DEF PlacesAreApart
    <3>3. QED
      BY <1>1, <2>2, <3>1, <3>2
  <2>4. QED
    BY <1>1, <1>3, <2>1, <2>3 DEF PlacesAreApart
<1>7. QED
  BY <1>5, <1>6

LEMMA PlacesAtExpiry ==
  ASSUME ConnectTypeOK, PlacesAreApart, NEW f \in flushing, FlushingExpires(f), Streams' = Streams
  PROVE  PlacesAreApart'
<1> DEFINE g == [f EXCEPT !.expired = TRUE]
<1>1. /\ backlog' = backlog /\ accepted' = accepted /\ served' = served /\ made' = made
      /\ flushing' = (flushing \ {f}) \cup {g} /\ closed' = closed
  BY DEF FlushingExpires, acceptorVars, connectorVars
<1>2. f \in [conn : Streams \X Nat, expired : BOOLEAN] /\ g.conn = f.conn
  BY DEF ConnectTypeOK, ConnectorTypeOK, AcceptorTypeOK, RouterTypeOK, DatagramTypeOK
<1>3. Sockets(backlog)' = Sockets(backlog) /\ Distinct(backlog)'
      /\ Sockets(accepted)' = Sockets(accepted) /\ Distinct(accepted)'
  BY <1>1 DEF Sockets, Distinct, PlacesAreApart
<1> HIDE DEF g
<1>4. InFlushing' = InFlushing
  BY <1>1, <1>2 DEF InFlushing
<1>5. \A h, i \in flushing' : h.conn = i.conn => h = i
  BY <1>1, <1>2 DEF PlacesAreApart
<1>6. Somewhere' = Somewhere
  BY <1>1, <1>3, <1>4 DEF Somewhere
<1>7. QED
  BY <1>1, <1>3, <1>4, <1>5, <1>6 DEF PlacesAreApart

LEMMA PlacesAtDatagrams ==
  ASSUME ConnectTypeOK, PlacesAreApart, ProcessAcceptedDatagrams, Streams' = Streams
  PROVE  PlacesAreApart'
<1> DEFINE new == {Present(c) : c \in pending}
<1>1. /\ backlog' = backlog /\ accepted' = accepted /\ served' = served \cup new /\ made' = made
      /\ flushing' = flushing /\ closed' = closed
  BY DEF ProcessAcceptedDatagrams, acceptorVars, connectorVars
<1>2. Sockets(backlog)' = Sockets(backlog) /\ Distinct(backlog)' /\ InFlushing' = InFlushing
      /\ Sockets(accepted)' = Sockets(accepted) /\ Distinct(accepted)'
  BY <1>1 DEF Sockets, Distinct, PlacesAreApart, InFlushing
<1>3. ASSUME NEW x \in new PROVE x[1] \notin Streams
  <2>1. PICK c \in pending : x = <<c, made[c]>>
    BY <1>3 DEF Present
  <2>2. QED
    BY <2>1 DEF ConnectTypeOK, ConnectorTypeOK, AcceptorTypeOK, RouterTypeOK, DatagramTypeOK, Datagrams
<1>4. ASSUME NEW x \in Streams \X Nat PROVE x \notin new
  BY <1>3, <1>4
<1>5. /\ \A x \in new : x \notin Sockets(backlog) /\ x \notin Sockets(accepted)
                     /\ x \notin InFlushing /\ x \notin closed
  <2>1. Sockets(backlog) \subseteq Streams \X Nat /\ Sockets(accepted) \subseteq Streams \X Nat
    BY DEF ConnectTypeOK, ConnectorTypeOK, AcceptorTypeOK, RouterTypeOK, DatagramTypeOK, Sockets
  <2>2. InFlushing \subseteq Streams \X Nat /\ closed \subseteq Streams \X Nat
    BY DEF ConnectTypeOK, ConnectorTypeOK, AcceptorTypeOK, RouterTypeOK, DatagramTypeOK, InFlushing
  <2> HIDE DEF new
  <2>3. QED
    BY <1>4, <2>1, <2>2
<1> HIDE DEF new
<1>6. Somewhere' = Somewhere \cup new
  BY <1>1, <1>2 DEF Somewhere
<1>7. ASSUME NEW c \in Streams', NEW k \in Nat PROVE <<c, k>> \in Somewhere' <=> k \in 1 .. made'[c]
  <2>1. <<c, k>> \notin new
    BY <1>4, <1>7
  <2>2. <<c, k>> \in Somewhere <=> k \in 1 .. made[c]
    BY <1>7 DEF PlacesAreApart
  <2>3. QED
    BY <1>1, <1>6, <2>1, <2>2
<1>8. QED
  BY <1>1, <1>2, <1>5, <1>7 DEF PlacesAreApart


LEMMA PlacesStep ==
  ASSUME ConnectTypeOK, AttemptsAreSound, PlacesAreApart, [ConnectNext]_connectVars
  PROVE  PlacesAreApart'
<1>1. Streams' = Streams
  BY AddressesAndKindsStay
<1>2. ASSUME NEW c \in Connectors, UpdateConnector(c) PROVE PlacesAreApart'
  BY <1>2, <1>1, PlacesStay DEF UpdateConnector, StartReceive, StartResolve, ConnectPath, StartConnect, Present, acceptorVars, routerVars, datagramVars
<1>3. ASSUME NEW c \in Connectors, Resolved(c) PROVE PlacesAreApart'
  <2>1. kind[c] = "tcp" \/ kind[c] = "udp"
    BY <1>3 DEF Resolved, AttemptsAreSound, ConnectTypeOK, ConnectorTypeOK
  <2>2. \A d \in Streams : made'[d] = made[d]
    BY <1>3, <2>1 DEF Resolved, StartConnect, Establish, Streams, ConnectTypeOK, ConnectorTypeOK
  <2>3. QED
    BY <1>3, <1>1, <2>2, PlacesStay DEF Resolved, acceptorVars, routerVars
<1>4. ASSUME NEW c \in Connectors, Connected(c) PROVE PlacesAreApart'
  BY <1>4, <1>1, PlacesAtConnected DEF AttemptsAreSound, Connected
<1>5. ASSUME NEW c \in Connectors, ConnectFails(c) PROVE PlacesAreApart'
  BY <1>5, <1>1, PlacesStay DEF ConnectFails, ConnectHandler, StartConnect, acceptorVars, routerVars, datagramVars
<1>6. ASSUME NEW c \in Connectors, HandleReceiveError(c) PROVE PlacesAreApart'
  BY <1>6, <1>1, PlacesStay DEF HandleReceiveError, acceptorVars, routerVars, datagramVars
<1>7. ASSUME NEW c \in Connectors, ConnectAborted(c) PROVE PlacesAreApart'
  BY <1>7, <1>1, PlacesStay DEF ConnectAborted, ConnectHandler, StartConnect, acceptorVars, routerVars, datagramVars
<1>8. ASSUME NEW c \in Connectors, Expire(c) PROVE PlacesAreApart'
  BY <1>8, <1>1, PlacesStay DEF Expire, acceptorVars, routerVars, datagramVars
<1>9. ASSUME NEW c \in Connectors, ResolveFails(c) PROVE PlacesAreApart'
  BY <1>9, <1>1, PlacesStay DEF ResolveFails, acceptorVars, routerVars, datagramVars
<1>10. ASSUME NEW c \in Connectors, OnReceived(c) PROVE PlacesAreApart'
  BY <1>10, <1>1, PlacesStay DEF OnReceived, Known, connectorVars, acceptorVars, routerVars
<1>11. ASSUME UpdateAcceptor PROVE PlacesAreApart'
  BY <1>11, <1>1, PlacesStay DEF UpdateAcceptor, connectorVars, routerVars, datagramVars
<1>12. ASSUME HandleAccept PROVE PlacesAreApart'
  BY <1>12, <1>1, PlacesAtAccept
<1>13. ASSUME HandleAcceptError PROVE PlacesAreApart'
  BY <1>13, <1>1, PlacesStay DEF HandleAcceptError, connectorVars, routerVars, datagramVars
<1>14. ASSUME ProcessAccepted PROVE PlacesAreApart'
  BY <1>14, <1>1, PlacesAtProcess
<1>15. ASSUME ProcessAcceptedDatagrams PROVE PlacesAreApart'
  BY <1>15, <1>1, PlacesAtDatagrams
<1>16. ASSUME NEW c \in Connectors, FetchDatagrams(c) PROVE PlacesAreApart'
  BY <1>16, <1>1, PlacesStay DEF FetchDatagrams, Present, connectorVars, acceptorVars, routerVars
<1>17. ASSUME DescriptorsFreed PROVE PlacesAreApart'
  BY <1>17, <1>1, PlacesStay DEF DescriptorsFreed, connectorVars, routerVars, datagramVars
<1>18. ASSUME NEW s \in served, CleanupConnection(s) PROVE PlacesAreApart'
  BY <1>18, <1>1, PlacesAtCleanup
<1>19. ASSUME NEW f \in flushing, FlushingExpires(f) PROVE PlacesAreApart'
  BY <1>19, <1>1, PlacesAtExpiry
<1>20. CASE UNCHANGED connectVars
  BY <1>20, <1>1, PlacesStay DEF connectVars, connectorVars, acceptorVars, routerVars, datagramVars
<1>21. Datagrams \subseteq Connectors
  BY DEF Datagrams
<1>22. QED
  BY <1>2, <1>3, <1>4, <1>5, <1>6, <1>7, <1>8, <1>9, <1>10, <1>11, <1>12, <1>13, <1>14, <1>15, <1>16, <1>17, <1>18, <1>19, <1>20, <1>21 DEF ConnectNext, Connector, Server

LEMMA DatagramsStep ==
  ASSUME ConnectTypeOK, DatagramsAreKept, [ConnectNext]_connectVars
  PROVE  DatagramsAreKept'
<1>1. Datagrams' = Datagrams /\ Datagrams \subseteq Connectors
  BY AddressesAndKindsStay DEF Datagrams
<1>2. ASSUME NEW c \in Connectors, UpdateConnector(c) PROVE DatagramsAreKept'
  BY <1>2, <1>1 DEF DatagramsAreKept, ConnectTypeOK, DatagramTypeOK, UpdateConnector, StartReceive, StartResolve, ConnectPath, StartConnect, Present, acceptorVars, routerVars, datagramVars
<1>3. ASSUME NEW c \in Connectors, Resolved(c) PROVE DatagramsAreKept'
  BY <1>3, <1>1 DEF DatagramsAreKept, ConnectTypeOK, DatagramTypeOK, Resolved, StartConnect, Establish, acceptorVars, routerVars, datagramVars
<1>4. ASSUME NEW c \in Connectors, Connected(c) PROVE DatagramsAreKept'
  BY <1>4, <1>1 DEF DatagramsAreKept, ConnectTypeOK, DatagramTypeOK, Connected, routerVars, datagramVars
<1>5. ASSUME NEW c \in Connectors, ConnectFails(c) PROVE DatagramsAreKept'
  BY <1>5, <1>1 DEF DatagramsAreKept, ConnectTypeOK, DatagramTypeOK, ConnectFails, ConnectHandler, StartConnect, acceptorVars, routerVars, datagramVars
<1>6. ASSUME NEW c \in Connectors, HandleReceiveError(c) PROVE DatagramsAreKept'
  BY <1>6, <1>1 DEF DatagramsAreKept, ConnectTypeOK, DatagramTypeOK, HandleReceiveError, acceptorVars, routerVars, datagramVars
<1>7. ASSUME NEW c \in Connectors, ConnectAborted(c) PROVE DatagramsAreKept'
  BY <1>7, <1>1 DEF DatagramsAreKept, ConnectTypeOK, DatagramTypeOK, ConnectAborted, ConnectHandler, StartConnect, acceptorVars, routerVars, datagramVars
<1>8. ASSUME NEW c \in Connectors, Expire(c) PROVE DatagramsAreKept'
  BY <1>8, <1>1 DEF DatagramsAreKept, ConnectTypeOK, DatagramTypeOK, Expire, acceptorVars, routerVars, datagramVars
<1>9. ASSUME NEW c \in Connectors, ResolveFails(c) PROVE DatagramsAreKept'
  BY <1>9, <1>1 DEF DatagramsAreKept, ConnectTypeOK, DatagramTypeOK, ResolveFails, acceptorVars, routerVars, datagramVars
<1>10. ASSUME NEW c \in Connectors, OnReceived(c) PROVE DatagramsAreKept'
  <2>1. /\ sent' = [sent EXCEPT ![c] = @ + 1]
        /\ box' = [box EXCEPT ![c] = @ + 1] /\ fetched' = fetched /\ current' = current
        /\ pending' = IF c \in current \cup pending THEN pending ELSE pending \cup {c}
    BY <1>10 DEF OnReceived, Known
  <2>2. ASSUME NEW d \in Datagrams PROVE box'[d] + fetched'[d] = sent'[d]
    <3>1. box[d] \in Nat /\ fetched[d] \in Nat /\ sent[d] \in Nat /\ box[d] + fetched[d] = sent[d]
      BY <1>1 DEF DatagramsAreKept, ConnectTypeOK, DatagramTypeOK
    <3>2. /\ box'[d] = IF d = c THEN box[d] + 1 ELSE box[d]
          /\ sent'[d] = IF d = c THEN sent[d] + 1 ELSE sent[d]
          /\ fetched'[d] = fetched[d]
      BY <1>1, <2>1 DEF ConnectTypeOK, DatagramTypeOK
    <3>3. QED
      BY <3>1, <3>2
  <2>3. ASSUME NEW d \in Datagrams PROVE ~(d \in pending' /\ d \in current')
    BY <2>1 DEF DatagramsAreKept
  <2>4. QED
    BY <1>1, <2>2, <2>3 DEF DatagramsAreKept
<1>11. ASSUME UpdateAcceptor PROVE DatagramsAreKept'
  BY <1>11, <1>1 DEF DatagramsAreKept, ConnectTypeOK, DatagramTypeOK, UpdateAcceptor, connectorVars, routerVars, datagramVars
<1>12. ASSUME HandleAccept PROVE DatagramsAreKept'
  BY <1>12, <1>1 DEF DatagramsAreKept, ConnectTypeOK, DatagramTypeOK, HandleAccept, connectorVars, routerVars, datagramVars
<1>13. ASSUME HandleAcceptError PROVE DatagramsAreKept'
  BY <1>13, <1>1 DEF DatagramsAreKept, ConnectTypeOK, DatagramTypeOK, HandleAcceptError, connectorVars, routerVars, datagramVars
<1>14. ASSUME ProcessAccepted PROVE DatagramsAreKept'
  BY <1>14, <1>1 DEF DatagramsAreKept, ConnectTypeOK, DatagramTypeOK, ProcessAccepted, UpdateFlushing, EndsOfStream, Present, datagramVars
<1>15. ASSUME ProcessAcceptedDatagrams PROVE DatagramsAreKept'
  BY <1>15, <1>1 DEF DatagramsAreKept, ConnectTypeOK, DatagramTypeOK, ProcessAcceptedDatagrams, Present, connectorVars, acceptorVars
<1>16. ASSUME NEW c \in Connectors, FetchDatagrams(c) PROVE DatagramsAreKept'
  BY <1>16, <1>1 DEF DatagramsAreKept, ConnectTypeOK, DatagramTypeOK, FetchDatagrams, Present, connectorVars, acceptorVars, routerVars
<1>17. ASSUME DescriptorsFreed PROVE DatagramsAreKept'
  BY <1>17, <1>1 DEF DatagramsAreKept, ConnectTypeOK, DatagramTypeOK, DescriptorsFreed, connectorVars, routerVars, datagramVars
<1>18. ASSUME NEW s \in served, CleanupConnection(s) PROVE DatagramsAreKept'
  BY <1>18, <1>1 DEF DatagramsAreKept, ConnectTypeOK, DatagramTypeOK, CleanupConnection, UpdateFlushing, EndsOfStream, Present, acceptorVars, datagramVars
<1>19. ASSUME NEW f \in flushing, FlushingExpires(f) PROVE DatagramsAreKept'
  BY <1>19, <1>1 DEF DatagramsAreKept, ConnectTypeOK, DatagramTypeOK, FlushingExpires, connectorVars, acceptorVars, datagramVars
<1>20. CASE UNCHANGED connectVars
  BY <1>20, <1>1 DEF DatagramsAreKept, connectVars, connectorVars, acceptorVars, routerVars, datagramVars
<1>21. Datagrams \subseteq Connectors
  BY DEF Datagrams
<1>22. QED
  BY <1>2, <1>3, <1>4, <1>5, <1>6, <1>7, <1>8, <1>9, <1>10, <1>11, <1>12, <1>13, <1>14, <1>15, <1>16, <1>17, <1>18, <1>19, <1>20, <1>21 DEF ConnectNext, Connector, Server

LEMMA ConnectBegins ==
  ASSUME ConnectInit
  PROVE  ConnectIInv
<1>1. PICK s \in Scenarios : kind = s.kind /\ addrs = s.addrs /\ drops = s.drops /\ full = s.full /\ fails = s.fails
  BY DEF ConnectInit
<1>2. /\ kind \in [Connectors -> {"tcp", "local", "udp"}] /\ addrs \in [Connectors -> Seq(BOOLEAN)]
      /\ drops \in Nat /\ full \in BOOLEAN /\ fails \in Nat
  BY <1>1, ConnectAssumption DEF Connectors
<1>3. ConnectTypeOK
  <2>1. ConnectorTypeOK
    BY <1>2 DEF ConnectorTypeOK, ConnectInit, No, Nothing
  <2>2. AcceptorTypeOK
    <3>1. /\ listening = FALSE /\ backlog = <<>> /\ accepted = <<>> /\ spinning = FALSE
      BY DEF ConnectInit
    <3>2. <<>> \in Seq(Streams \X Nat)
      OBVIOUS
    <3>3. full \in BOOLEAN
      BY <1>2
    <3>4. QED
      BY <3>1, <3>2, <3>3 DEF AcceptorTypeOK
  <2>3. RouterTypeOK
    BY <1>2 DEF RouterTypeOK, ConnectInit
  <2>4. DatagramTypeOK
    BY <1>2 DEF DatagramTypeOK, ConnectInit, Nothing
  <2>5. QED
    BY <1>2, <2>1, <2>2, <2>3, <2>4 DEF ConnectTypeOK
<1>4. AttemptsAreSound
  BY DEF AttemptsAreSound, ConnectInit, No
<1>5. PlacesAreApart
  <2>1. Sockets(backlog) = {} /\ Sockets(accepted) = {} /\ Distinct(backlog) /\ Distinct(accepted)
    BY NoSockets DEF ConnectInit
  <2>2. InFlushing = {} /\ served = {} /\ closed = {} /\ flushing = {}
    BY DEF ConnectInit, InFlushing
  <2>3. Somewhere = {}
    BY <2>1, <2>2 DEF Somewhere
  <2>4. \A c \in Streams : made[c] = 0
    BY DEF ConnectInit, Nothing, Streams
  <2>5. ASSUME NEW c \in Streams, NEW k \in Nat PROVE <<c, k>> \in Somewhere <=> k \in 1 .. made[c]
    BY <2>3, <2>4
  <2>6. QED
    BY <2>1, <2>2, <2>5 DEF PlacesAreApart
<1>6. DatagramsAreKept
  BY DEF DatagramsAreKept, ConnectInit, Nothing, Datagrams
<1>7. QED
  BY <1>3, <1>4, <1>5, <1>6 DEF ConnectIInv

LEMMA ConnectStep ==
  ASSUME ConnectIInv, [ConnectNext]_connectVars
  PROVE  ConnectIInv'
  BY ConnectTypeStep, AttemptsStep, PlacesStep, DatagramsStep DEF ConnectIInv

(* A set of places of one connection has one element or none.              *)
LEMMA OccursOnce ==
  ASSUME NEW s, Distinct(s), NEW x
  PROVE  Cardinality({i \in DOMAIN s : s[i] = x}) = IF x \in Sockets(s) THEN 1 ELSE 0
<1>1. CASE x \in Sockets(s)
  <2>1. PICK i \in DOMAIN s : s[i] = x
    BY <1>1 DEF Sockets
  <2>2. {j \in DOMAIN s : s[j] = x} = {i}
    BY <2>1 DEF Distinct
  <2>3. QED
    BY <1>1, <2>2, FS_Singleton
<1>2. CASE x \notin Sockets(s)
  <2>1. {j \in DOMAIN s : s[j] = x} = {}
    BY <1>2 DEF Sockets
  <2>2. QED
    BY <1>2, <2>1, FS_EmptySet
<1>3. QED
  BY <1>1, <1>2

LEMMA FlushesOnce ==
  ASSUME PlacesAreApart, NEW x
  PROVE  Cardinality({f \in flushing : f.conn = x}) = IF x \in InFlushing THEN 1 ELSE 0
<1>1. CASE x \in InFlushing
  <2>1. PICK f \in flushing : f.conn = x
    BY <1>1 DEF InFlushing
  <2>2. {g \in flushing : g.conn = x} = {f}
    BY <2>1 DEF PlacesAreApart
  <2>3. QED
    BY <1>1, <2>2, FS_Singleton
<1>2. CASE x \notin InFlushing
  <2>1. {g \in flushing : g.conn = x} = {}
    BY <1>2 DEF InFlushing
  <2>2. QED
    BY <1>2, <2>1, FS_EmptySet
<1>3. QED
  BY <1>1, <1>2

LEMMA OnePlaceEach ==
  ASSUME ConnectIInv
  PROVE  ConnectionsHaveOnePlace
<1>1. Streams \subseteq Connectors
  BY DEF Streams
<1>2. ASSUME NEW c \in Streams, NEW k \in 1 .. made[c] PROVE Everywhere(<<c, k>>) = 1
  <2> DEFINE x == <<c, k>>
  <2>1. x \in Somewhere
    <3>1. made[c] \in Nat
      BY <1>1 DEF ConnectIInv, ConnectTypeOK, ConnectorTypeOK, AcceptorTypeOK, RouterTypeOK, DatagramTypeOK
    <3>2. k \in Nat
      BY <3>1
    <3>3. QED
      BY <3>2 DEF ConnectIInv, PlacesAreApart
  <2> HIDE DEF x
  <2>2. PlacesAreApart
    BY DEF ConnectIInv
  <2>3. /\ Cardinality({i \in DOMAIN backlog : backlog[i] = x}) = IF x \in Sockets(backlog) THEN 1 ELSE 0
        /\ Cardinality({i \in DOMAIN accepted : accepted[i] = x}) = IF x \in Sockets(accepted) THEN 1 ELSE 0
    BY <2>2, OccursOnce DEF PlacesAreApart
  <2>4. Cardinality({f \in flushing : f.conn = x}) = IF x \in InFlushing THEN 1 ELSE 0
    BY <2>2, FlushesOnce
  <2>5. x \in Sockets(backlog) \/ x \in Sockets(accepted) \/ x \in served \/ x \in InFlushing \/ x \in closed
    BY <2>1, SomewhereIs
  <2>6. Everywhere(x) = (IF x \in Sockets(backlog) THEN 1 ELSE 0) + (IF x \in Sockets(accepted) THEN 1 ELSE 0)
                        + (IF x \in served THEN 1 ELSE 0) + (IF x \in InFlushing THEN 1 ELSE 0)
                        + (IF x \in closed THEN 1 ELSE 0)
    BY <2>3, <2>4 DEF Everywhere
  <2>7. Everywhere(x) = 1
    BY <2>2, <2>5, <2>6 DEF PlacesAreApart
  <2>8. QED
    BY <2>7 DEF x
<1>3. StreamsHaveOnePlace
  BY <1>1, <1>2 DEF StreamsHaveOnePlace, ConnectIInv, AttemptsAreSound
<1>4. QED
  BY <1>3 DEF ConnectionsHaveOnePlace, ConnectIInv

(* In all behaviours of connectors, acceptors and the router the places of *)
(* the connections are apart, and a connector knows of its attempt.        *)
THEOREM ConnectInvariant == ConnectSpec => []ConnectIInv
<1>1. ConnectInit => ConnectIInv
  BY ConnectBegins
<1>2. ConnectIInv /\ [ConnectNext]_connectVars => ConnectIInv'
  BY ConnectStep
<1>3. QED
  BY <1>1, <1>2, PTL DEF ConnectSpec

(* However connectors try, acceptors fail and sockets linger: a connection *)
(* that was made is in one place at the router, an attempt is made at a    *)
(* time, and no datagram is lost before its connection fetches it          *)
(* (asio_impl.cpp, process_accepted).                                      *)
THEOREM EachConnectionIsInOnePlace == ConnectSpec => []ConnectionsHaveOnePlace
  BY ConnectInvariant, OnePlaceEach, PTL

=============================================================================
