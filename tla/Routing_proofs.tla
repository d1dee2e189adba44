---------------------------- MODULE Routing_proofs ----------------------------
(***************************************************************************)
(* Proofs about routing, for every tree of routers, all endpoints and      *)
(* messages, and every bound: no message comes to an endpoint twice.       *)
(* Broadcasts: Routing!IInv is inductive: the routers that have had one    *)
(* are a set that its copies leave, up by one way and down by others, and  *)
(* a router that has lost its parent sends nothing back to it, because the *)
(* confirmation of its id comes before everything else.                    *)
(* Messages for one endpoint: with Routing!Sane and TargetedApart it is    *)
(* inductive too: every link between routers splits the tree in two, each  *)
(* copy is on its way to a side that no other copy is heading for, and     *)
(* where a router does not know the way nothing ahead of a copy sends it   *)
(* back.  The lemmas say how each step moves copies and announcements.     *)
(***************************************************************************)
EXTENDS Routing, SequenceTheorems, TLAPS

-----------------------------------------------------------------------------
(* The tree of routers.                                                    *)

LEMMA NoneIsNoRouter == None \notin Routers /\ None \notin Endpoints /\ Routers \cap Endpoints = {}
  BY RoutingAssumption

(* What is above a router: its parent, and what is above that.             *)
LEMMA AboveClosed ==
  ASSUME NEW r \in Routers
  PROVE  /\ Above[r] \subseteq Routers
         /\ Parent[r] \in Above[r] \cup {None}
         /\ \A y \in Above[r] : Parent[y] \in Above[r] \cup {None}
  BY RoutingAssumption DEF Above

LEMMA AboveLeast ==
  ASSUME NEW r \in Routers, NEW S \in SUBSET Routers,
         Parent[r] \in S \cup {None}, \A y \in S : Parent[y] \in S \cup {None}
  PROVE  Above[r] \subseteq S
  BY DEF Above

LEMMA AboveOfAbove ==
  ASSUME NEW r \in Routers, NEW y \in Above[r]
  PROVE  Above[y] \subseteq Above[r]
<1>1. /\ y \in Routers /\ Above[r] \in SUBSET Routers /\ Parent[y] \in Above[r] \cup {None}
      /\ \A z \in Above[r] : Parent[z] \in Above[r] \cup {None}
  BY AboveClosed
<1>2. QED
  BY <1>1, AboveLeast

LEMMA AboveByParent ==
  ASSUME NEW r \in Routers, Parent[r] # None
  PROVE  Parent[r] \in Routers /\ Above[r] = {Parent[r]} \cup Above[Parent[r]]
<1> DEFINE p == Parent[r]
           S == {p} \cup Above[p]
<1>1. p \in Routers
  BY RoutingAssumption
<1>2. S \in SUBSET Routers /\ p \in S /\ \A y \in S : Parent[y] \in S \cup {None}
  BY <1>1, AboveClosed
<1>3. Above[r] \subseteq S
  <2>1. Parent[r] \in S \cup {None}
    OBVIOUS
  <2> HIDE DEF S
  <2>2. QED
    BY <1>2, <2>1, AboveLeast
<1>4. p \in Above[r]
  BY AboveClosed
<1>5. QED
  BY <1>1, <1>3, <1>4, AboveOfAbove

(* Of two routers above a third, or that router itself, one is above the   *)
(* other: the way up is one.                                               *)
LEMMA AboveIsAWay ==
  ASSUME NEW r \in Routers, NEW x \in {r} \cup Above[r], NEW y \in {r} \cup Above[r]
  PROVE  x = y \/ x \in Above[y] \/ y \in Above[x]
<1> DEFINE A == {r} \cup Above[r]
           S == {z \in A : \A w \in A : z = w \/ z \in Above[w] \/ w \in Above[z]}
<1>1. A \subseteq Routers /\ r \in S
  BY AboveClosed
<1>2. ASSUME NEW z \in S, Parent[z] # None PROVE Parent[z] \in S
  <2>1. z \in Routers /\ Parent[z] \in Routers /\ Above[z] = {Parent[z]} \cup Above[Parent[z]]
    BY <1>1, <1>2, AboveByParent
  <2>2. Parent[z] \in A
    BY <1>2, AboveClosed
  <2>3. ASSUME NEW w \in A
        PROVE  Parent[z] = w \/ Parent[z] \in Above[w] \/ w \in Above[Parent[z]]
    <3>1. z = w \/ z \in Above[w] \/ w \in Above[z]
      BY <2>3
    <3>2. CASE z = w
      BY <2>1, <3>2
    <3>3. CASE z \in Above[w]
      BY <1>1, <1>2, <3>3, AboveClosed
    <3>4. CASE w \in Above[z]
      BY <2>1, <3>4
    <3>5. QED
      BY <3>1, <3>2, <3>3, <3>4
  <2>4. QED
    BY <2>2, <2>3
<1>3. Above[r] \subseteq S
  <2>1. S \in SUBSET Routers /\ Parent[r] \in S \cup {None}
        /\ \A z \in S : Parent[z] \in S \cup {None}
    BY <1>1, <1>2
  <2> HIDE DEF S
  <2>2. QED
    BY <2>1, AboveLeast
<1>4. QED
  BY <1>1, <1>3

(* What is below a router c with a parent b.                               *)
LEMMA BelowChild ==
  ASSUME NEW b \in Routers, NEW c \in Children(b)
  PROVE  /\ c \in Routers /\ c # b
         /\ c \in Below(c) /\ b \notin Below(c) /\ Below(c) \subseteq Below(b)
         /\ \A x \in Routers : c \in Below(x) /\ c # x => b \in Below(x)
         /\ \A x \in Routers : b \in Below(x) => c \in Below(x)
<1>1. c \in Routers /\ Parent[c] = b /\ Above[c] = {b} \cup Above[b]
  BY NoneIsNoRouter, AboveByParent DEF Children
<1>2. c # b /\ b \notin Below(c) /\ c \in Below(c)
  BY <1>1, TreeAssumption, AboveOfAbove DEF Below
<1>3. Below(c) \subseteq Below(b)
  BY <1>1, AboveOfAbove DEF Below
<1>4. QED
  BY <1>1, <1>2, <1>3 DEF Below

LEMMA SiblingsShareNothing ==
  ASSUME NEW b \in Routers, NEW a \in Children(b), NEW c \in Children(b), a # c
  PROVE  Below(a) \cap Below(c) = {}
<1> SUFFICES ASSUME NEW z \in Below(a), z \in Below(c) PROVE FALSE
  OBVIOUS
<1>1. /\ a \in Routers /\ c \in Routers /\ z \in Routers
      /\ Above[a] = {b} \cup Above[b] /\ Above[c] = {b} \cup Above[b]
  BY NoneIsNoRouter, AboveByParent DEF Children, Below
<1>2. a \in Above[c] \/ c \in Above[a]
  BY <1>1, AboveIsAWay DEF Below
<1>3. a \notin Above[b] /\ c \notin Above[b] /\ a # b /\ c # b
  BY <1>1, BelowChild DEF Below
<1>4. QED
  BY <1>1, <1>2, <1>3
-----------------------------------------------------------------------------
(* How a broadcast spreads in the tree.                                    *)

LEMMA LinkEnds ==
  ASSUME NEW l \in Links
  PROVE  /\ l = <<l[1], l[2]>> /\ l[2] \in Routers
         /\ l[1] \in Routers \cup Endpoints
         /\ l[1] \in Routers /\ IsUp(l) => l[1] \in Children(l[2])
         /\ l[1] \in Routers /\ ~IsUp(l) => l[2] \in Children(l[1])
         /\ l[1] \in Endpoints => ~IsUp(l) /\ l[1] # Parent[l[2]]
<1>1. CASE \E c \in Routers : Parent[c] # None /\ l = <<c, Parent[c]>>
  <2>1. PICK c \in Routers : Parent[c] # None /\ l = <<c, Parent[c]>>
    BY <1>1
  <2>2. Parent[c] \in Routers /\ c \in Children(Parent[c])
    BY <2>1, RoutingAssumption DEF Children
  <2>3. QED
    BY <2>1, <2>2, NoneIsNoRouter DEF IsUp
<1>2. CASE \E c \in Routers : Parent[c] # None /\ l = <<Parent[c], c>>
  <2>1. PICK c \in Routers : Parent[c] # None /\ l = <<Parent[c], c>>
    BY <1>2
  <2>2. Parent[c] \in Routers /\ c \in Children(Parent[c])
    BY <2>1, RoutingAssumption DEF Children
  <2>3. ~IsUp(l)
    <3>1. SUFFICES ASSUME Parent[Parent[c]] = c PROVE FALSE
      BY <2>1 DEF IsUp
    <3>2. Parent[c] \in Children(c)
      BY <2>2, <3>1 DEF Children
    <3>3. c \in Above[Parent[c]] /\ Parent[c] \in Above[c]
      BY <2>1, <2>2, <3>1, NoneIsNoRouter, AboveByParent
    <3>4. QED
      BY <2>2, <3>3, AboveOfAbove, TreeAssumption
  <2>4. QED
    BY <2>1, <2>2, <2>3, NoneIsNoRouter
<1>3. CASE l \in Endpoints \X Routers
  BY <1>3, NoneIsNoRouter, RoutingAssumption DEF IsUp
<1>4. QED
  <2>1. Movers \X Routers \subseteq Endpoints \X Routers
    BY RoutingAssumption
  <2>2. UNION {{<<e, h[e]>> : e \in Endpoints} : h \in Homes} \subseteq Endpoints \X Routers
    BY RoutingAssumption
  <2>3. QED
    BY <1>1, <1>2, <1>3, <2>1, <2>2 DEF Links

(* The links over which a router b sends what came over the link l: not    *)
(* the one to where it came from.                                          *)
Onward(b, l) == {k \in Links : k[1] = b /\ k[2] # l[1]}

(* A router that has a broadcast on one of its links had it not before.    *)
LEMMA NotHadBefore ==
  ASSUME NEW V \in SUBSET Routers, NEW L \in SUBSET Links, SpreadsFrom(V, L), NEW l \in L
  PROVE  /\ l[2] \in Routers \ V
         /\ \A k \in L : k[1] # l[2]
         /\ l \notin Onward(l[2], l)
<1> DEFINE b == l[2]
<1>1. b \in Routers /\ b \in Below(b)
  BY LinkEnds DEF Below
<1>2. b \notin V
  <2>1. CASE l[1] \in Endpoints
    BY <2>1 DEF SpreadsFrom
  <2>2. CASE l[1] \in Routers /\ IsUp(l)
    <3>1. V \subseteq Below(l[1]) /\ l[1] \in Children(b)
      BY <2>2, LinkEnds DEF SpreadsFrom
    <3>2. QED
      BY <1>1, <3>1, BelowChild
  <2>3. CASE l[1] \in Routers /\ ~IsUp(l)
    BY <1>1, <2>3 DEF SpreadsFrom
  <2>4. QED
    BY <2>1, <2>2, <2>3, LinkEnds
<1>3. QED
  BY <1>1, <1>2, LinkEnds DEF SpreadsFrom, Onward

(* So when b has taken the copy from l and sent copies onward, what the    *)
(* invariant says of the set of routers that had it holds again, with b.   *)
LEMMA SpreadsOn ==
  ASSUME NEW V \in SUBSET Routers, NEW L \in SUBSET Links, SpreadsFrom(V, L),
         NEW l \in L, NEW M \in SUBSET ((L \ {l}) \cup Onward(l[2], l))
  PROVE  SpreadsFrom(V \cup {l[2]}, M)
<1> DEFINE a == l[1]
           b == l[2]
           W == V \cup {b}
<1>1. /\ b \in Routers /\ b \notin V /\ b \in Below(b)
      /\ a \in Routers \cup Endpoints
      /\ a \in Routers => a \in V
      /\ a \in Routers /\ IsUp(l) => a \in Children(b) /\ V \subseteq Below(a)
      /\ a \in Routers /\ ~IsUp(l) => b \in Children(a) /\ Parent[b] = a /\ V \cap Below(b) = {}
      /\ a \in Endpoints => V = {} /\ L = {l}
  BY NotHadBefore, LinkEnds DEF SpreadsFrom, Below, Children
<1>2. ASSUME NEW k \in Onward(b, l), IsUp(k)
      PROVE  W \subseteq Below(b) /\ \A j \in M : IsUp(j) => j = k
  <2>1. k[1] = b /\ Parent[b] = k[2] /\ k[2] # a
    BY <1>2 DEF Onward, IsUp
  <2>2. ~(a \in Routers /\ ~IsUp(l))
    BY <1>1, <2>1
  <2>3. V \subseteq Below(b)
    BY <1>1, <2>2, BelowChild
  <2>4. ASSUME NEW j \in M, IsUp(j) PROVE j = k
    <3>1. CASE j \in Onward(b, l)
      BY <1>2, <2>1, <2>4, <3>1, LinkEnds DEF Onward, IsUp
    <3>2. CASE j \in L \ {l}
      BY <1>1, <2>2, <2>4, <3>2 DEF SpreadsFrom
    <3>3. QED
      BY <3>1, <3>2
  <2>5. QED
    BY <1>1, <2>3, <2>4
<1>3. ASSUME NEW k \in Onward(b, l), ~IsUp(k) PROVE W \cap Below(k[2]) = {}
  <2> DEFINE c == k[2]
  <2>1. c \in Children(b) /\ c # a
    BY <1>1, <1>3, LinkEnds DEF Onward
  <2>2. b \notin Below(c) /\ Below(c) \subseteq Below(b)
    BY <1>1, <2>1, BelowChild
  <2>3. a \in Children(b) => Below(a) \cap Below(c) = {}
    BY <1>1, <2>1, SiblingsShareNothing
  <2> HIDE DEF c
  <2>4. V \cap Below(c) = {}
    BY <1>1, <2>2, <2>3
  <2>5. QED
    BY <2>2, <2>4 DEF c
<1>4. ASSUME NEW k \in L \ {l}
      PROVE  /\ a \in Routers /\ a \in V /\ k[1] \in Routers /\ k[1] \in W
             /\ ~(IsUp(l) /\ IsUp(k))
  BY <1>1, LinkEnds DEF SpreadsFrom
<1>5. ASSUME NEW k \in L \ {l}, IsUp(k)
      PROVE  W \subseteq Below(k[1]) /\ \A j \in M : IsUp(j) => j = k
  <2>1. V \subseteq Below(k[1])
    BY <1>5 DEF SpreadsFrom
  <2>2. b \in Below(k[1])
    BY <1>1, <1>4, <1>5, <2>1, BelowChild
  <2>3. ASSUME NEW j \in M, IsUp(j) PROVE j = k
    <3>1. CASE j \in Onward(b, l)
      BY <1>1, <1>4, <1>5, <2>3, <3>1 DEF Onward, IsUp
    <3>2. CASE j \in L \ {l}
      BY <1>5, <2>3, <3>2 DEF SpreadsFrom
    <3>3. QED
      BY <3>1, <3>2
  <2>4. QED
    BY <2>1, <2>2, <2>3
<1>6. ASSUME NEW k \in L \ {l}, ~IsUp(k) PROVE W \cap Below(k[2]) = {}
  <2>1. V \cap Below(k[2]) = {} /\ k[2] \in Children(k[1]) /\ k[2] \in Routers
    BY <1>4, <1>6, LinkEnds DEF SpreadsFrom
  <2>2. SUFFICES ASSUME b \in Below(k[2]) PROVE FALSE
    BY <2>1
  <2>3. CASE IsUp(l)
    BY <1>1, <1>4, <2>1, <2>2, <2>3, BelowChild
  <2>4. CASE ~IsUp(l) /\ b # k[2]
    BY <1>1, <1>4, <2>1, <2>2, <2>4, BelowChild
  <2>5. CASE ~IsUp(l) /\ b = k[2]
    <3>1. k[1] = a
      BY <1>1, <1>4, <2>1, <2>5 DEF Children
    <3>2. QED
      BY <2>5, <3>1, LinkEnds
  <2>6. QED
    BY <2>3, <2>4, <2>5
<1>7. ASSUME NEW k \in M
      PROVE  /\ k[1] \in Routers /\ k[1] \in W
             /\ IsUp(k) => W \subseteq Below(k[1]) /\ \A j \in M : IsUp(j) => j = k
             /\ ~IsUp(k) => W \cap Below(k[2]) = {}
  <2>1. CASE k \in Onward(b, l)
    <3>1. k[1] = b
      BY <2>1 DEF Onward
    <3>2. QED
      BY <1>1, <1>2, <1>3, <2>1, <3>1
  <2>2. CASE k \in L \ {l}
    BY <1>4, <1>5, <1>6, <2>2
  <2>3. QED
    BY <2>1, <2>2
<1> HIDE DEF W, b
<1>8. SpreadsFrom(W, M)
  BY <1>7, NoneIsNoRouter DEF SpreadsFrom
<1>9. QED
  BY <1>8 DEF W, b
-----------------------------------------------------------------------------
(* The copies of a message in a queue.                                     *)

(* A queue t holds no more copies of m than s did.                         *)
Thins(t, s, m) ==
    /\ CopiesIn(s, m) = {} => CopiesIn(t, m) = {}
    /\ OneCopy(s, m) => OneCopy(t, m)

(* It does not if its copies are different copies in s.                    *)
LEMMA RenumberedThins ==
  ASSUME NEW s, NEW t, NEW m, NEW f \in [CopiesIn(t, m) -> CopiesIn(s, m)],
         \A i, j \in CopiesIn(t, m) : f[i] = f[j] => i = j,
         \A i \in CopiesIn(t, m) : t[i] = s[f[i]]
  PROVE  Thins(t, s, m)
<1>1. CopiesIn(s, m) = {} => CopiesIn(t, m) = {}
  OBVIOUS
<1>2. ASSUME OneCopy(s, m), NEW i \in CopiesIn(t, m), NEW j \in CopiesIn(t, m)
      PROVE  i = j /\ t[i].dst = All
  <2>1. f[i] = f[j] /\ s[f[i]].dst = All
    BY <1>2 DEF OneCopy
  <2>2. QED
    BY <2>1
<1>3. QED
  BY <1>1, <1>2 DEF Thins, OneCopy

LEMMA TailThins ==
  ASSUME NEW s \in Seq(Messages), s # <<>>, NEW m
  PROVE  /\ Tail(s) \in Seq(Messages) /\ Thins(Tail(s), s, m)
         /\ OneCopy(s, m) /\ 1 \in CopiesIn(s, m) => CopiesIn(Tail(s), m) = {}
<1> DEFINE t == Tail(s)
<1>1. /\ t \in Seq(Messages) /\ Len(t) = Len(s) - 1 /\ Len(s) \in Nat
      /\ \A i \in 1 .. Len(t) : t[i] = s[i + 1]
  OBVIOUS
<1> HIDE DEF t
<1>2. \A i \in CopiesIn(t, m) :
         i \in Nat /\ i >= 1 /\ i + 1 \in CopiesIn(s, m) /\ t[i] = s[i + 1]
  BY <1>1 DEF CopiesIn
<1> DEFINE f == [i \in CopiesIn(t, m) |-> i + 1]
<1>3. /\ f \in [CopiesIn(t, m) -> CopiesIn(s, m)]
      /\ \A i, j \in CopiesIn(t, m) : f[i] = f[j] => i = j
      /\ \A i \in CopiesIn(t, m) : t[i] = s[f[i]]
  BY <1>2
<1> HIDE DEF f
<1>4. Thins(t, s, m)
  BY <1>3, RenumberedThins
<1>5. OneCopy(s, m) /\ 1 \in CopiesIn(s, m) => CopiesIn(t, m) = {}
  <2>1. SUFFICES ASSUME OneCopy(s, m), 1 \in CopiesIn(s, m), NEW i \in CopiesIn(t, m)
                 PROVE  FALSE
    OBVIOUS
  <2>2. i + 1 = 1
    BY <1>2, <2>1 DEF OneCopy
  <2>3. QED
    BY <1>2, <2>2
<1>6. QED
  BY <1>1, <1>4, <1>5 DEF t

LEMMA AppendCopies ==
  ASSUME NEW s \in Seq(Messages), NEW x \in Messages, NEW m
  PROVE  /\ Append(s, x) \in Seq(Messages)
         /\ ~(x.kind = "data" /\ x.id = m) => Thins(Append(s, x), s, m)
         /\ CopiesIn(s, m) = {} /\ x.dst = All => OneCopy(Append(s, x), m)
<1>1. /\ Append(s, x) \in Seq(Messages) /\ Len(Append(s, x)) = Len(s) + 1 /\ Len(s) \in Nat
      /\ \A i \in 1 .. Len(s) : Append(s, x)[i] = s[i]
      /\ Append(s, x)[Len(s) + 1] = x
  BY AppendProperties
<1>2. \A i \in CopiesIn(Append(s, x), m) :
         \/ i \in CopiesIn(s, m) /\ Append(s, x)[i] = s[i]
         \/ i = Len(s) + 1 /\ x.kind = "data" /\ x.id = m /\ Append(s, x)[i] = x
  BY <1>1 DEF CopiesIn
<1>3. QED
  BY <1>1, <1>2 DEF Thins, OneCopy

LEMMA PrefixThins ==
  ASSUME NEW s \in Seq(Messages), NEW k \in 0 .. Len(s), NEW m
  PROVE  SubSeq(s, 1, k) \in Seq(Messages) /\ Thins(SubSeq(s, 1, k), s, m)
<1>1. /\ SubSeq(s, 1, k) \in Seq(Messages) /\ Len(SubSeq(s, 1, k)) = k /\ Len(s) \in Nat
      /\ \A i \in 1 .. k : SubSeq(s, 1, k)[i] = s[i]
  <2>1. Len(s) \in Nat /\ \A i \in 1 .. k : s[i] \in Messages
    BY LenProperties, ElementOfSeq
  <2>2. QED
    BY <2>1, SubSeqProperties
<1>2. \A i \in CopiesIn(SubSeq(s, 1, k), m) : i \in CopiesIn(s, m) /\ SubSeq(s, 1, k)[i] = s[i]
  BY <1>1 DEF CopiesIn
<1>3. QED
  BY <1>1, <1>2 DEF Thins, OneCopy

LEMMA SuffixThins ==
  ASSUME NEW s \in Seq(Messages), NEW k \in 1 .. Len(s) + 1, NEW m
  PROVE  SubSeq(s, k, Len(s)) \in Seq(Messages) /\ Thins(SubSeq(s, k, Len(s)), s, m)
<1> DEFINE t == SubSeq(s, k, Len(s))
<1>1. /\ t \in Seq(Messages) /\ Len(t) = Len(s) - k + 1 /\ Len(s) \in Nat
      /\ \A i \in 1 .. Len(t) : t[i] = s[k + i - 1]
  <2>1. Len(s) \in Nat /\ \A i \in k .. Len(s) : s[i] \in Messages
    BY LenProperties, ElementOfSeq
  <2>2. QED
    BY <2>1, SubSeqProperties
<1> HIDE DEF t
<1>2. \A i \in CopiesIn(t, m) : i \in Nat /\ k + i - 1 \in CopiesIn(s, m) /\ t[i] = s[k + i - 1]
  BY <1>1 DEF CopiesIn
<1>3. \A i, j \in Nat : k + i - 1 = k + j - 1 => i = j
  OBVIOUS
<1>4. QED
  BY <1>1, <1>2, <1>3 DEF Thins, OneCopy, t

LEMMA RemovedThins ==
  ASSUME NEW s \in Seq(Messages), NEW i \in 1 .. Len(s), NEW m
  PROVE  /\ SubSeq(s, 1, i - 1) \o SubSeq(s, i + 1, Len(s)) \in Seq(Messages)
         /\ Thins(SubSeq(s, 1, i - 1) \o SubSeq(s, i + 1, Len(s)), s, m)
<1> DEFINE u == SubSeq(s, 1, i - 1)
           v == SubSeq(s, i + 1, Len(s))
           t == u \o v
           f(n) == IF n < i THEN n ELSE n + 1
<1>1. Len(s) \in Nat /\ \A j \in 1 .. Len(s) : s[j] \in Messages
  BY LenProperties, ElementOfSeq
<1>2. u \in Seq(Messages) /\ Len(u) = i - 1 /\ \A n \in 1 .. i - 1 : u[n] = s[n]
  BY <1>1, SubSeqProperties
<1>3. v \in Seq(Messages) /\ Len(v) = Len(s) - i /\ \A n \in 1 .. Len(s) - i : v[n] = s[i + n]
  <2>1. \A j \in (i + 1) .. Len(s) : s[j] \in Messages
    BY <1>1
  <2>2. QED
    BY <1>1, <2>1, SubSeqProperties
<1> HIDE DEF u, v
<1>4. /\ t \in Seq(Messages) /\ Len(t) = Len(s) - 1
      /\ \A n \in 1 .. Len(t) : t[n] = IF n < i THEN u[n] ELSE v[n - (i - 1)]
  <2>1. /\ t \in Seq(Messages) /\ Len(t) = Len(u) + Len(v)
        /\ \A n \in 1 .. Len(u) + Len(v) : t[n] = IF n <= Len(u) THEN u[n] ELSE v[n - Len(u)]
    BY <1>2, <1>3, ConcatProperties
  <2> HIDE DEF t
  <2>2. QED
    BY <1>1, <1>2, <1>3, <2>1
<1>5. \A n \in 1 .. Len(t) : t[n] = s[f(n)] /\ f(n) \in 1 .. Len(s)
  BY <1>1, <1>2, <1>3, <1>4
<1> HIDE DEF t
<1>6. \A n \in CopiesIn(t, m) : n \in Nat /\ f(n) \in CopiesIn(s, m) /\ t[n] = s[f(n)]
  BY <1>1, <1>4, <1>5 DEF CopiesIn
<1> DEFINE g == [n \in CopiesIn(t, m) |-> f(n)]
<1>7. /\ g \in [CopiesIn(t, m) -> CopiesIn(s, m)]
      /\ \A n, j \in CopiesIn(t, m) : g[n] = g[j] => n = j
      /\ \A n \in CopiesIn(t, m) : t[n] = s[g[n]]
  BY <1>6
<1> HIDE DEF g
<1>8. Thins(t, s, m)
  BY <1>7, RenumberedThins
<1>9. QED
  BY <1>4, <1>8 DEF t, u, v

LEMMA NoneThins ==
  ASSUME NEW s, NEW m
  PROVE  <<>> \in Seq(Messages) /\ Thins(<<>>, s, m) /\ Thins(s, s, m) /\ CopiesIn(<<>>, m) = {}
  BY EmptySeq DEF Thins, OneCopy, CopiesIn

LEMMA ThinsTwice ==
  ASSUME NEW s, NEW t, NEW u, NEW m, Thins(t, s, m), Thins(u, t, m)
  PROVE  Thins(u, s, m)
  BY DEF Thins
-----------------------------------------------------------------------------
(* Messages and links.                                                     *)

LEMMA SpecialIsMessage ==
  ASSUME NEW k \in Kinds, NEW s \in Routers \cup Endpoints
  PROVE  Special(k, s) \in Messages /\ (k # "data" => Special(k, s).kind # "data")
  BY RoutingAssumption DEF Special, Messages

LEMMA HopIsMessage ==
  ASSUME NEW x \in Messages, x.hops < MaxHops
  PROVE  /\ WithHop(x) \in Messages
         /\ WithHop(x).kind = x.kind /\ WithHop(x).id = x.id /\ WithHop(x).dst = x.dst
  BY RoutingAssumption DEF WithHop, Messages

(* The links between a router and its parent.                              *)
LEMMA ParentLinks ==
  ASSUME NEW r \in Routers, Parent[r] # None
  PROVE  /\ <<r, Parent[r]>> \in Links /\ <<Parent[r], r>> \in Links
         /\ Parent[r] \in Routers /\ r \in Children(Parent[r])
         /\ IsUp(<<r, Parent[r]>>) /\ ~IsUp(<<Parent[r], r>>)
         /\ <<r, Parent[r]>> # <<Parent[r], r>>
<1>1. /\ <<r, Parent[r]>> \in Links /\ <<Parent[r], r>> \in Links
      /\ Parent[r] \in Routers /\ r \in Children(Parent[r])
  BY RoutingAssumption DEF Links, Children
<1>2. r # Parent[r]
  BY <1>1, BelowChild
<1>3. IsUp(<<r, Parent[r]>>) /\ (IsUp(<<Parent[r], r>>) => Parent[r] \in Children(r))
  BY <1>1, NoneIsNoRouter DEF IsUp, Children
<1>4. Parent[r] \notin Children(r)
  <2>1. SUFFICES ASSUME Parent[r] \in Children(r) PROVE FALSE
    OBVIOUS
  <2>2. r \in Below(r)
    BY DEF Below
  <2>3. QED
    BY <1>1, <2>1, <2>2, BelowChild
<1>5. QED
  BY <1>1, <1>2, <1>3, <1>4

LEMMA ChanType ==
  ASSUME TypeOK, NEW l \in Links
  PROVE  chan[l] \in Seq(Messages) /\ DOMAIN chan = Links
  BY DEF TypeOK

(* A message is sent over one link.                                        *)
LEMMA SendFacts ==
  ASSUME TypeOK, NEW l \in Links, NEW x \in Messages, Send(l, x)
  PROVE  /\ chan' \in [Links -> Seq(Messages)]
         /\ chan'[l] = Append(chan[l], x) /\ \A k \in Links \ {l} : chan'[k] = chan[k]
         /\ \A m : ~(x.kind = "data" /\ x.id = m) => \A k \in Links : Thins(chan'[k], chan[k], m)
<1>1. Append(chan[l], x) \in Seq(Messages)
  BY ChanType, AppendProperties
<1>2. /\ chan' \in [Links -> Seq(Messages)]
      /\ chan'[l] = Append(chan[l], x) /\ \A k \in Links \ {l} : chan'[k] = chan[k]
  BY <1>1 DEF Send, TypeOK
<1>3. ASSUME NEW m, ~(x.kind = "data" /\ x.id = m), NEW k \in Links
      PROVE  Thins(chan'[k], chan[k], m)
  <2>1. CASE k = l
    BY <1>2, <1>3, <2>1, ChanType, AppendCopies
  <2>2. CASE k # l
    BY <1>2, <2>2, NoneThins
  <2>3. QED
    BY <2>1, <2>2
<1>4. QED
  BY <1>2, <1>3

-----------------------------------------------------------------------------
(* What a router does with the message that it fetches.                    *)

(* It comes from a node that is known, or from the parent; in is what it   *)
(* is not sent back to.                                                    *)
Fetched(l, x, in, out) ==
    /\ chan[l] # <<>> /\ x = Head(chan[l])
    /\ Forward(l[2], l, x, out)
    /\ out = {} \/ out = Route(l[2], in, x)
    /\ x.kind = "data" /\ l[1] # Parent[l[2]] => in = l[1]
    /\ x.kind = "data" /\ l[1] = Parent[l[2]] => in = (IF confirmed[l[2]] THEN l[2] ELSE None)
    /\ IF x.kind = "confirmId" /\ l[1] = Parent[l[2]]
       THEN confirmed' = [confirmed EXCEPT ![l[2]] = TRUE] ELSE confirmed' = confirmed
    /\ UNCHANGED <<at, linked, posted, calm, byes, budget>>

LEMMA FetchFacts ==
  ASSUME NEW l \in Links, Fetch(l)
  PROVE  \E in, out : Fetched(l, Head(chan[l]), in, out)
<1> DEFINE x == Head(chan[l])
           r == l[2]
<1>0. l = <<l[1], r>>
  BY LinkEnds
<1>1. CASE l[1] # Parent[r] /\ HandleNodeMessage(r, l[1])
  <2>1. CASE RouteData(r, l[1], l, x)
    BY <1>0, <1>1, <2>1 DEF HandleNodeMessage, RouteData, Fetched
  <2>2. CASE HandleStillAlive(r, l[1], l, x)
    BY <1>0, <1>1, <2>2 DEF HandleNodeMessage, HandleStillAlive, Fetched
  <2>3. CASE HandleAnnouncement(r, l[1], l, x)
    BY <1>0, <1>1, <2>3 DEF HandleNodeMessage, HandleAnnouncement, Fetched
  <2>4. CASE HandleMsgBlock(r, l[1], l, x)
    BY <1>0, <1>1, <2>4 DEF HandleNodeMessage, HandleMsgBlock, Fetched
  <2>5. CASE HandleByeBye(r, l[1], l, x)
    BY <1>0, <1>1, <2>5 DEF HandleNodeMessage, HandleByeBye, Fetched
  <2>6. QED
    BY <1>0, <1>1, <2>1, <2>2, <2>3, <2>4, <2>5 DEF HandleNodeMessage
<1>2. CASE l[1] = Parent[r] /\ HandleParentMessage(r)
  <2> DEFINE in == IF confirmed[r] THEN r ELSE None
  <2>1. CASE HandleConfirmId(r, l, x)
    BY <1>0, <1>2, <2>1 DEF HandleParentMessage, HandleConfirmId, Fetched
  <2>2. CASE HandleParentsBye(r, l, x)
    BY <1>0, <1>2, <2>2 DEF HandleParentMessage, HandleParentsBye, Fetched
  <2>3. CASE RouteData(r, in, l, x) /\ UNCHANGED confirmed
    BY <1>0, <1>2, <2>3 DEF HandleParentMessage, RouteData, Fetched
  <2>4. CASE HandleStillAlive(r, in, l, x) /\ UNCHANGED confirmed
    BY <1>0, <1>2, <2>4 DEF HandleParentMessage, HandleStillAlive, Fetched
  <2>5. CASE HandleAnnouncement(r, in, l, x) /\ UNCHANGED confirmed
    BY <1>0, <1>2, <2>5 DEF HandleParentMessage, HandleAnnouncement, Fetched
  <2>6. QED
    BY <1>0, <1>2, <2>1, <2>2, <2>3, <2>4, <2>5 DEF HandleParentMessage
<1>3. QED
  BY <1>1, <1>2 DEF Fetch

(* What becomes of the queues.                                             *)
LEMMA ForwardFacts ==
  ASSUME TypeOK, NEW l \in Links, NEW x, NEW in, NEW out, Fetched(l, x, in, out)
  PROVE  /\ x \in Messages /\ chan' \in [Links -> Seq(Messages)]
         /\ \A k \in Links :
               LET rest == IF k = l THEN Tail(chan[k]) ELSE chan[k]
               IN  IF k \in OutLinks(l[2], out)
                   THEN /\ chan'[k] = Append(rest, WithHop(x)) /\ WithHop(x) \in Messages
                        /\ WithHop(x).kind = x.kind /\ WithHop(x).id = x.id
                        /\ WithHop(x).dst = x.dst
                   ELSE chan'[k] = rest
<1>1. chan[l] # <<>> /\ chan[l] \in Seq(Messages) /\ x = Head(chan[l])
  BY ChanType DEF Fetched
<1>2. x \in Messages
  BY <1>1
<1>3. ASSUME NEW k \in Links, k \in OutLinks(l[2], out)
      PROVE  /\ WithHop(x) \in Messages
             /\ WithHop(x).kind = x.kind /\ WithHop(x).id = x.id /\ WithHop(x).dst = x.dst
  <2>1. out = Route(l[2], in, x) /\ Route(l[2], in, x) # {}
    BY <1>3 DEF OutLinks, Fetched
  <2>2. x.hops < MaxHops
    BY <1>2, <2>1, RoutingAssumption DEF Route, Messages
  <2>3. QED
    BY <1>2, <2>2, HopIsMessage
<1> DEFINE rest(k) == IF k = l THEN Tail(chan[k]) ELSE chan[k]
<1>4. \A k \in Links : rest(k) \in Seq(Messages)
  BY <1>1, ChanType
<1>5. chan' = [k \in Links |-> IF k \in OutLinks(l[2], out) THEN Append(rest(k), WithHop(x))
                               ELSE rest(k)]
  BY DEF Fetched, Forward
<1> HIDE DEF rest
<1>6. \A k \in Links : k \in OutLinks(l[2], out) => Append(rest(k), WithHop(x)) \in Seq(Messages)
  BY <1>3, <1>4, AppendProperties
<1>7. chan' \in [Links -> Seq(Messages)]
  BY <1>4, <1>5, <1>6
<1>8. QED
  BY <1>2, <1>3, <1>5, <1>7 DEF rest
-----------------------------------------------------------------------------
(* The queues under the steps that are not Fetch or Post: none of them     *)
(* adds a copy of a data message.                                          *)

QueuesThin ==
    /\ chan' \in [Links -> Seq(Messages)]
    /\ \A m \in Data, l \in Links : Thins(chan'[l], chan[l], m)

LEMMA UnchangedThin == TypeOK /\ UNCHANGED chan => QueuesThin
  BY NoneThins DEF TypeOK, QueuesThin

LEMMA SpecialThins ==
  ASSUME TypeOK, NEW l \in Links, NEW k \in Kinds \ {"data"}, NEW s \in Routers \cup Endpoints,
         Send(l, Special(k, s))
  PROVE  QueuesThin
  BY SpecialIsMessage, SendFacts DEF QueuesThin

LEMMA VanishThins ==
  ASSUME TypeOK, LinksAreThere, NEW e \in Endpoints, Vanish(e)
  PROVE  QueuesThin
<1> DEFINE l == <<e, at[e]>>
<1>1. PICK k \in 0 .. Len(chan[l]) : chan' = [chan EXCEPT ![l] = SubSeq(@, 1, k)]
  BY DEF Vanish
<1>2. l \in Links
  BY DEF Vanish, LinksAreThere
<1> HIDE DEF l
<1>3. SubSeq(chan[l], 1, k) \in Seq(Messages) /\ \A m : Thins(SubSeq(chan[l], 1, k), chan[l], m)
  BY <1>2, ChanType, PrefixThins
<1>4. QED
  BY <1>1, <1>2, <1>3, NoneThins DEF QueuesThin, TypeOK

LEMMA AttachThins ==
  ASSUME TypeOK, NEW e \in Endpoints, NEW r \in Routers, Attach(e, r)
  PROVE  QueuesThin
  BY NoneThins DEF Attach, QueuesThin, TypeOK

LEMMA RemoveThins ==
  ASSUME TypeOK, NEW r \in Routers, RemoveDisconnected(r)
  PROVE  QueuesThin
  BY NoneThins DEF RemoveDisconnected, QueuesThin, TypeOK

(* What LoseParent does to the two queues between r and its parent.        *)
LEMMA LoseParentFacts ==
  ASSUME TypeOK, LinksAreThere, NEW r \in Routers, LoseParent(r)
  PROVE  /\ QueuesThin
         /\ chan'[<<Parent[r], r>>] = <<>>
         /\ \A l \in Links \ {<<Parent[r], r>>, <<r, Parent[r]>>} : chan'[l] = chan[l]
<1> DEFINE up == <<r, Parent[r]>>
           down == <<Parent[r], r>>
<1>1. up \in Links /\ down \in Links /\ up # down
  BY ParentLinks DEF LoseParent, LinksAreThere
<1>2. PICK k \in 1 .. Len(chan[up]) + 1 :
         chan' = [chan EXCEPT ![down] = <<>>, ![up] = SubSeq(@, k, Len(@))]
  BY DEF LoseParent
<1> HIDE DEF up, down
<1> DEFINE t == SubSeq(chan[up], k, Len(chan[up]))
<1>3. t \in Seq(Messages) /\ \A m : Thins(t, chan[up], m)
  BY <1>1, ChanType, SuffixThins
<1>4. chan' = [chan EXCEPT ![down] = <<>>, ![up] = t]
  BY <1>1, <1>2
<1> HIDE DEF t
<1>5. /\ chan' \in [Links -> Seq(Messages)] /\ chan'[down] = <<>> /\ chan'[up] = t
      /\ \A l \in Links \ {down, up} : chan'[l] = chan[l]
  BY <1>1, <1>3, <1>4, NoneThins DEF TypeOK
<1>6. QED
  BY <1>1, <1>3, <1>5, NoneThins DEF QueuesThin, up, down

(* And AdoptRouter.                                                        *)
LEMMA AdoptRouterFacts ==
  ASSUME TypeOK, NEW r \in Routers, AdoptRouter(r)
  PROVE  /\ Parent[r] # None /\ QueuesThin
         /\ chan'[<<Parent[r], r>>] = Append(chan[<<Parent[r], r>>], Special("confirmId", Parent[r]))
         /\ \A l \in Links \ {<<Parent[r], r>>, <<r, Parent[r]>>} : chan'[l] = chan[l]
<1> DEFINE up == <<r, Parent[r]>>
           down == <<Parent[r], r>>
           x == Special("confirmId", Parent[r])
<1>1. up \in Links /\ down \in Links /\ up # down /\ Parent[r] \in Routers /\ Parent[r] # None
  BY ParentLinks DEF AdoptRouter
<1>2. x \in Messages /\ x.kind # "data"
  BY <1>1, SpecialIsMessage DEF Kinds
<1>3. PICK i \in 1 .. Len(chan[up]) :
         chan' = [chan EXCEPT ![up] = SubSeq(@, 1, i - 1) \o SubSeq(@, i + 1, Len(@)),
                              ![down] = Append(@, x)]
  BY DEF AdoptRouter
<1> HIDE DEF up, down, x
<1> DEFINE t == SubSeq(chan[up], 1, i - 1) \o SubSeq(chan[up], i + 1, Len(chan[up]))
           d == Append(chan[down], x)
<1>4. t \in Seq(Messages) /\ \A m : Thins(t, chan[up], m)
  BY <1>1, ChanType, RemovedThins
<1>5. d \in Seq(Messages) /\ \A m : Thins(d, chan[down], m)
  BY <1>1, <1>2, ChanType, AppendCopies
<1>6. chan' = [chan EXCEPT ![up] = t, ![down] = d]
  BY <1>1, <1>3
<1> HIDE DEF t, d
<1>7. /\ chan' \in [Links -> Seq(Messages)] /\ chan'[down] = d /\ chan'[up] = t
      /\ \A l \in Links \ {down, up} : chan'[l] = chan[l]
  BY <1>1, <1>4, <1>5, <1>6 DEF TypeOK
<1>8. QED
  BY <1>1, <1>4, <1>5, <1>7, NoneThins DEF QueuesThin, up, down, d, x

-----------------------------------------------------------------------------
(* Type correctness.                                                       *)

LEMMA OneMore ==
  ASSUME NEW f \in [Data -> Nat], NEW i
  PROVE  [f EXCEPT ![i] = @ + 1] \in [Data -> Nat]
<1>1. CASE i \in Data
  <2>1. f[i] + 1 \in Nat
    BY <1>1
  <2>2. QED
    BY <1>1, <2>1
<1>2. CASE i \notin Data
  <2>1. [f EXCEPT ![i] = @ + 1] = f
    BY <1>2
  <2>2. QED
    BY <2>1
<1>3. QED
  BY <1>1, <1>2

LEMMA FetchTypeOK ==
  ASSUME TypeOK, NEW l \in Links, Fetch(l)
  PROVE  TypeOK'
<1> DEFINE x == Head(chan[l])
           r == l[2]
<1>1. PICK in, out : Fetched(l, x, in, out)
  BY FetchFacts
<1>2. x \in Messages /\ chan' \in [Links -> Seq(Messages)]
  BY <1>1, ForwardFacts
<1>3. r \in Routers /\ l[1] \in Routers \cup Endpoints
  BY LinkEnds
<1>4. got' \in [Endpoints -> [Data -> Nat]]
  <2>1. ASSUME NEW e \in Endpoints PROVE [got[e] EXCEPT ![x.id] = @ + 1] \in [Data -> Nat]
    <3>1. got[e] \in [Data -> Nat]
      BY DEF TypeOK
    <3>2. QED
      BY <3>1, OneMore
  <2>2. QED
    BY <1>1, <2>1 DEF Fetched, Forward, TypeOK
<1>5. /\ UNCHANGED <<at, linked, posted, calm, byes>>
      /\ confirmed' \in [Routers -> BOOLEAN]
  BY <1>1, <1>3 DEF Fetched, TypeOK
<1>6. /\ idx' \in [Routers -> [Endpoints -> Routers \cup Endpoints \cup {None}]]
      /\ leaving' \in [Routers -> SUBSET Endpoints]
      /\ blocking' \in [Routers -> SUBSET (Routers \cup Endpoints)]
      /\ UNCHANGED <<nodes, recent>>
  <2>1. ASSUME NEW n \in Routers \cup Endpoints \cup {None}, Update(r, x.src, n)
        PROVE  idx' \in [Routers -> [Endpoints -> Routers \cup Endpoints \cup {None}]]
    BY <2>1 DEF Update, TypeOK
  <2>2. CASE HandleNodeMessage(r, l[1])
    <3>1. l = <<l[1], r>>
      BY LinkEnds
    <3>2. CASE RouteData(r, l[1], l, x) \/ HandleAnnouncement(r, l[1], l, x)
      BY <3>2 DEF RouteData, HandleAnnouncement, tableVars, TypeOK
    <3>3. CASE HandleStillAlive(r, l[1], l, x)
      BY <1>3, <2>1, <3>3 DEF HandleStillAlive, tableVars, TypeOK
    <3>4. CASE HandleMsgBlock(r, l[1], l, x)
      BY <1>3, <2>1, <3>4 DEF HandleMsgBlock, TypeOK
    <3>5. CASE HandleByeBye(r, l[1], l, x)
      BY <1>3, <2>1, <3>5 DEF HandleByeBye, TypeOK
    <3>6. QED
      BY <2>2, <3>1, <3>2, <3>3, <3>4, <3>5 DEF HandleNodeMessage
  <2>3. CASE l[1] = Parent[r] /\ HandleParentMessage(r)
    <3> DEFINE n == IF confirmed[r] THEN r ELSE None
    <3>1. l = <<Parent[r], r>>
      BY <2>3, LinkEnds
    <3>2. CASE HandleConfirmId(r, l, x) \/ HandleParentsBye(r, l, x) \/ RouteData(r, n, l, x)
               \/ HandleAnnouncement(r, n, l, x)
      BY <3>2 DEF HandleConfirmId, HandleParentsBye, RouteData, HandleAnnouncement, tableVars, TypeOK
    <3>3. CASE HandleStillAlive(r, n, l, x)
      BY <1>3, <2>1, <3>3 DEF HandleStillAlive, tableVars, TypeOK
    <3>4. QED
      BY <2>3, <3>1, <3>2, <3>3 DEF HandleParentMessage
  <2>4. QED
    BY <2>2, <2>3 DEF Fetch
<1>7. QED
  BY <1>2, <1>4, <1>5, <1>6 DEF TypeOK

LEMMA EndpointTypeOK ==
  ASSUME TypeOK, LinksAreThere, NEW e \in Endpoints, EndpointStep(e)
  PROVE  TypeOK'
<1>1. ASSUME NEW m \in Data, Post(e, m) PROVE TypeOK'
  <2>1. [kind |-> "data", id |-> m, src |-> e, dst |-> Dst[m], hops |-> 0] \in Messages
    BY RoutingAssumption DEF Messages, Kinds
  <2>2. <<e, at[e]>> \in Links
    BY <1>1 DEF Post, LinksAreThere
  <2>3. chan' \in [Links -> Seq(Messages)]
    BY <1>1, <2>1, <2>2, SendFacts DEF Post
  <2>4. QED
    BY <1>1, <2>3 DEF Post, tableVars, TypeOK
<1>2. CASE StillAlive(e)
  <2>1. QueuesThin
    BY <1>2, SpecialThins DEF StillAlive, LinksAreThere, Kinds
  <2>2. QED
    BY <1>2, <2>1 DEF StillAlive, tableVars, QueuesThin, TypeOK
<1>3. CASE Block(e)
  <2>1. QueuesThin
    BY <1>3, SpecialThins DEF Block, LinksAreThere, Kinds
  <2>2. QED
    BY <1>3, <2>1 DEF Block, tableVars, QueuesThin, TypeOK
<1>4. CASE SayBye(e)
  <2>1. QueuesThin
    BY <1>4, SpecialThins DEF SayBye, LinksAreThere, Kinds
  <2>2. QED
    BY <1>4, <2>1 DEF SayBye, tableVars, QueuesThin, TypeOK
<1>5. CASE Vanish(e)
  BY <1>5, VanishThins DEF Vanish, tableVars, QueuesThin, TypeOK
<1>6. ASSUME NEW r \in Routers, Attach(e, r) PROVE TypeOK'
  BY <1>6, AttachThins DEF Attach, QueuesThin, TypeOK
<1>7. QED
  BY <1>1, <1>2, <1>3, <1>4, <1>5, <1>6 DEF EndpointStep

LEMMA AnnounceThins ==
  ASSUME TypeOK, NEW r \in Routers, AnnounceId(r)
  PROVE  QueuesThin
  BY ParentLinks, SpecialThins DEF AnnounceId, Kinds

LEMMA RouterTypeOK ==
  ASSUME TypeOK, LinksAreThere, NEW r \in Routers, RouterStep(r)
  PROVE  TypeOK'
<1>1. CASE RemoveDisconnected(r)
  BY <1>1, RemoveThins DEF RemoveDisconnected, QueuesThin, TypeOK
<1>2. CASE RecentExpires(r)
  BY <1>2 DEF RecentExpires, TypeOK
<1>3. CASE LoseParent(r)
  BY <1>3, LoseParentFacts DEF LoseParent, tableVars, QueuesThin, TypeOK
<1>4. CASE AnnounceId(r)
  BY <1>4, AnnounceThins DEF AnnounceId, tableVars, QueuesThin, TypeOK
<1>5. CASE AdoptRouter(r)
  BY <1>5, AdoptRouterFacts DEF AdoptRouter, tableVars, QueuesThin, TypeOK
<1>6. QED
  BY <1>1, <1>2, <1>3, <1>4, <1>5 DEF RouterStep

LEMMA TypeOKStep == TypeOK /\ LinksAreThere /\ [Next]_vars => TypeOK'
<1> SUFFICES ASSUME TypeOK, LinksAreThere, [Next]_vars PROVE TypeOK'
  OBVIOUS
<1>1. CASE UNCHANGED vars
  BY <1>1 DEF vars, tableVars, TypeOK
<1>2. QED
  BY <1>1, FetchTypeOK, EndpointTypeOK, RouterTypeOK DEF Next

LEMMA LinksAreThereStep == TypeOK /\ LinksAreThere /\ [Next]_vars => LinksAreThere'
<1> SUFFICES ASSUME TypeOK, LinksAreThere, [Next]_vars PROVE LinksAreThere'
  OBVIOUS
<1>1. ASSUME NEW l \in Links, Fetch(l) PROVE LinksAreThere'
  BY <1>1, FetchFacts DEF Fetched, LinksAreThere
<1>2. ASSUME NEW e \in Endpoints, EndpointStep(e) PROVE LinksAreThere'
  <2>1. ASSUME NEW r \in Routers, Attach(e, r) PROVE LinksAreThere'
    <3>1. <<e, r>> \in Links
      BY <2>1 DEF Attach, Links
    <3>2. QED
      BY <2>1, <3>1 DEF Attach, LinksAreThere, TypeOK
  <2>2. QED
    BY <1>2, <2>1 DEF EndpointStep, Post, StillAlive, Block, SayBye, Vanish, LinksAreThere, TypeOK
<1>3. ASSUME NEW r \in Routers, RouterStep(r) PROVE LinksAreThere'
  BY <1>3 DEF RouterStep, RemoveDisconnected, RecentExpires, LoseParent, AnnounceId, AdoptRouter,
              LinksAreThere, TypeOK
<1>4. CASE UNCHANGED vars
  BY <1>4 DEF vars, LinksAreThere
<1>5. QED
  BY <1>1, <1>2, <1>3, <1>4 DEF Next
-----------------------------------------------------------------------------
(* The confirmation comes first.                                           *)

FirstIsConfirmation(r) ==
    Parent[r] # None /\ ~confirmed[r] =>
        LET down == chan[<<Parent[r], r>>]
        IN  IF linked[r] THEN down # <<>> /\ Head(down).kind = "confirmId" ELSE down = <<>>

(* Where the queue to r and what r knows of its parent stay, or messages   *)
(* are appended to a queue that is not empty, the confirmation stays first.*)
LEMMA ConfirmationKept ==
  ASSUME TypeOK, ConfirmationFirst, NEW r \in Routers, Parent[r] # None,
         confirmed'[r] = confirmed[r], linked'[r] = linked[r],
         chan'[<<Parent[r], r>>] = chan[<<Parent[r], r>>]
  PROVE  FirstIsConfirmation(r)'
  BY DEF ConfirmationFirst, FirstIsConfirmation

(* What is appended to a queue does not come first.                        *)
LEMMA AppendKeepsHead ==
  ASSUME NEW q \in Seq(Messages), q # <<>>, NEW x \in Messages
  PROVE  Append(q, x) # <<>> /\ Head(Append(q, x)) = Head(q)
<1>1. Len(q) > 0
  BY EmptySeq
<1>2. Append(q, x) \in Seq(Messages) /\ Len(Append(q, x)) = Len(q) + 1
      /\ Append(q, x)[1] = q[1]
  BY <1>1, AppendProperties
<1>3. QED
  BY <1>1, <1>2

LEMMA FetchConfirmation ==
  ASSUME TypeOK, ConfirmationFirst, NEW l \in Links, Fetch(l), NEW r \in Routers
  PROVE  FirstIsConfirmation(r)'
<1> DEFINE x == Head(chan[l])
           down == <<Parent[r], r>>
<1> SUFFICES ASSUME Parent[r] # None, ~confirmed'[r] PROVE FirstIsConfirmation(r)'
  BY DEF FirstIsConfirmation
<1>1. PICK in, out : Fetched(l, x, in, out)
  BY FetchFacts
<1>2. /\ ~confirmed[r] /\ linked'[r] = linked[r]
      /\ ~(x.kind = "confirmId" /\ l[1] = Parent[l[2]] /\ l[2] = r)
  <2>1. IF x.kind = "confirmId" /\ l[1] = Parent[l[2]]
        THEN confirmed' = [confirmed EXCEPT ![l[2]] = TRUE] ELSE confirmed' = confirmed
    BY <1>1 DEF Fetched
  <2>2. confirmed \in [Routers -> BOOLEAN]
    BY DEF TypeOK
  <2>3. QED
    BY <1>1, <2>1, <2>2 DEF Fetched
<1>3. down \in Links /\ ~IsUp(down) /\ Parent[r] \in Routers /\ r \in Children(Parent[r])
  BY ParentLinks
<1>4. chan[down] \in Seq(Messages) /\ chan[l] # <<>>
  BY <1>1, <1>3, ChanType DEF Fetched
<1>5. down # l
  BY <1>2, <1>4 DEF ConfirmationFirst
<1>6. \/ chan'[down] = chan[down]
      \/ linked[r] /\ WithHop(x) \in Messages /\ chan'[down] = Append(chan[down], WithHop(x))
  <2>1. CASE down \notin OutLinks(l[2], out)
    BY <1>1, <1>3, <1>5, <2>1, ForwardFacts
  <2>2. CASE down \in OutLinks(l[2], out)
    <3>1. linked[r]
      BY <1>3, <2>2, ParentLinks, LinkEnds DEF OutLinks, IsUp
    <3>2. QED
      BY <1>1, <1>3, <1>5, <2>2, <3>1, ForwardFacts
  <2>3. QED
    BY <2>1, <2>2
<1>7. CASE chan'[down] = chan[down]
  BY <1>2, <1>7 DEF ConfirmationFirst, FirstIsConfirmation
<1>8. CASE linked[r] /\ WithHop(x) \in Messages /\ chan'[down] = Append(chan[down], WithHop(x))
  <2>1. chan[down] # <<>> /\ Head(chan[down]).kind = "confirmId"
    BY <1>2, <1>8 DEF ConfirmationFirst
  <2>2. chan'[down] # <<>> /\ Head(chan'[down]) = Head(chan[down])
    BY <1>4, <1>8, <2>1, AppendKeepsHead
  <2>3. QED
    BY <1>2, <1>8, <2>1, <2>2 DEF FirstIsConfirmation
<1>9. QED
  BY <1>6, <1>7, <1>8

LEMMA EndpointConfirmation ==
  ASSUME TypeOK, LinksAreThere, ConfirmationFirst, NEW e \in Endpoints, EndpointStep(e),
         NEW r \in Routers
  PROVE  FirstIsConfirmation(r)'
<1> SUFFICES ASSUME Parent[r] # None PROVE FirstIsConfirmation(r)'
  BY DEF FirstIsConfirmation
<1> DEFINE down == <<Parent[r], r>>
<1>1. down \in Links /\ \A z : <<e, z>> # down
  BY ParentLinks, NoneIsNoRouter
<1> HIDE DEF down
<1>2. confirmed' = confirmed /\ linked' = linked
  BY DEF EndpointStep, Post, StillAlive, Block, SayBye, Vanish, Attach
<1>3. chan \in [Links -> Seq(Messages)]
  BY DEF TypeOK
<1>4. chan'[down] = chan[down]
  <2>1. ASSUME NEW k, NEW q, k # down, chan' = [chan EXCEPT ![k] = q]
        PROVE  chan'[down] = chan[down]
    BY <1>1, <1>3, <2>1
  <2>2. <<e, at[e]>> # down
    BY <1>1
  <2>3. CASE \E m \in Data : Post(e, m)
    BY <2>1, <2>2, <2>3 DEF Post, Send
  <2>4. CASE StillAlive(e) \/ Block(e) \/ SayBye(e)
    BY <2>1, <2>2, <2>4 DEF StillAlive, Block, SayBye, Send
  <2>5. CASE Vanish(e)
    BY <2>1, <2>2, <2>5 DEF Vanish
  <2>6. CASE \E c \in Routers : Attach(e, c)
    BY <1>1, <2>1, <2>6 DEF Attach
  <2>7. QED
    BY <2>3, <2>4, <2>5, <2>6 DEF EndpointStep
<1>5. QED
  BY <1>2, <1>4, ConfirmationKept DEF down

LEMMA RouterConfirmation ==
  ASSUME TypeOK, LinksAreThere, ConfirmationFirst, NEW c \in Routers, RouterStep(c),
         NEW r \in Routers
  PROVE  FirstIsConfirmation(r)'
<1> SUFFICES ASSUME Parent[r] # None PROVE FirstIsConfirmation(r)'
  BY DEF FirstIsConfirmation
<1> DEFINE down == <<Parent[r], r>>
<1>1. /\ down \in Links /\ Parent[r] \in Routers
      /\ Parent[c] # None => down # <<c, Parent[c]>> /\ (r # c => down # <<Parent[c], c>>)
  <2>1. down \in Links /\ Parent[r] \in Routers /\ ~IsUp(down)
    BY ParentLinks
  <2>2. Parent[c] # None => down # <<c, Parent[c]>>
    BY <2>1, ParentLinks
  <2>3. QED
    BY <2>1, <2>2
<1>2. CASE RemoveDisconnected(c)
  <2>1. chan'[down] = chan[down]
    BY <1>1, <1>2, NoneIsNoRouter DEF RemoveDisconnected, TypeOK
  <2>2. QED
    BY <1>2, <2>1, ConfirmationKept DEF RemoveDisconnected
<1>3. CASE RecentExpires(c)
  BY <1>3, ConfirmationKept DEF RecentExpires
<1>4. CASE LoseParent(c)
  <2>1. CASE r = c
    BY <1>4, <2>1, LoseParentFacts DEF LoseParent, FirstIsConfirmation, TypeOK
  <2>2. CASE r # c
    <3>1. Parent[c] # None
      BY <1>4 DEF LoseParent, LinksAreThere
    <3>2. chan'[down] = chan[down]
      BY <1>1, <1>4, <2>2, <3>1, LoseParentFacts
    <3>3. QED
      BY <1>4, <2>2, <3>2, ConfirmationKept DEF LoseParent, TypeOK
  <2>3. QED
    BY <2>1, <2>2
<1>5. CASE AnnounceId(c)
  <2>1. chan'[down] = chan[down]
    BY <1>1, <1>5 DEF AnnounceId, Send, TypeOK
  <2>2. QED
    BY <1>5, <2>1, ConfirmationKept DEF AnnounceId
<1>6. CASE AdoptRouter(c)
  <2>1. Parent[c] # None
    BY <1>6 DEF AdoptRouter
  <2>2. CASE r = c /\ ~confirmed[r]
    <3>1. chan[down] = <<>>
      BY <1>6, <2>2 DEF AdoptRouter, ConfirmationFirst
    <3>2. chan'[down] = Append(<<>>, Special("confirmId", Parent[r]))
      BY <1>6, <2>2, <3>1, AdoptRouterFacts
    <3>3. chan'[down] # <<>> /\ Head(chan'[down]).kind = "confirmId"
      BY <3>2 DEF Special
    <3>4. linked'[r]
      BY <1>6, <2>2 DEF AdoptRouter, TypeOK
    <3>5. QED
      BY <3>3, <3>4 DEF FirstIsConfirmation
  <2>3. CASE r = c /\ confirmed[r]
    BY <1>6, <2>3 DEF AdoptRouter, FirstIsConfirmation
  <2>4. CASE r # c
    <3>1. chan'[down] = chan[down]
      BY <1>1, <1>6, <2>1, <2>4, AdoptRouterFacts
    <3>2. QED
      BY <1>6, <2>4, <3>1, ConfirmationKept DEF AdoptRouter, TypeOK
  <2>5. QED
    BY <2>2, <2>3, <2>4
<1>7. QED
  BY <1>2, <1>3, <1>4, <1>5, <1>6 DEF RouterStep

LEMMA ConfirmationStep ==
  TypeOK /\ LinksAreThere /\ ConfirmationFirst /\ [Next]_vars => ConfirmationFirst'
<1> SUFFICES ASSUME TypeOK, LinksAreThere, ConfirmationFirst, [Next]_vars
             PROVE  \A r \in Routers : FirstIsConfirmation(r)'
  BY DEF ConfirmationFirst, FirstIsConfirmation
<1>1. CASE UNCHANGED vars
  BY <1>1 DEF vars, ConfirmationFirst, FirstIsConfirmation
<1>2. QED
  BY <1>1, FetchConfirmation, EndpointConfirmation, RouterConfirmation DEF Next
-----------------------------------------------------------------------------
(* A broadcast spreads.                                                    *)

(* A step that adds no copy of m and brings it to no endpoint.             *)
Quiet(m) ==
    /\ \A l \in Links : Thins(chan'[l], chan[l], m)
    /\ m \in posted' <=> m \in posted
    /\ \A e \in Endpoints :
        /\ got'[e][m] = got[e][m] \/ got'[e][m] = 0
        /\ at'[e] = at[e] \/ at'[e] = None \/ got'[e][m] = 0

LEMMA SpreadsFromFewer ==
  ASSUME NEW V, NEW L, NEW M \in SUBSET L, SpreadsFrom(V, L)
  PROVE  SpreadsFrom(V, M)
  BY DEF SpreadsFrom

LEMMA QuietKeeps ==
  ASSUME TypeOK, NEW m \in Data, NEW V \in SUBSET Routers, HadBy(V, m), Quiet(m)
  PROVE  HadBy(V, m)'
<1>1. Carriers(m)' \subseteq Carriers(m) /\ \A l \in Links : OneCopy(chan'[l], m)
  BY DEF Quiet, Thins, Carriers, HadBy
<1>2. SpreadsFrom(V, Carriers(m)')
  BY <1>1, SpreadsFromFewer DEF HadBy
<1>3. m \notin posted' => V = {} /\ Carriers(m)' = {} /\ \A e \in Endpoints : got'[e][m] = 0
  BY <1>1 DEF Quiet, HadBy
<1>4. ASSUME NEW e \in Endpoints
      PROVE  got'[e][m] <= 1 /\ (got'[e][m] > 0 /\ at'[e] # None => at'[e] \in V)
  <2>1. got[e][m] \in Nat
    BY DEF TypeOK
  <2>2. QED
    BY <2>1 DEF Quiet, HadBy
<1>5. SpreadsFrom(V, Carriers(m))'
  BY <1>2 DEF SpreadsFrom
<1>6. QED
  BY <1>1, <1>3, <1>4, <1>5 DEF HadBy

(* The message m is posted: its endpoint has one copy on its way.          *)
LEMMA PostSpreads ==
  ASSUME TypeOK, LinksAreThere, NEW e \in Endpoints, NEW m \in Data, Post(e, m),
         Dst[m] = All, NEW V \in SUBSET Routers, HadBy(V, m)
  PROVE  HadBy({}, m)'
<1> DEFINE l == <<e, at[e]>>
           x == [kind |-> "data", id |-> m, src |-> e, dst |-> Dst[m], hops |-> 0]
<1>1. l \in Links /\ x \in Messages /\ x.dst = All
  BY RoutingAssumption DEF Post, LinksAreThere, Messages, Kinds
<1>2. /\ chan'[l] = Append(chan[l], x) /\ \A k \in Links \ {l} : chan'[k] = chan[k]
      /\ chan[l] \in Seq(Messages)
  BY <1>1, SendFacts, ChanType DEF Post
<1>3. \A k \in Links : CopiesIn(chan[k], m) = {} /\ OneCopy(chan[k], m)
  BY DEF Post, HadBy, Carriers
<1>4. \A k \in Links : OneCopy(chan'[k], m)
  BY <1>1, <1>2, <1>3, AppendCopies
<1>5. Carriers(m)' \subseteq {l}
  BY <1>2, <1>3 DEF Carriers
<1>6. SpreadsFrom({}, Carriers(m))'
  BY <1>5, NoneIsNoRouter DEF SpreadsFrom, IsUp
<1>7. m \in posted' /\ \A f \in Endpoints : got'[f][m] = 0
  BY DEF Post, HadBy
<1>8. QED
  BY <1>4, <1>6, <1>7 DEF HadBy

LEMMA EndpointSpreads ==
  ASSUME TypeOK, LinksAreThere, NEW e \in Endpoints, EndpointStep(e),
         NEW m \in Data, Dst[m] = All, NEW V \in SUBSET Routers, HadBy(V, m)
  PROVE  \E W \in SUBSET Routers : HadBy(W, m)'
<1>1. ASSUME Quiet(m) PROVE \E W \in SUBSET Routers : HadBy(W, m)'
  BY <1>1, QuietKeeps
<1>2. CASE Post(e, m)
  BY <1>2, PostSpreads
<1>3. ASSUME NEW n \in Data, n # m, Post(e, n) PROVE Quiet(m)
  <2> DEFINE x == [kind |-> "data", id |-> n, src |-> e, dst |-> Dst[n], hops |-> 0]
  <2>1. <<e, at[e]>> \in Links /\ x \in Messages
    BY <1>3, RoutingAssumption DEF Post, LinksAreThere, Messages, Kinds
  <2>2. \A l \in Links : Thins(chan'[l], chan[l], m)
    BY <1>3, <2>1, SendFacts DEF Post
  <2>3. QED
    BY <1>3, <2>2 DEF Post, Quiet
<1>4. CASE StillAlive(e)
  <2>1. QueuesThin
    BY <1>4, SpecialThins DEF StillAlive, LinksAreThere, Kinds
  <2>2. QED
    BY <1>1, <1>4, <2>1 DEF StillAlive, QueuesThin, Quiet
<1>5. CASE Block(e)
  <2>1. QueuesThin
    BY <1>5, SpecialThins DEF Block, LinksAreThere, Kinds
  <2>2. QED
    BY <1>1, <1>5, <2>1 DEF Block, QueuesThin, Quiet
<1>6. CASE SayBye(e)
  <2>1. QueuesThin
    BY <1>6, SpecialThins DEF SayBye, LinksAreThere, Kinds
  <2>2. QED
    BY <1>1, <1>6, <2>1 DEF SayBye, QueuesThin, Quiet, TypeOK
<1>7. CASE Vanish(e)
  <2>1. QueuesThin
    BY <1>7, VanishThins
  <2>2. QED
    BY <1>1, <1>7, <2>1 DEF Vanish, QueuesThin, Quiet, TypeOK
<1>8. ASSUME NEW r \in Routers, Attach(e, r) PROVE Quiet(m)
  <2>1. QueuesThin
    BY <1>8, AttachThins
  <2>2. got' = [got EXCEPT ![e] = [d \in Data |-> 0]] /\ at' = [at EXCEPT ![e] = r]
        /\ posted' = posted
    BY <1>8 DEF Attach
  <2>3. \A f \in Endpoints : IF f = e THEN got'[f][m] = 0 ELSE got'[f] = got[f] /\ at'[f] = at[f]
    BY <2>2 DEF TypeOK
  <2>4. QED
    BY <2>1, <2>2, <2>3 DEF QueuesThin, Quiet
<1>9. QED
  BY <1>1, <1>2, <1>3, <1>4, <1>5, <1>6, <1>7, <1>8 DEF EndpointStep

LEMMA RouterSpreads ==
  ASSUME TypeOK, LinksAreThere, NEW r \in Routers, RouterStep(r),
         NEW m \in Data, NEW V \in SUBSET Routers, HadBy(V, m)
  PROVE  HadBy(V, m)'
<1>1. QueuesThin
  BY RemoveThins, UnchangedThin, LoseParentFacts, AnnounceThins, AdoptRouterFacts
     DEF RouterStep, RecentExpires
<1>2. UNCHANGED <<posted, got>> /\ \A e \in Endpoints : at'[e] = at[e] \/ at'[e] = None
  BY DEF RouterStep, RemoveDisconnected, RecentExpires, LoseParent, AnnounceId, AdoptRouter
<1>3. Quiet(m)
  BY <1>1, <1>2 DEF QueuesThin, Quiet
<1>4. QED
  BY <1>3, QuietKeeps

(* A router sends what it gets over one link on to others.                 *)
LEMMA RouteIsOnward ==
  ASSUME TypeOK, ConfirmationFirst, NEW l \in Links, NEW x, NEW in, NEW out,
         Fetched(l, x, in, out), x.kind = "data", x.dst = All
  PROVE  OutLinks(l[2], out) \cap Links \subseteq Onward(l[2], l)
<1> DEFINE b == l[2]
<1>1. /\ b \in Routers /\ l = <<l[1], b>> /\ l[1] \in Routers \cup Endpoints
  BY LinkEnds
<1>2. out \subseteq (nodes[b] \ {in}) \cup ({b} \ {in})
  BY DEF Fetched, Route, BroadcastRoute
<1>3. ASSUME NEW n \in Children(b) \cap out PROVE n # l[1]
  <2>1. n \in Routers /\ n # b /\ n # in /\ Parent[n] = b
    BY <1>1, <1>2, BelowChild DEF Children
  <2>2. CASE l[1] = Parent[b]
    <3>1. Parent[b] # None
      BY <1>1, <2>2, NoneIsNoRouter
    <3>2. Parent[b] \in Routers /\ Parent[Parent[b]] # b
      BY <1>1, <3>1, ParentLinks DEF IsUp
    <3>3. QED
      BY <2>1, <2>2, <3>2
  <2>3. CASE l[1] # Parent[b]
    BY <2>1, <2>3 DEF Fetched
  <2>4. QED
    BY <2>2, <2>3
<1>4. ASSUME b \in out PROVE l[1] # Parent[b]
  <2>1. SUFFICES ASSUME l[1] = Parent[b] PROVE FALSE
    OBVIOUS
  <2>2. Parent[b] # None
    BY <1>1, <2>1, NoneIsNoRouter
  <2>3. confirmed[b]
    BY <1>1, <2>1, <2>2 DEF ConfirmationFirst, Fetched
  <2>4. in = b
    BY <2>1, <2>3 DEF Fetched
  <2>5. QED
    BY <1>2, <1>4, <2>4
<1>5. QED
  BY <1>3, <1>4 DEF OutLinks, Onward

(* The router l[2] fetches a copy of m.                                    *)
LEMMA CopySpreads ==
  ASSUME TypeOK, ConfirmationFirst, NEW l \in Links, NEW x, NEW in, NEW out,
         Fetched(l, x, in, out), NEW m \in Data, x.kind = "data", x.id = m,
         NEW V \in SUBSET Routers, HadBy(V, m)
  PROVE  HadBy(V \cup {l[2]}, m)'
<1> DEFINE b == l[2]
           L == Carriers(m)
           M == Carriers(m)'
<1>1. /\ chan[l] \in Seq(Messages) /\ chan[l] # <<>> /\ x = Head(chan[l])
  BY ChanType DEF Fetched
<1>2. 1 \in CopiesIn(chan[l], m) /\ chan[l][1] = x
  BY <1>1, EmptySeq DEF CopiesIn
<1>3. OneCopy(chan[l], m) /\ x.dst = All /\ CopiesIn(Tail(chan[l]), m) = {}
      /\ Tail(chan[l]) \in Seq(Messages)
  <2>1. OneCopy(chan[l], m)
    BY DEF HadBy
  <2>2. x.dst = All
    BY <1>2, <2>1 DEF OneCopy
  <2>3. QED
    BY <1>1, <1>2, <2>1, <2>2, TailThins
<1>4. L \in SUBSET Links /\ l \in L /\ SpreadsFrom(V, L)
  BY <1>2 DEF Carriers, HadBy
<1>5. b \in Routers \ V /\ (\A k \in L : k[1] # b) /\ l \notin Onward(b, l)
  BY <1>4, NotHadBefore
<1>6. OutLinks(b, out) \cap Links \subseteq Onward(b, l)
  BY <1>3, RouteIsOnward
<1>7. ASSUME NEW k \in Links
      PROVE  /\ OneCopy(chan'[k], m)
             /\ CopiesIn(chan'[k], m) # {} => k \in (L \ {l}) \cup Onward(b, l)
  <2>1. CASE k = l
    <3>1. chan'[k] = Tail(chan[l])
      BY <1>5, <1>6, <2>1, ForwardFacts
    <3>2. QED
      BY <1>3, <3>1 DEF OneCopy
  <2>2. CASE k # l /\ k \notin OutLinks(b, out)
    <3>1. chan'[k] = chan[k]
      BY <2>2, ForwardFacts
    <3>2. QED
      BY <2>2, <3>1 DEF HadBy, Carriers
  <2>3. CASE k # l /\ k \in OutLinks(b, out)
    <3>1. chan'[k] = Append(chan[k], WithHop(x)) /\ WithHop(x) \in Messages /\ WithHop(x).dst = x.dst
      BY <2>3, ForwardFacts
    <3>2. k \in Onward(b, l)
      BY <1>6, <2>3
    <3>3. CopiesIn(chan[k], m) = {}
      BY <1>5, <3>2 DEF Carriers, Onward
    <3>4. chan[k] \in Seq(Messages)
      BY ChanType
    <3>5. QED
      BY <1>3, <3>1, <3>2, <3>3, <3>4, AppendCopies
  <2>4. QED
    BY <2>1, <2>2, <2>3
<1>8. M \in SUBSET ((L \ {l}) \cup Onward(b, l))
  BY <1>7 DEF Carriers
<1>9. SpreadsFrom(V \cup {b}, M)
  BY <1>4, <1>8, SpreadsOn
<1>10. SpreadsFrom(V \cup {b}, Carriers(m))'
  BY <1>9 DEF SpreadsFrom
<1>11. m \in posted /\ posted' = posted /\ at' = at
  BY <1>4 DEF HadBy, Fetched
<1>12. ASSUME NEW e \in Endpoints
       PROVE  got'[e][m] <= 1 /\ (got'[e][m] > 0 /\ at'[e] # None => at'[e] \in V \cup {b})
  <2>1. got[e] \in [Data -> Nat] /\ got[e][m] \in Nat
    BY DEF TypeOK
  <2>2. got[e][m] <= 1 /\ (got[e][m] > 0 /\ at[e] # None => at[e] \in V)
    BY DEF HadBy
  <2>3. \/ got'[e] = got[e]
        \/ at[e] = b /\ got'[e] = [got[e] EXCEPT ![m] = @ + 1]
    BY DEF Fetched, Forward
  <2>4. CASE got'[e] = got[e]
    BY <1>11, <2>2, <2>4
  <2>5. CASE at[e] = b /\ got'[e] = [got[e] EXCEPT ![m] = @ + 1]
    <3>1. got[e][m] = 0
      BY <1>5, <2>1, <2>2, <2>5, NoneIsNoRouter
    <3>2. got'[e][m] = 1
      BY <2>1, <2>5, <3>1
    <3>3. QED
      BY <1>11, <2>5, <3>2
  <2>6. QED
    BY <2>3, <2>4, <2>5
<1>13. QED
  BY <1>7, <1>10, <1>11, <1>12 DEF HadBy

(* It fetches something else.                                              *)
LEMMA OtherIsQuiet ==
  ASSUME TypeOK, NEW l \in Links, NEW x, NEW in, NEW out,
         Fetched(l, x, in, out), NEW m \in Data, ~(x.kind = "data" /\ x.id = m)
  PROVE  Quiet(m)
<1>1. ASSUME NEW k \in Links PROVE Thins(chan'[k], chan[k], m)
  <2> DEFINE rest == IF k = l THEN Tail(chan[k]) ELSE chan[k]
  <2>1. chan[k] \in Seq(Messages) /\ (k = l => chan[k] # <<>>)
    BY ChanType DEF Fetched
  <2>2. rest \in Seq(Messages) /\ Thins(rest, chan[k], m)
    BY <2>1, TailThins, NoneThins
  <2>3. CASE k \in OutLinks(l[2], out)
    <3>1. chan'[k] = Append(rest, WithHop(x)) /\ WithHop(x) \in Messages
          /\ ~(WithHop(x).kind = "data" /\ WithHop(x).id = m)
      BY <2>3, ForwardFacts
    <3> HIDE DEF rest
    <3>2. Thins(chan'[k], rest, m)
      BY <2>2, <3>1, AppendCopies
    <3>3. QED
      BY <2>2, <3>2, ThinsTwice
  <2>4. CASE k \notin OutLinks(l[2], out)
    <3>1. chan'[k] = rest
      BY <2>4, ForwardFacts
    <3>2. QED
      BY <2>2, <3>1
  <2>5. QED
    BY <2>3, <2>4
<1>2. ASSUME NEW e \in Endpoints PROVE got'[e][m] = got[e][m]
  <2>1. got[e] \in [Data -> Nat]
    BY DEF TypeOK
  <2>2. \/ got'[e] = got[e]
        \/ x.id # m /\ got'[e] = [got[e] EXCEPT ![x.id] = @ + 1]
    BY DEF Fetched, Forward
  <2>3. QED
    BY <2>1, <2>2
<1>3. posted' = posted /\ at' = at
  BY DEF Fetched
<1>4. QED
  BY <1>1, <1>2, <1>3 DEF Quiet

LEMMA SpreadsStep ==
  TypeOK /\ LinksAreThere /\ ConfirmationFirst /\ BroadcastSpreads /\ [Next]_vars
      => BroadcastSpreads'
<1> SUFFICES ASSUME TypeOK, LinksAreThere, ConfirmationFirst, BroadcastSpreads, [Next]_vars,
                    NEW m \in Data, Dst[m] = All
             PROVE  \E W \in SUBSET Routers : HadBy(W, m)'
  BY DEF BroadcastSpreads
<1>1. PICK V \in SUBSET Routers : HadBy(V, m)
  BY DEF BroadcastSpreads
<1>2. ASSUME NEW l \in Links, Fetch(l) PROVE \E W \in SUBSET Routers : HadBy(W, m)'
  <2> DEFINE x == Head(chan[l])
  <2>1. PICK in, out : Fetched(l, x, in, out)
    BY <1>2, FetchFacts
  <2>2. CASE x.kind = "data" /\ x.id = m
    <3>1. HadBy(V \cup {l[2]}, m)' /\ l[2] \in Routers
      BY <1>1, <2>1, <2>2, CopySpreads, LinkEnds
    <3>2. QED
      BY <3>1
  <2>3. CASE ~(x.kind = "data" /\ x.id = m)
    BY <1>1, <2>1, <2>3, OtherIsQuiet, QuietKeeps
  <2>4. QED
    BY <2>2, <2>3
<1>3. CASE UNCHANGED vars
  <2>1. Quiet(m)
    BY <1>3, NoneThins DEF vars, Quiet
  <2>2. QED
    BY <1>1, <2>1, QuietKeeps
<1>4. QED
  BY <1>1, <1>2, <1>3, EndpointSpreads, RouterSpreads DEF Next

-----------------------------------------------------------------------------
(* The theorems.                                                           *)

LEMMA InitIInv == Init => IInv
<1> SUFFICES ASSUME Init PROVE IInv
  OBVIOUS
<1>1. \A l \in Links : chan[l] = <<>>
  BY DEF Init
<1>2. TypeOK
  <2>1. at \in [Endpoints -> Routers]
    BY RoutingAssumption DEF Init
  <2>2. chan \in [Links -> Seq(Messages)]
    BY EmptySeq DEF Init
  <2>3. nodes \in [Routers -> SUBSET (Routers \cup Endpoints)]
    BY DEF Init, Children
  <2>4. QED
    BY <2>1, <2>2, <2>3 DEF Init, TypeOK
<1>3. LinksAreThere
  <2>1. ASSUME NEW e \in Endpoints PROVE <<e, at[e]>> \in Links
    <3>1. <<e, at[e]>> \in {<<n, at[n]>> : n \in Endpoints} /\ at \in Homes
      BY DEF Init
    <3>2. QED
      BY <3>1 DEF Links
  <2>2. QED
    BY <2>1 DEF Init, LinksAreThere
<1>4. ConfirmationFirst
  BY DEF Init, ConfirmationFirst
<1>5. ASSUME NEW m \in Data PROVE HadBy({}, m)
  <2>1. \A l \in Links : CopiesIn(chan[l], m) = {} /\ OneCopy(chan[l], m)
    BY <1>1, NoneThins DEF OneCopy
  <2>2. Carriers(m) = {} /\ \A e \in Endpoints : got[e][m] = 0
    BY <2>1 DEF Carriers, Init
  <2>3. QED
    BY <2>1, <2>2 DEF HadBy, SpreadsFrom
<1>6. QED
  BY <1>2, <1>3, <1>4, <1>5 DEF IInv, BroadcastSpreads

LEMMA StepIInv == IInv /\ [Next]_vars => IInv'
  BY TypeOKStep, LinksAreThereStep, ConfirmationStep, SpreadsStep DEF IInv

(* The inductive invariant: the variables have their types, a router that  *)
(* is not confirmed gets the confirmation first (_handle_special_parent_   *)
(* message, confirm_id), and each broadcast spreads away from the routers  *)
(* that have had it (_route_broadcast_message).                            *)
THEOREM InvariantHolds == Spec => []IInv
  BY InitIInv, StepIInv, PTL DEF Spec

(* Nothing comes from the parent before the confirmation of the router's   *)
(* id (parent_router::update, router::_handle_parent_message): otherwise a *)
(* router would not know where a message came from, and send it back.      *)
THEOREM ConfirmationComesFirst == Spec => []ConfirmationFirst
  BY InvariantHolds, PTL DEF IInv

(* A broadcast reaches no endpoint twice over one connection, in every     *)
(* tree of routers and however endpoints move and parents are lost.        *)
THEOREM BroadcastsComeOnce == Spec => []BroadcastOnce
<1>1. IInv => BroadcastOnce
  BY DEF IInv, BroadcastSpreads, HadBy, BroadcastOnce
<1>2. QED
  BY <1>1, InvariantHolds, PTL
-----------------------------------------------------------------------------
(* The two sides of a link.                                                *)

LEMMA BelowFacts ==
  ASSUME NEW a \in Routers
  PROVE  /\ a \in Below(a) /\ Below(a) \subseteq Routers
         /\ \A x \in Below(a) : Below(x) \subseteq Below(a)
         /\ \A z \in Routers : \/ Below(a) \subseteq Below(z) \/ Below(z) \subseteq Below(a)
                               \/ Below(a) \cap Below(z) = {}
<1>1. a \in Below(a) /\ Below(a) \subseteq Routers
  BY DEF Below
<1>2. ASSUME NEW z \in Routers, NEW x \in Below(z) PROVE Below(x) \subseteq Below(z)
  BY <1>2, AboveOfAbove DEF Below
<1>3. ASSUME NEW z \in Routers, NEW x \in Below(a), x \in Below(z)
      PROVE  a \in Below(z) \/ z \in Below(a)
  <2>1. x \in Routers /\ a \in {x} \cup Above[x] /\ z \in {x} \cup Above[x]
    BY <1>3 DEF Below
  <2>2. QED
    BY <2>1, AboveIsAWay DEF Below
<1>4. QED
  BY <1>1, <1>2, <1>3

(* Every link between routers leads from a router to one of its hops.      *)
LEMMA HopFacts ==
  ASSUME NEW r \in Routers, NEW n \in Hops(r)
  PROVE  /\ Onto(r, n) \in RouterLinks /\ Onto(r, n)[1] = r
         /\ Ahead(Onto(r, n)) = IF n = r THEN Routers \ Below(r) ELSE Below(n)
         /\ n # r => n \in Children(r)
         /\ n \in Routers
<1>1. CASE n = r
  <2>1. Parent[r] # None
    BY <1>1, BelowChild DEF Hops
  <2>2. QED
    BY <1>1, <2>1, ParentLinks DEF Onto, RouterLinks, Ahead
<1>2. CASE n # r
  <2>1. n \in Routers /\ Parent[n] = r /\ Parent[n] # None /\ n \in Children(r)
    BY <1>2, NoneIsNoRouter DEF Hops, Children
  <2>2. QED
    BY <1>2, <2>1, ParentLinks DEF Onto, RouterLinks, Ahead
<1>3. QED
  BY <1>1, <1>2

LEMMA LinkIsHop ==
  ASSUME NEW l \in RouterLinks
  PROVE  \E n \in Hops(l[1]) : l = Onto(l[1], n)
<1>1. l \in Links /\ l[1] \in Routers /\ l = <<l[1], l[2]>>
  BY LinkEnds DEF RouterLinks
<1>2. CASE IsUp(l)
  <2>1. Parent[l[1]] = l[2] /\ l[2] # None
    BY <1>1, <1>2, LinkEnds, NoneIsNoRouter DEF IsUp
  <2>2. l[1] \in Hops(l[1]) /\ l = Onto(l[1], l[1])
    BY <1>1, <2>1 DEF Hops, Onto
  <2>3. QED
    BY <2>2
<1>3. CASE ~IsUp(l)
  <2>1. l[2] \in Children(l[1])
    BY <1>1, <1>3, LinkEnds
  <2>2. l[2] # l[1]
    BY <1>1, <2>1, BelowChild
  <2>3. l[2] \in Hops(l[1]) /\ l = Onto(l[1], l[2])
    BY <1>1, <2>1, <2>2 DEF Hops, Onto
  <2>4. QED
    BY <2>3
<1>4. QED
  BY <1>2, <1>3

(* A link leads to the other side, away from where it starts.              *)
LEMMA AheadFacts ==
  ASSUME NEW l \in Links
  PROVE  /\ l[2] \in Routers /\ l[2] \in Ahead(l) /\ Ahead(l) \subseteq Routers
         /\ l \in RouterLinks => l[1] \in Routers \ Ahead(l)
         /\ l \notin RouterLinks => l[1] \in Endpoints /\ Ahead(l) = Routers /\ Sender(l) = l[1]
<1>1. l[2] \in Routers /\ l[1] \in Routers \cup Endpoints
  BY LinkEnds
<1>2. CASE l[1] \notin Routers
  BY <1>1, <1>2, LinkEnds DEF Ahead, RouterLinks, Sender
<1>3. CASE l[1] \in Routers /\ IsUp(l)
  <2>1. l[1] \in Children(l[2])
    BY <1>3, LinkEnds
  <2>2. l[1] \in Below(l[1]) /\ l[2] \notin Below(l[1])
    BY <1>1, <2>1, BelowChild
  <2>3. QED
    BY <1>1, <1>3, <2>2 DEF Ahead, RouterLinks
<1>4. CASE l[1] \in Routers /\ ~IsUp(l)
  <2>1. l[2] \in Children(l[1])
    BY <1>4, LinkEnds
  <2>2. l[2] \in Below(l[2]) /\ l[1] \notin Below(l[2]) /\ Below(l[2]) \subseteq Routers
    BY <1>4, <2>1, BelowChild, BelowFacts
  <2>3. QED
    BY <1>1, <1>4, <2>2 DEF Ahead, RouterLinks
<1>5. QED
  BY <1>2, <1>3, <1>4

(* The hops of a router lead apart.                                        *)
LEMMA HopsApart ==
  ASSUME NEW r \in Routers, NEW n \in Hops(r), NEW m \in Hops(r), n # m
  PROVE  Ahead(Onto(r, n)) \cap Ahead(Onto(r, m)) = {}
<1>1. ASSUME NEW u \in Hops(r), u # r
      PROVE  /\ u \in Children(r) /\ Ahead(Onto(r, u)) = Below(u) /\ Below(u) \subseteq Below(r)
  BY <1>1, HopFacts, BelowChild
<1>2. r \in Hops(r) => Ahead(Onto(r, r)) = Routers \ Below(r)
  BY HopFacts
<1>3. CASE n # r /\ m # r
  BY <1>1, <1>3, SiblingsShareNothing
<1>4. CASE n = r \/ m = r
  BY <1>1, <1>2, <1>4
<1>5. QED
  BY <1>3, <1>4

(* The way back.                                                           *)
LEMMA SenderFacts ==
  ASSUME NEW l \in RouterLinks
  PROVE  /\ Sender(l) \in Hops(l[2]) /\ Sender(l) \in Routers
         /\ Ahead(Onto(l[2], Sender(l))) = Routers \ Ahead(l)
<1>1. l \in Links /\ l[1] \in Routers /\ l[2] \in Routers
  BY LinkEnds DEF RouterLinks
<1>2. CASE IsUp(l)
  <2>1. l[1] \in Children(l[2]) /\ Ahead(l) = Routers \ Below(l[1])
    BY <1>1, <1>2, LinkEnds DEF Ahead
  <2>2. l[1] # Parent[l[2]] /\ l[1] # l[2]
    <3>1. l[1] \notin Below(l[1]) \/ l[1] # Parent[l[2]]
      <4>1. SUFFICES ASSUME l[1] = Parent[l[2]] PROVE FALSE
        OBVIOUS
      <4>2. l[2] \in Children(l[1])
        BY <1>1, <4>1 DEF Children
      <4>3. l[2] \in Below(l[1])
        BY <1>1, <4>2, BelowChild
      <4>4. QED
        BY <1>1, <2>1, <4>3, BelowChild
    <3>2. QED
      BY <1>1, <2>1, <3>1, BelowChild
  <2>3. Sender(l) = l[1] /\ l[1] \in Hops(l[2])
    BY <2>1, <2>2 DEF Sender, Hops
  <2>4. Ahead(Onto(l[2], l[1])) = Below(l[1]) /\ Below(l[1]) \subseteq Routers
    BY <1>1, <2>2, <2>3, HopFacts, BelowFacts
  <2>5. QED
    BY <1>1, <2>1, <2>3, <2>4
<1>3. CASE ~IsUp(l)
  <2>1. l[2] \in Children(l[1]) /\ Ahead(l) = Below(l[2])
    BY <1>1, <1>3, LinkEnds DEF Ahead
  <2>2. Sender(l) = l[2] /\ l[2] \in Hops(l[2])
    BY <1>1, <2>1, NoneIsNoRouter DEF Sender, Hops, Children
  <2>3. QED
    BY <1>1, <2>1, <2>2, HopFacts
<1>4. QED
  BY <1>2, <1>3

(* All hops but the one to where l comes from lead on, ahead of l.         *)
LEMMA OnwardFacts ==
  ASSUME NEW l \in Links, NEW n \in Hops(l[2]), n # Sender(l)
  PROVE  Ahead(Onto(l[2], n)) \subseteq Ahead(l) \ {l[2]}
<1>1. l[2] \in Routers /\ Onto(l[2], n) \in RouterLinks /\ Onto(l[2], n)[1] = l[2]
  BY AheadFacts, HopFacts
<1>2. l[2] \notin Ahead(Onto(l[2], n)) /\ Ahead(Onto(l[2], n)) \subseteq Routers
  BY <1>1, AheadFacts DEF RouterLinks
<1>3. CASE l \notin RouterLinks
  BY <1>2, <1>3, AheadFacts
<1>4. CASE l \in RouterLinks
  <2>1. Ahead(Onto(l[2], n)) \cap Ahead(Onto(l[2], Sender(l))) = {}
    BY <1>1, <1>4, SenderFacts, HopsApart
  <2>2. QED
    BY <1>2, <1>4, <2>1, SenderFacts
<1>5. QED
  BY <1>3, <1>4

(* Only l itself crosses from its start to its other side.                 *)
LEMMA OneCrossing ==
  ASSUME NEW l \in RouterLinks, NEW k \in RouterLinks,
         k[1] \notin Ahead(l), k[2] \in Ahead(l)
  PROVE  k = l
<1>1. /\ l \in Links /\ l = <<l[1], l[2]>> /\ l[1] \in Routers /\ l[2] \in Routers
      /\ k \in Links /\ k = <<k[1], k[2]>> /\ k[1] \in Routers /\ k[2] \in Routers
  BY LinkEnds DEF RouterLinks
<1>2. ASSUME NEW c \in Routers, NEW x \in Routers, NEW y \in Children(x), x \notin Below(c), y \in Below(c)
      PROVE  y = c
  <2>1. Above[y] = {x} \cup Above[x]
    BY <1>2, NoneIsNoRouter, AboveByParent DEF Children
  <2>2. QED
    BY <1>2, <2>1 DEF Below
<1>3. ASSUME NEW c \in Routers, NEW x \in Below(c), NEW y \in Children(x)
      PROVE  y \in Below(c)
  BY <1>3, BelowFacts, BelowChild
<1>4. IF IsUp(k) THEN k[1] \in Children(k[2]) ELSE k[2] \in Children(k[1])
  BY <1>1, LinkEnds
<1>5. CASE IsUp(l)
  <2>1. l[1] \in Children(l[2]) /\ Ahead(l) = Routers \ Below(l[1])
    BY <1>1, <1>5, LinkEnds DEF Ahead
  <2>2. k[1] \in Below(l[1]) /\ k[2] \notin Below(l[1])
    BY <1>1, <2>1
  <2>3. IsUp(k) /\ k[1] = l[1]
    BY <1>1, <1>2, <1>3, <1>4, <2>2
  <2>4. QED
    BY <1>1, <1>5, <2>3 DEF IsUp
<1>6. CASE ~IsUp(l)
  <2>1. l[2] \in Children(l[1]) /\ Ahead(l) = Below(l[2])
    BY <1>1, <1>6, LinkEnds DEF Ahead
  <2>2. ~IsUp(k) /\ k[2] = l[2]
    BY <1>1, <1>2, <1>3, <1>4, <2>1
  <2>3. k[1] = l[1]
    BY <1>4, <2>1, <2>2 DEF Children
  <2>4. QED
    BY <1>1, <2>2, <2>3
<1>7. QED
  BY <1>5, <1>6

(* A link j that arrives ahead of l leads on in the same direction, or what*)
(* is behind it is ahead of l as well.                                     *)
LEMMA SameOrOther ==
  ASSUME NEW l \in Links, NEW j \in RouterLinks, j[2] \in Ahead(l)
  PROVE  Ahead(j) \subseteq Ahead(l) \/ Routers \ Ahead(j) \subseteq Ahead(l)
<1>1. /\ j \in Links /\ j[1] \in Routers /\ j[2] \in Routers /\ l[2] \in Routers
  BY LinkEnds DEF RouterLinks
<1>2. IF IsUp(j) THEN j[1] \in Children(j[2]) /\ Ahead(j) = Routers \ Below(j[1])
                 ELSE Ahead(j) = Below(j[2])
  BY <1>1, LinkEnds DEF Ahead
<1>3. CASE l[1] \notin Routers
  BY <1>1, <1>3, AheadFacts DEF Ahead
<1>4. CASE l[1] \in Routers /\ ~IsUp(l)
  <2>1. Ahead(l) = Below(l[2])
    BY <1>4 DEF Ahead
  <2>2. Below(j[2]) \subseteq Below(l[2])
    BY <1>1, <2>1, BelowFacts
  <2>3. IsUp(j) => Below(j[1]) \subseteq Below(j[2]) /\ Below(j[1]) \subseteq Routers
    BY <1>1, <1>2, BelowChild, BelowFacts
  <2>4. QED
    BY <1>2, <2>1, <2>2, <2>3
<1>5. CASE l[1] \in Routers /\ IsUp(l)
  <2> DEFINE a == l[1]
  <2>1. a \in Routers /\ Ahead(l) = Routers \ Below(a) /\ j[2] \notin Below(a)
    BY <1>1, <1>5 DEF Ahead
  <2> HIDE DEF a
  <2>2. CASE ~IsUp(j)
    <3>1. j[2] \in Below(j[2]) /\ Below(j[2]) \subseteq Routers
      BY <1>1, BelowFacts
    <3>2. Below(a) \subseteq Below(j[2]) \/ Below(a) \cap Below(j[2]) = {}
      BY <1>1, <2>1, <3>1, BelowFacts
    <3>3. QED
      BY <1>2, <2>1, <2>2, <3>1, <3>2
  <2>3. CASE IsUp(j)
    <3> DEFINE z == j[1]
    <3>1. z \in Routers /\ z \in Children(j[2]) /\ Ahead(j) = Routers \ Below(z) /\ Below(z) \subseteq Routers
      BY <1>1, <1>2, <2>3, BelowFacts
    <3> HIDE DEF z
    <3>2. CASE Below(z) \subseteq Below(a) /\ z # a
      <4>1. z \in Below(a)
        BY <3>1, <3>2, BelowFacts
      <4>2. Parent[z] = j[2] /\ j[2] \in Below(a)
        BY <1>1, <2>1, <3>1, <3>2, <4>1, NoneIsNoRouter, AboveByParent DEF Below, Children
      <4>3. QED
        BY <2>1, <4>2
    <3>3. CASE Below(a) \subseteq Below(z) \/ z = a
      BY <2>1, <3>1, <3>3
    <3>4. CASE Below(a) \cap Below(z) = {}
      BY <2>1, <3>1, <3>4
    <3>5. QED
      BY <2>1, <3>1, <3>2, <3>3, <3>4, BelowFacts
  <2>4. QED
    BY <2>2, <2>3
<1>6. QED
  BY <1>3, <1>4, <1>5

(* Before a stillAlive is sent on over a link k that is on the way, it was *)
(* on the way already: it does not come from the places ahead.             *)
LEMMA WasOnTheWay ==
  ASSUME NEW P \in SUBSET Routers, NEW l \in Links, NEW k \in OnWay(P, l), k # l,
         NEW j \in Links, NEW n \in Hops(j[2]), n # Sender(j), k = Onto(j[2], n),
         IF j \in RouterLinks THEN ~(P \subseteq Ahead(j)) ELSE j[2] \in P
  PROVE  j \in OnWay(P, l)
<1>1. /\ k \in RouterLinks /\ k \in Links /\ k[1] = j[2] /\ j[2] \in Routers
      /\ Ahead(k) \subseteq Ahead(l) /\ P \cap Ahead(l) \subseteq Ahead(k)
      /\ Ahead(k) \subseteq Ahead(j) \ {j[2]}
  BY AheadFacts, HopFacts, OnwardFacts DEF OnWay, RouterLinks
<1>2. j[2] \in Ahead(l)
  <2>1. k[2] \in Ahead(l)
    BY <1>1, AheadFacts
  <2>2. CASE l \in RouterLinks
    BY <1>1, <2>1, <2>2, OneCrossing
  <2>3. CASE l \notin RouterLinks
    BY <1>1, <2>3, AheadFacts
  <2>4. QED
    BY <2>2, <2>3
<1>3. j \in RouterLinks
  BY <1>1, <1>2
<1>4. PICK p \in P : p \in Routers \ Ahead(j)
  BY <1>3
<1>5. ~(Routers \ Ahead(j) \subseteq Ahead(l))
  BY <1>1, <1>4
<1>6. Ahead(j) \subseteq Ahead(l)
  BY <1>2, <1>3, <1>5, SameOrOther
<1>7. QED
  BY <1>1, <1>3, <1>6 DEF OnWay
-----------------------------------------------------------------------------
(* The messages in the queues that are about the way to e: messages for it *)
(* and its announcements that it is alive.                                 *)

Matters(x, e) ==
    \/ x.kind = "data" /\ Dst[x.id] = e
    \/ x.kind = "stillAlive" /\ x.src = e

(* Those in t are those at the positions g in s, in the same order.        *)
KeptBy(g, t, s, e) ==
    /\ g \in [Nat -> Nat]
    /\ \A i \in 1 .. Len(t) : Matters(t[i], e) => g[i] \in 1 .. Len(s) /\ s[g[i]] = t[i]
    /\ \A i, j \in 1 .. Len(t) : Matters(t[i], e) /\ Matters(t[j], e) /\ i < j => g[i] < g[j]

Kept(t, s, e) == \E g : KeptBy(g, t, s, e)

(* Everything in t is in s.                                                *)
Within(t, s) == t \in Seq(Messages) /\ \A i \in 1 .. Len(t) : \E j \in 1 .. Len(s) : t[i] = s[j]

Later(k) == [i \in Nat |-> i + k]

LEMMA ShiftKept ==
  ASSUME NEW s \in Seq(Messages), NEW t \in Seq(Messages), NEW d \in Nat, NEW e,
         \A i \in 1 .. Len(t) : i + d \in 1 .. Len(s) /\ t[i] = s[i + d]
  PROVE  KeptBy(Later(d), t, s, e) /\ Within(t, s)
<1> DEFINE g == Later(d)
<1>1. g \in [Nat -> Nat] /\ \A i \in Nat : g[i] = i + d
  BY DEF Later
<1>2. Len(t) \in Nat /\ \A i \in 1 .. Len(t) : i \in Nat
  OBVIOUS
<1> HIDE DEF g
<1>3. \A i \in 1 .. Len(t) : g[i] \in 1 .. Len(s) /\ s[g[i]] = t[i]
  BY <1>1, <1>2
<1>4. ASSUME NEW i \in 1 .. Len(t), NEW j \in 1 .. Len(t), i < j PROVE g[i] < g[j]
  <2>1. g[i] = i + d /\ g[j] = j + d
    BY <1>1, <1>2
  <2>2. i + d < j + d
    BY <1>4
  <2>3. QED
    BY <2>1, <2>2
<1>5. KeptBy(g, t, s, e)
  BY <1>1, <1>3, <1>4 DEF KeptBy
<1>6. QED
  BY <1>5 DEF g, Within

LEMMA SameKept ==
  ASSUME NEW s \in Seq(Messages), NEW e
  PROVE  /\ KeptBy(Later(0), s, s, e) /\ Kept(s, s, e) /\ Within(s, s)
         /\ Kept(<<>>, s, e) /\ Within(<<>>, s)
<1>1. \A i \in 1 .. Len(s) : i + 0 \in 1 .. Len(s) /\ s[i] = s[i + 0]
  OBVIOUS
<1>2. <<>> \in Seq(Messages) /\ \A i \in 1 .. Len(<<>>) : i + 0 \in 1 .. Len(s) /\ <<>>[i] = s[i + 0]
  OBVIOUS
<1>3. KeptBy(Later(0), s, s, e) /\ Within(s, s)
  BY <1>1, ShiftKept
<1>4. KeptBy(Later(0), <<>>, s, e) /\ Within(<<>>, s)
  BY <1>2, ShiftKept
<1>5. QED
  BY <1>3, <1>4 DEF Kept

LEMMA TailKept ==
  ASSUME NEW s \in Seq(Messages), s # <<>>, NEW e
  PROVE  KeptBy(Later(1), Tail(s), s, e) /\ Kept(Tail(s), s, e) /\ Within(Tail(s), s)
<1> DEFINE t == Tail(s)
<1>1. t \in Seq(Messages) /\ \A i \in 1 .. Len(t) : i + 1 \in 1 .. Len(s) /\ t[i] = s[i + 1]
  OBVIOUS
<1> HIDE DEF t
<1>2. KeptBy(Later(1), t, s, e) /\ Within(t, s)
  BY <1>1, ShiftKept
<1>3. QED
  BY <1>2 DEF t, Kept

LEMMA AppendKept ==
  ASSUME NEW s \in Seq(Messages), NEW t \in Seq(Messages), NEW x \in Messages, NEW e, ~Matters(x, e)
  PROVE  /\ \A g : KeptBy(g, t, s, e) => KeptBy(g, Append(t, x), s, e)
         /\ Kept(t, s, e) => Kept(Append(t, x), s, e)
<1>1. /\ Len(Append(t, x)) = Len(t) + 1 /\ Len(t) \in Nat
      /\ \A i \in 1 .. Len(t) : Append(t, x)[i] = t[i]
      /\ Append(t, x)[Len(t) + 1] = x
  BY AppendProperties
<1>2. ASSUME NEW g, KeptBy(g, t, s, e) PROVE KeptBy(g, Append(t, x), s, e)
  <2> DEFINE u == Append(t, x)
  <2>1. \A i \in 1 .. Len(u) : Matters(u[i], e) => i \in 1 .. Len(t) /\ u[i] = t[i]
    BY <1>1
  <2> HIDE DEF u
  <2>2. KeptBy(g, u, s, e)
    BY <1>2, <2>1 DEF KeptBy
  <2>3. QED
    BY <2>2 DEF u
<1>3. QED
  BY <1>2 DEF Kept

LEMMA PrefixKept ==
  ASSUME NEW s \in Seq(Messages), NEW k \in 0 .. Len(s), NEW e
  PROVE  Kept(SubSeq(s, 1, k), s, e) /\ Within(SubSeq(s, 1, k), s)
<1> DEFINE t == SubSeq(s, 1, k)
<1>1. t \in Seq(Messages) /\ Len(t) = k /\ Len(s) \in Nat /\ \A i \in 1 .. k : t[i] = s[i]
  <2>1. Len(s) \in Nat /\ \A i \in 1 .. k : s[i] \in Messages
    BY LenProperties, ElementOfSeq
  <2>2. QED
    BY <2>1, SubSeqProperties
<1> HIDE DEF t
<1>2. \A i \in 1 .. Len(t) : i + 0 \in 1 .. Len(s) /\ t[i] = s[i + 0]
  BY <1>1
<1>3. KeptBy(Later(0), t, s, e) /\ Within(t, s)
  BY <1>1, <1>2, ShiftKept
<1>4. QED
  BY <1>3 DEF Kept, t

LEMMA SuffixKept ==
  ASSUME NEW s \in Seq(Messages), NEW k \in 1 .. Len(s) + 1, NEW e
  PROVE  Kept(SubSeq(s, k, Len(s)), s, e) /\ Within(SubSeq(s, k, Len(s)), s)
<1> DEFINE t == SubSeq(s, k, Len(s))
           d == k - 1
<1>1. /\ t \in Seq(Messages) /\ Len(t) = Len(s) - k + 1 /\ Len(s) \in Nat
      /\ \A i \in 1 .. Len(t) : t[i] = s[k + i - 1]
  <2>1. Len(s) \in Nat /\ \A i \in k .. Len(s) : s[i] \in Messages
    BY LenProperties, ElementOfSeq
  <2>2. QED
    BY <2>1, SubSeqProperties
<1> HIDE DEF t
<1>2. d \in Nat /\ \A i \in 1 .. Len(t) : i + d \in 1 .. Len(s) /\ t[i] = s[i + d]
  <2>1. \A i \in 1 .. Len(t) : i + d = k + i - 1 /\ i + d \in 1 .. Len(s)
    BY <1>1
  <2>2. QED
    BY <1>1, <2>1
<1> HIDE DEF d
<1>3. KeptBy(Later(d), t, s, e) /\ Within(t, s)
  BY <1>1, <1>2, ShiftKept
<1>4. QED
  BY <1>3 DEF Kept, t

LEMMA RemovedKept ==
  ASSUME NEW s \in Seq(Messages), NEW i \in 1 .. Len(s), NEW e
  PROVE  /\ Kept(SubSeq(s, 1, i - 1) \o SubSeq(s, i + 1, Len(s)), s, e)
         /\ Within(SubSeq(s, 1, i - 1) \o SubSeq(s, i + 1, Len(s)), s)
<1> DEFINE u == SubSeq(s, 1, i - 1)
           v == SubSeq(s, i + 1, Len(s))
           t == u \o v
           g == [n \in Nat |-> IF n < i THEN n ELSE n + 1]
<1>1. Len(s) \in Nat /\ \A j \in 1 .. Len(s) : s[j] \in Messages
  BY LenProperties, ElementOfSeq
<1>2. u \in Seq(Messages) /\ Len(u) = i - 1 /\ \A n \in 1 .. i - 1 : u[n] = s[n]
  BY <1>1, SubSeqProperties
<1>3. v \in Seq(Messages) /\ Len(v) = Len(s) - i /\ \A n \in 1 .. Len(s) - i : v[n] = s[i + n]
  <2>1. \A j \in (i + 1) .. Len(s) : s[j] \in Messages
    BY <1>1
  <2>2. QED
    BY <1>1, <2>1, SubSeqProperties
<1> HIDE DEF u, v
<1>4. /\ t \in Seq(Messages) /\ Len(t) = Len(s) - 1
      /\ \A n \in 1 .. Len(t) : t[n] = IF n < i THEN u[n] ELSE v[n - (i - 1)]
  <2>1. /\ t \in Seq(Messages) /\ Len(t) = Len(u) + Len(v)
        /\ \A n \in 1 .. Len(u) + Len(v) : t[n] = IF n <= Len(u) THEN u[n] ELSE v[n - Len(u)]
    BY <1>2, <1>3, ConcatProperties
  <2> HIDE DEF t
  <2>2. QED
    BY <1>1, <1>2, <1>3, <2>1
<1> HIDE DEF t
<1>0. \A n \in 1 .. Len(t) : n \in Nat /\ g[n] = IF n < i THEN n ELSE n + 1
  BY <1>1, <1>4
<1>00. g \in [Nat -> Nat]
  OBVIOUS
<1> HIDE DEF g
<1>5. ASSUME NEW n \in 1 .. Len(t) PROVE g[n] \in 1 .. Len(s) /\ s[g[n]] = t[n]
  <2>1. CASE n < i
    BY <1>0, <1>1, <1>2, <1>4, <2>1
  <2>2. CASE ~(n < i)
    <3>1. n - (i - 1) \in 1 .. Len(s) - i /\ i + (n - (i - 1)) = n + 1 /\ g[n] = n + 1
      BY <1>0, <1>1, <1>4, <2>2
    <3>2. t[n] = v[n - (i - 1)]
      BY <1>4, <2>2
    <3>3. QED
      BY <1>1, <1>3, <1>4, <3>1, <3>2
  <2>3. QED
    BY <2>1, <2>2
<1>6. \A n, j \in 1 .. Len(t) : n < j => g[n] < g[j]
  BY <1>0, <1>1, <1>4
<1>7. KeptBy(g, t, s, e)
  BY <1>00, <1>5, <1>6 DEF KeptBy
<1>8. Within(t, s)
  BY <1>4, <1>5 DEF Within
<1>9. QED
  BY <1>7, <1>8 DEF Kept, t, u, v

-----------------------------------------------------------------------------
(* Queues r that keep, of what matters to e, some of what is in q.         *)

Queues == [Links -> Seq(Messages)]
SameAlive(q, r, e) == \A k \in RouterLinks : Alive(r[k], e) = Alive(q[k], e)

LEMMA KeptAlive ==
  ASSUME NEW s \in Seq(Messages), NEW t \in Seq(Messages), NEW e, NEW g, KeptBy(g, t, s, e)
  PROVE  /\ \A i \in Alive(t, e) : g[i] \in Alive(s, e)
         /\ Alive(s, e) = {} => Alive(t, e) = {}
         /\ \A m : Dst[m] = e => \A i \in CopiesIn(t, m) :
               /\ g[i] \in CopiesIn(s, m)
               /\ \A j \in CopiesIn(t, m) : g[i] = g[j] => i = j
               /\ \A j \in Alive(t, e) : g[i] <= g[j] => i <= j
<1>1. Len(s) \in Nat /\ Len(t) \in Nat
  OBVIOUS
<1>2. ASSUME NEW i \in Alive(t, e)
      PROVE  /\ i \in 1 .. Len(t) /\ Matters(t[i], e) /\ g[i] \in Nat /\ g[i] \in Alive(s, e)
  <2>1. i \in 1 .. Len(t) /\ Matters(t[i], e) /\ t[i].kind = "stillAlive" /\ t[i].src = e
    BY <1>2 DEF Alive, Matters
  <2>2. g[i] \in 1 .. Len(s) /\ s[g[i]] = t[i]
    BY <2>1 DEF KeptBy
  <2>3. QED
    BY <1>1, <2>1, <2>2 DEF Alive
<1>3. ASSUME NEW m, Dst[m] = e, NEW i \in CopiesIn(t, m)
      PROVE  /\ i \in 1 .. Len(t) /\ Matters(t[i], e) /\ g[i] \in Nat /\ g[i] \in CopiesIn(s, m)
  <2>0. i \in 1 .. Len(t) /\ t[i].kind = "data" /\ t[i].id = m
    BY <1>3 DEF CopiesIn
  <2>1. i \in 1 .. Len(t) /\ Matters(t[i], e) /\ t[i].kind = "data" /\ t[i].id = m
    BY <1>3, <2>0 DEF Matters
  <2>2. g[i] \in 1 .. Len(s) /\ s[g[i]] = t[i]
    BY <2>1 DEF KeptBy
  <2>3. QED
    BY <1>1, <2>1, <2>2 DEF CopiesIn
<1>4. \A i, j \in 1 .. Len(t) : Matters(t[i], e) /\ Matters(t[j], e) /\ i < j => g[i] < g[j]
  BY DEF KeptBy
<1>5. ASSUME NEW m, Dst[m] = e, NEW i \in CopiesIn(t, m), NEW j \in CopiesIn(t, m), g[i] = g[j]
      PROVE  i = j
  <2>1. /\ i \in 1 .. Len(t) /\ Matters(t[i], e) /\ g[i] \in Nat
        /\ j \in 1 .. Len(t) /\ Matters(t[j], e) /\ g[j] \in Nat
    BY <1>3, <1>5
  <2>2. ~(i < j) /\ ~(j < i)
    BY <1>4, <1>5, <2>1
  <2>3. QED
    BY <1>1, <2>1, <2>2
<1>6. ASSUME NEW m, Dst[m] = e, NEW i \in CopiesIn(t, m), NEW j \in Alive(t, e), g[i] <= g[j]
      PROVE  i <= j
  <2>1. /\ i \in 1 .. Len(t) /\ Matters(t[i], e) /\ g[i] \in Nat
        /\ j \in 1 .. Len(t) /\ Matters(t[j], e) /\ g[j] \in Nat
    BY <1>2, <1>3, <1>6
  <2>2. ~(j < i)
    <3>1. SUFFICES ASSUME j < i PROVE FALSE
      OBVIOUS
    <3>2. g[j] < g[i]
      BY <1>4, <2>1, <3>1
    <3>3. QED
      BY <1>6, <2>1, <3>2
  <2>3. QED
    BY <1>1, <2>1, <2>2
<1>7. QED
  BY <1>2, <1>3, <1>5, <1>6

LEMMA KeptClear ==
  ASSUME NEW q \in Queues, NEW r \in Queues, NEW e, \A k \in Links : Kept(r[k], q[k], e),
         NEW x, NEW P, NEW l, Clear(q, x, P, e, l)
  PROVE  Clear(r, x, P, e, l)
<1> SUFFICES ASSUME NEW k \in OnWay(P, l) PROVE x[k[2]][e] # Sender(k) /\ Alive(r[k], e) = {}
  BY DEF Clear
<1>1. k \in Links /\ x[k[2]][e] # Sender(k) /\ Alive(q[k], e) = {}
  BY DEF Clear, OnWay, RouterLinks
<1>2. q[k] \in Seq(Messages) /\ r[k] \in Seq(Messages)
  BY <1>1 DEF Queues
<1>3. PICK g : KeptBy(g, r[k], q[k], e)
  BY <1>1 DEF Kept
<1>4. QED
  BY <1>1, <1>2, <1>3, KeptAlive

LEMMA KeptKnows ==
  ASSUME NEW q \in Queues, NEW r \in Queues, NEW e, \A l \in Links : Kept(r[l], q[l], e),
         NEW x, NEW P, KnowsTheWay(q, x, P, e)
  PROVE  KnowsTheWay(r, x, P, e)
<1>1. ASSUME NEW l \in Links, Alive(r[l], e) # {} PROVE Alive(q[l], e) # {}
  <2>1. q[l] \in Seq(Messages) /\ r[l] \in Seq(Messages)
    BY DEF Queues
  <2>2. PICK g : KeptBy(g, r[l], q[l], e)
    BY DEF Kept
  <2>3. QED
    BY <1>1, <2>1, <2>2, KeptAlive
<1>2. ASSUME NEW b \in Routers, x[b][e] = None, NEW n \in Hops(b)
      PROVE  Clear(r, x, P, e, Onto(b, n))
  BY <1>2, KeptClear DEF KnowsTheWay
<1>3. QED
  BY <1>1, <1>2 DEF KnowsTheWay

LEMMA CopyFacts ==
  ASSUME NEW q, NEW m, NEW c
  PROVE  c \in Copies(q, m) <=> \E l \in Links : \E i \in CopiesIn(q[l], m) : c = <<l, i>>
  BY DEF Copies

(* With fewer copies, of which no fewer are in W, all of them stay apart.  *)
LEMMA FewerApart ==
  ASSUME NEW P, NEW C, NEW W, NEW h, Apart(P, C, W, h), NEW D, NEW V,
         NEW F \in [D -> C], \A c, d \in D : F[c] = F[d] => c = d,
         \A c \in D : F[c][1] = c[1] /\ (F[c] \in W => c \in V)
  PROVE  Apart(P, D, V, h)
<1>1. \A c \in D : F[c] \in C
  OBVIOUS
<1>2. \A c \in D : P \cap Ahead(c[1]) = {} => c \in V
  BY <1>1 DEF Apart
<1>3. ASSUME NEW c \in D, NEW d \in D, c # d, P \cap Ahead(c[1]) # {}, P \cap Ahead(d[1]) # {}
      PROVE  c \in V /\ P \cap Ahead(c[1]) \cap Ahead(d[1]) = {}
  <2>1. F[c] # F[d] /\ F[c] \in C /\ F[d] \in C /\ F[c][1] = c[1] /\ F[d][1] = d[1]
    BY <1>3
  <2>2. F[c] \in W /\ P \cap Ahead(c[1]) \cap Ahead(d[1]) = {}
    BY <1>3, <2>1 DEF Apart
  <2>3. QED
    BY <2>2
<1>4. \A c \in D : h # None /\ P \cap Ahead(c[1]) # {} => c \in V /\ h \notin Ahead(c[1])
  BY <1>1 DEF Apart
<1>5. ASSUME AtMostOne(P), NEW c \in D, NEW d \in D, c # d PROVE Ahead(c[1]) \cap Ahead(d[1]) = {}
  <2>1. F[c] # F[d] /\ F[c] \in C /\ F[d] \in C /\ F[c][1] = c[1] /\ F[d][1] = d[1]
    BY <1>5
  <2>2. QED
    BY <1>5, <2>1 DEF Apart
<1>6. QED
  BY <1>2, <1>3, <1>4, <1>5 DEF Apart

LEMMA KeptApart ==
  ASSUME NEW q \in Queues, NEW r \in Queues, NEW e, NEW G,
         \A l \in Links : KeptBy(G[l], r[l], q[l], e),
         NEW x, NEW P, NEW m, Dst[m] = e, NEW h, NEW C \in SUBSET Copies(q, m),
         Apart(P, C, Onwards(q, x, P, e, m), h),
         \A l \in Links : \A i \in CopiesIn(r[l], m) : <<l, G[l][i]>> \in C
  PROVE  Apart(P, Copies(r, m), Onwards(r, x, P, e, m), h)
<1> DEFINE D == Copies(r, m)
           F == [c \in D |-> <<c[1], G[c[1]][c[2]]>>]
<1>1. ASSUME NEW c \in D
      PROVE  /\ c[1] \in Links /\ c[2] \in CopiesIn(r[c[1]], m) /\ c = <<c[1], c[2]>>
             /\ <<c[1], G[c[1]][c[2]]>> \in C
             /\ q[c[1]] \in Seq(Messages) /\ r[c[1]] \in Seq(Messages)
             /\ KeptBy(G[c[1]], r[c[1]], q[c[1]], e)
  <2>1. PICK l \in Links : \E i \in CopiesIn(r[l], m) : c = <<l, i>>
    BY <1>1, CopyFacts
  <2>2. PICK i \in CopiesIn(r[l], m) : c = <<l, i>>
    BY <2>1
  <2>3. c[1] = l /\ c[2] = i
    BY <2>2
  <2>4. q[l] \in Seq(Messages) /\ r[l] \in Seq(Messages)
    BY DEF Queues
  <2>5. QED
    BY <2>2, <2>3, <2>4
<1>2. F \in [D -> C] /\ \A c \in D : F[c][1] = c[1] /\ F[c][2] = G[c[1]][c[2]]
  BY <1>1
<1>3. ASSUME NEW c \in D, NEW d \in D, F[c] = F[d] PROVE c = d
  <2>1. c[1] = d[1] /\ G[c[1]][c[2]] = G[c[1]][d[2]]
    BY <1>2, <1>3
  <2> DEFINE g == G[c[1]]
             t == r[c[1]]
  <2>2. \A i, j \in CopiesIn(t, m) : g[i] = g[j] => i = j
    <3>1. t \in Seq(Messages) /\ q[c[1]] \in Seq(Messages) /\ KeptBy(g, t, q[c[1]], e)
      BY <1>1
    <3> HIDE DEF g, t
    <3>2. QED
      BY <3>1, KeptAlive
  <2>4. c[2] = d[2]
    BY <1>1, <2>1, <2>2
  <2>5. QED
    BY <1>1, <2>1, <2>4
<1>4. ASSUME NEW c \in D, F[c] \in Onwards(q, x, P, e, m) PROVE c \in Onwards(r, x, P, e, m)
  <2>1. ClearFrom(q, x, P, e, c[1], G[c[1]][c[2]])
    BY <1>2, <1>4 DEF Onwards
  <2>2. ASSUME NEW k \in OnWay(P, c[1])
        PROVE  x[k[2]][e] # Sender(k) /\ \A j \in Alive(r[k], e) : k = c[1] /\ c[2] <= j
    <3>1. k \in Links /\ q[k] \in Seq(Messages) /\ r[k] \in Seq(Messages) /\ KeptBy(G[k], r[k], q[k], e)
      BY DEF OnWay, RouterLinks, Queues
    <3>2. x[k[2]][e] # Sender(k) /\ \A j \in Alive(q[k], e) : k = c[1] /\ G[c[1]][c[2]] <= j
      BY <2>1 DEF ClearFrom
    <3>3. ASSUME NEW j \in Alive(r[k], e) PROVE k = c[1] /\ c[2] <= j
      <4>1. G[k][j] \in Alive(q[k], e)
        BY <3>1, KeptAlive
      <4>2. k = c[1] /\ G[k][c[2]] <= G[k][j]
        BY <3>2, <4>1
      <4>3. \A i \in CopiesIn(r[k], m) : \A n \in Alive(r[k], e) : G[k][i] <= G[k][n] => i <= n
        BY <3>1, KeptAlive
      <4>4. QED
        BY <1>1, <3>3, <4>2, <4>3
    <3>4. QED
      BY <3>2, <3>3
  <2>3. QED
    BY <2>2 DEF Onwards, ClearFrom
<1> HIDE DEF F
<1>5. QED
  BY <1>2, <1>3, <1>4, FewerApart
-----------------------------------------------------------------------------
(* Something is sent.                                                      *)

LEMMA AppendSets ==
  ASSUME NEW s \in Seq(Messages), NEW x \in Messages
  PROVE  /\ Len(s) \in Nat
         /\ \A e : /\ Alive(s, e) \subseteq 1 .. Len(s)
                   /\ Alive(Append(s, x), e) = Alive(s, e) \cup
                         {i \in {Len(s) + 1} : x.kind = "stillAlive" /\ x.src = e}
         /\ \A m : /\ CopiesIn(s, m) \subseteq 1 .. Len(s)
                   /\ CopiesIn(Append(s, x), m) = CopiesIn(s, m) \cup
                         {i \in {Len(s) + 1} : x.kind = "data" /\ x.id = m}
<1> DEFINE t == Append(s, x)
<1>1. /\ Len(t) = Len(s) + 1 /\ Len(s) \in Nat
      /\ \A i \in 1 .. Len(s) : t[i] = s[i]
      /\ t[Len(s) + 1] = x
  BY AppendProperties
<1>2. \A i : i \in 1 .. Len(t) <=> i \in 1 .. Len(s) \/ i = Len(s) + 1
  BY <1>1
<1> HIDE DEF t
<1>3. ASSUME NEW e PROVE Alive(t, e) = Alive(s, e) \cup
                         {i \in {Len(s) + 1} : x.kind = "stillAlive" /\ x.src = e}
  BY <1>1, <1>2 DEF Alive
<1>4. ASSUME NEW m PROVE CopiesIn(t, m) = CopiesIn(s, m) \cup
                         {i \in {Len(s) + 1} : x.kind = "data" /\ x.id = m}
  BY <1>1, <1>2 DEF CopiesIn
<1>5. QED
  BY <1>1, <1>3, <1>4 DEF t, Alive, CopiesIn

(* Where the announcements between routers stay, so does what is clear.    *)
LEMMA SameAliveClear ==
  ASSUME NEW q, NEW r, NEW e, SameAlive(q, r, e),
         NEW x, NEW P, NEW l
  PROVE  /\ Clear(q, x, P, e, l) => Clear(r, x, P, e, l)
         /\ \A i : ClearFrom(q, x, P, e, l, i) => ClearFrom(r, x, P, e, l, i)
  BY DEF Clear, ClearFrom, OnWay, SameAlive

LEMMA SameAliveKnows ==
  ASSUME NEW q, NEW r, NEW e, SameAlive(q, r, e),
         NEW x, NEW P, KnowsTheWay(q, x, P, e),
         \A l \in Links \ RouterLinks : Alive(r[l], e) # {} => l[1] = e /\ l[2] \in P
  PROVE  KnowsTheWay(r, x, P, e)
<1>1. ASSUME NEW b \in Routers, x[b][e] = None, NEW n \in Hops(b)
      PROVE  Clear(r, x, P, e, Onto(b, n))
  <2>1. Clear(q, x, P, e, Onto(b, n))
    BY <1>1 DEF KnowsTheWay
  <2>2. QED
    BY <2>1, SameAliveClear
<1>2. ASSUME NEW l \in Links, Alive(r[l], e) # {}
      PROVE  IF l \in RouterLinks THEN ~(P \subseteq Ahead(l)) ELSE l[1] = e /\ l[2] \in P
  BY <1>2 DEF KnowsTheWay, SameAlive
<1>3. QED
  BY <1>1, <1>2 DEF KnowsTheWay

-----------------------------------------------------------------------------
(* The announcement of e at the head of j is sent on, and y = j[2] notes   *)
(* where it came from.                                                     *)

Noted(x, z, j, e) ==
    /\ z[j[2]][e] = Sender(j)
    /\ \A r \in Routers \ {j[2]} : z[r][e] = x[r][e]

(* It goes to hops other than the sender.                                  *)
SentOn(q, r, j, y) ==
    \E S \in SUBSET {Onto(j[2], n) : n \in Hops(j[2]) \ {Sender(j)}} :
        \A k \in Links : r[k] = IF k \in S THEN Append(q[k], y) ELSE q[k]

(* What e says of itself comes from behind, or from e at one of its places.*)
FromPlace(P, j, e) == IF j \in RouterLinks THEN ~(P \subseteq Ahead(j)) ELSE j[1] = e /\ j[2] \in P

LEMMA OneSender ==
  ASSUME NEW j \in Links, NEW k \in RouterLinks, j[2] = k[2], Sender(j) = Sender(k)
  PROVE  j = k
<1>1. k \in Links /\ k[1] \notin Ahead(k) /\ k[2] \in Ahead(k) /\ Ahead(k) \subseteq Routers
  BY AheadFacts DEF RouterLinks
<1>2. j \in RouterLinks
  BY AheadFacts, SenderFacts, NoneIsNoRouter
<1>3. Routers \ Ahead(j) = Routers \ Ahead(k) /\ Ahead(j) \subseteq Routers
  <2>1. Ahead(Onto(j[2], Sender(j))) = Routers \ Ahead(j)
    BY <1>2, SenderFacts
  <2>2. Ahead(Onto(k[2], Sender(k))) = Routers \ Ahead(k)
    BY SenderFacts
  <2>3. QED
    BY <2>1, <2>2, AheadFacts
<1>4. Ahead(j) = Ahead(k)
  BY <1>1, <1>3
<1>5. k = j
  BY <1>1, <1>2, <1>4, OneCrossing
<1>6. QED
  BY <1>5

(* What was clear before, away from the announcement itself, stays clear.  *)
LEMMA AliveOnClear ==
  ASSUME NEW q \in Queues, NEW r, NEW e \in Endpoints, NEW j \in Links,
         NEW y \in Messages, SentOn(q, r, j, y),
         NEW x, NEW z, Noted(x, z, j, e), NEW P \in SUBSET Routers, FromPlace(P, j, e),
         NEW l \in Links, j \notin OnWay(P, l), NEW k \in OnWay(P, l), x[k[2]][e] # Sender(k)
  PROVE  /\ z[k[2]][e] # Sender(k)
         /\ k # l => r[k] = q[k]
         /\ r[k] # q[k] => k[1] = j[2]
<1>1. k \in RouterLinks /\ k \in Links /\ k[2] \in Routers
  BY AheadFacts DEF OnWay, RouterLinks
<1>2. z[k[2]][e] # Sender(k)
  <2>1. CASE k[2] # j[2]
    BY <1>1, <2>1 DEF Noted
  <2>2. CASE k[2] = j[2]
    <3>1. j # k
      OBVIOUS
    <3>2. Sender(j) # Sender(k)
      BY <1>1, <2>2, <3>1, OneSender
    <3>3. QED
      BY <2>2, <3>2 DEF Noted
  <2>3. QED
    BY <2>1, <2>2
<1>3. ASSUME r[k] # q[k]
      PROVE  \E n \in Hops(j[2]) \ {Sender(j)} : k = Onto(j[2], n)
  <2>1. PICK S \in SUBSET {Onto(j[2], n) : n \in Hops(j[2]) \ {Sender(j)}} :
           \A i \in Links : r[i] = IF i \in S THEN Append(q[i], y) ELSE q[i]
    BY DEF SentOn
  <2>2. k \in S
    BY <1>1, <1>3, <2>1
  <2>3. QED
    BY <2>2
<1>4. r[k] # q[k] => k = l
  <2>1. SUFFICES ASSUME r[k] # q[k], k # l PROVE FALSE
    OBVIOUS
  <2>2. PICK n \in Hops(j[2]) \ {Sender(j)} : k = Onto(j[2], n)
    BY <1>3, <2>1
  <2>3. IF j \in RouterLinks THEN ~(P \subseteq Ahead(j)) ELSE j[2] \in P
    BY DEF FromPlace
  <2>4. j \in OnWay(P, l)
    BY <2>1, <2>2, <2>3, WasOnTheWay
  <2>5. QED
    BY <2>4
<1>5. r[k] # q[k] => k[1] = j[2]
  BY <1>3, AheadFacts, HopFacts
<1>6. QED
  BY <1>2, <1>4, <1>5

LEMMA AliveOn ==
  ASSUME NEW q \in Queues, NEW r, NEW e \in Endpoints, NEW j \in Links,
         NEW y \in Messages, y.kind = "stillAlive", y.src = e, SentOn(q, r, j, y),
         NEW x, NEW z, Noted(x, z, j, e), NEW P \in SUBSET Routers,
         1 \in Alive(q[j], e), KnowsTheWay(q, x, P, e)
  PROVE  /\ KnowsTheWay(r, z, P, e)
         /\ \A l \in Links : \A i \in 1 .. Len(q[l]) :
               ClearFrom(q, x, P, e, l, i) /\ <<l, i>> # <<j, 1>> => ClearFrom(r, z, P, e, l, i)
<1>1. /\ IF j \in RouterLinks THEN ~(P \subseteq Ahead(j)) ELSE j[1] = e /\ j[2] \in P
      /\ j[2] \in Routers
  BY AheadFacts DEF KnowsTheWay
<1>0. FromPlace(P, j, e)
  BY <1>1 DEF FromPlace
<1>2. \A k \in Links : q[k] \in Seq(Messages) /\ Len(q[k]) \in Nat
  BY DEF Queues
<1>3. ASSUME NEW k \in Links
      PROVE  \/ r[k] = q[k]
             \/ /\ \E n \in Hops(j[2]) \ {Sender(j)} : k = Onto(j[2], n)
                /\ Alive(r[k], e) = Alive(q[k], e) \cup {Len(q[k]) + 1}
  <2>1. PICK S \in SUBSET {Onto(j[2], n) : n \in Hops(j[2]) \ {Sender(j)}} :
           \A i \in Links : r[i] = IF i \in S THEN Append(q[i], y) ELSE q[i]
    BY DEF SentOn
  <2>2. Alive(Append(q[k], y), e) = Alive(q[k], e) \cup {Len(q[k]) + 1}
    BY <1>2, AppendSets
  <2>3. QED
    BY <2>1, <2>2
<1>4. ASSUME NEW l \in Links, NEW i \in 1 .. Len(q[l]),
             ClearFrom(q, x, P, e, l, i), <<l, i>> # <<j, 1>>
      PROVE  ClearFrom(r, z, P, e, l, i)
  <2>1. j \notin OnWay(P, l)
    <3>1. SUFFICES ASSUME j \in OnWay(P, l) PROVE FALSE
      OBVIOUS
    <3>2. j = l /\ i <= 1
      BY <1>4, <3>1 DEF ClearFrom
    <3>3. i = 1
      BY <1>2, <3>2
    <3>4. QED
      BY <1>4, <3>2, <3>3
  <2>2. ASSUME NEW k \in OnWay(P, l)
        PROVE  z[k[2]][e] # Sender(k) /\ \A n \in Alive(r[k], e) : k = l /\ i <= n
    <3>0. k \in Links
      BY DEF OnWay, RouterLinks
    <3>1. x[k[2]][e] # Sender(k) /\ \A n \in Alive(q[k], e) : k = l /\ i <= n
      BY <1>4 DEF ClearFrom
    <3>2. z[k[2]][e] # Sender(k) /\ (k # l => r[k] = q[k]) /\ (r[k] # q[k] => k[1] = j[2])
      BY <1>0, <2>1, <3>1, AliveOnClear
    <3>3. ASSUME NEW n \in Alive(r[k], e) PROVE k = l /\ i <= n
      <4>1. CASE r[k] = q[k]
        BY <3>1, <3>3, <4>1
      <4>2. CASE r[k] # q[k]
        <5>1. k = l /\ (n \in Alive(q[k], e) \/ n = Len(q[k]) + 1)
          BY <1>3, <3>0, <3>2, <3>3, <4>2
        <5>2. i <= Len(q[l]) + 1
          BY <1>2
        <5>3. QED
          BY <3>1, <5>1, <5>2
      <4>3. QED
        BY <4>1, <4>2
    <3>4. QED
      BY <3>2, <3>3
  <2>3. QED
    BY <2>2 DEF ClearFrom
<1>5. ASSUME NEW l \in Links, l[1] # j[2], Clear(q, x, P, e, l)
      PROVE  Clear(r, z, P, e, l)
  <2>1. j \notin OnWay(P, l)
    BY <1>5 DEF Clear
  <2>2. ASSUME NEW k \in OnWay(P, l) PROVE z[k[2]][e] # Sender(k) /\ Alive(r[k], e) = {}
    <3>0. k \in Links
      BY DEF OnWay, RouterLinks
    <3>1. x[k[2]][e] # Sender(k) /\ Alive(q[k], e) = {}
      BY <1>5 DEF Clear
    <3>2. z[k[2]][e] # Sender(k) /\ (k # l => r[k] = q[k]) /\ (r[k] # q[k] => k[1] = j[2])
      BY <1>0, <2>1, <3>1, AliveOnClear
    <3>3. r[k] = q[k]
      BY <1>5, <3>2
    <3>4. QED
      BY <3>1, <3>2, <3>3
  <2>3. QED
    BY <2>2 DEF Clear
<1>6. KnowsTheWay(r, z, P, e)
  <2>1. ASSUME NEW b \in Routers
        PROVE  /\ z[b][e] \in {None, e} \cup Hops(b)
               /\ z[b][e] = e => b \in P
               /\ z[b][e] \in Hops(b) => P \cap Ahead(Onto(b, z[b][e])) # {}
               /\ z[b][e] = None => b # j[2]
    <3>1. CASE b # j[2]
      <4>1. z[b][e] = x[b][e]
        BY <3>1 DEF Noted
      <4>2. QED
        BY <3>1, <4>1 DEF KnowsTheWay
    <3>2. CASE b = j[2] /\ j \in RouterLinks
      <4>1. /\ z[b][e] = Sender(j) /\ Sender(j) \in Hops(b) /\ Sender(j) \in Routers
            /\ Ahead(Onto(b, Sender(j))) = Routers \ Ahead(j)
        BY <3>2, SenderFacts DEF Noted
      <4>2. P \cap (Routers \ Ahead(j)) # {}
        BY <1>1, <3>2
      <4>3. QED
        BY <4>1, <4>2, NoneIsNoRouter
    <3>3. CASE b = j[2] /\ j \notin RouterLinks
      <4>1. z[b][e] = e /\ b \in P
        BY <1>1, <3>3, AheadFacts DEF Noted
      <4>2. e \notin Hops(b) /\ e # None
        BY HopFacts, NoneIsNoRouter
      <4>3. QED
        BY <3>3, <4>1, <4>2
    <3>4. QED
      BY <3>1, <3>2, <3>3
  <2>2. ASSUME NEW b \in Routers, z[b][e] = None, NEW n \in Hops(b)
        PROVE  Clear(r, z, P, e, Onto(b, n))
    <3>1. b # j[2] /\ x[b][e] = None
      BY <2>1, <2>2 DEF Noted
    <3>2. Clear(q, x, P, e, Onto(b, n))
      BY <3>1 DEF KnowsTheWay
    <3>3. Onto(b, n) \in Links /\ Onto(b, n)[1] = b
      BY HopFacts DEF RouterLinks
    <3>4. QED
      BY <1>5, <3>1, <3>2, <3>3
  <2>3. ASSUME NEW l \in Links, Alive(r[l], e) # {}
        PROVE  IF l \in RouterLinks THEN ~(P \subseteq Ahead(l)) ELSE l[1] = e /\ l[2] \in P
    <3>1. CASE r[l] = q[l]
      BY <2>3, <3>1 DEF KnowsTheWay
    <3>2. CASE r[l] # q[l]
      <4>1. PICK n \in Hops(j[2]) \ {Sender(j)} : l = Onto(j[2], n)
        BY <1>3, <3>2
      <4>2. l \in RouterLinks /\ Ahead(l) \subseteq Ahead(j) \ {j[2]}
        BY <1>1, <4>1, HopFacts, OnwardFacts
      <4>3. QED
        BY <1>1, <4>2
    <3>3. QED
      BY <3>1, <3>2
  <2>4. QED
    BY <2>1, <2>2, <2>3 DEF KnowsTheWay
<1>7. QED
  BY <1>4, <1>6
-----------------------------------------------------------------------------
(* A copy a of a message is fetched; in its place come those in N.  V are  *)
(* the copies that are not sent back afterwards.                           *)

Replaces(D, V, C, W, a, N) ==
    /\ D \subseteq (C \ {a}) \cup N
    /\ \A c \in D \ N : c \in W => c \in V

(* It is at one of the places, where it stays, and may be delivered.       *)
LEMMA TakenApart ==
  ASSUME NEW P, NEW C, NEW W, NEW h, Apart(P, C, W, h), NEW a \in C, NEW b \in P, b \in Ahead(a[1]),
         NEW D, NEW V, Replaces(D, V, C, W, a, {}), NEW g \in {h, b}
  PROVE  Apart(P, D, V, g)
<1>1. ASSUME NEW c \in D PROVE c \in C /\ c # a /\ (c \in W => c \in V)
  BY <1>1 DEF Replaces
<1>2. P \cap Ahead(a[1]) # {}
  OBVIOUS
<1>3. ASSUME NEW c \in D, P \cap Ahead(c[1]) # {}
      PROVE  c \in V /\ b \notin Ahead(c[1])
  BY <1>1, <1>2, <1>3 DEF Apart
<1>4. QED
  BY <1>1, <1>3 DEF Apart

(* Those in N go in different directions, and nothing sends them back.     *)
Spreads(N, V, a) ==
    /\ \A n \in N : n \in V /\ Ahead(n[1]) \subseteq Ahead(a[1])
    /\ \A n, k \in N : n # k => Ahead(n[1]) \cap Ahead(k[1]) = {}

(* No way to the places is known.                                          *)
LEMMA FloodedApart ==
  ASSUME NEW P, NEW C, NEW W, NEW h, Apart(P, C, W, h), NEW a \in C,
         NEW D, NEW V, NEW N, Replaces(D, V, C, W, a, N), Spreads(N, V, a)
  PROVE  Apart(P, D, V, h)
<1>0. /\ \A n \in N : n \in V /\ Ahead(n[1]) \subseteq Ahead(a[1])
      /\ \A n, k \in N : n # k => Ahead(n[1]) \cap Ahead(k[1]) = {}
  BY DEF Spreads
<1>1. ASSUME NEW c \in D, c \notin N PROVE c \in C /\ c # a /\ (c \in W => c \in V)
  BY <1>1 DEF Replaces
<1>2. ASSUME NEW c \in D, NEW d \in D, c # d, P \cap Ahead(c[1]) # {}, P \cap Ahead(d[1]) # {}
      PROVE  c \in V /\ P \cap Ahead(c[1]) \cap Ahead(d[1]) = {}
  <2>1. CASE c \in N /\ d \in N
    BY <1>0, <1>2, <2>1
  <2>2. CASE c \in N /\ d \notin N
    <3>1. P \cap Ahead(a[1]) \cap Ahead(d[1]) = {}
      BY <1>1, <1>2, <2>2 DEF Apart
    <3>2. QED
      BY <1>0, <2>2, <3>1
  <2>3. CASE c \notin N /\ d \in N
    <3>1. c \in W /\ P \cap Ahead(c[1]) \cap Ahead(a[1]) = {}
      BY <1>0, <1>1, <1>2, <2>3 DEF Apart
    <3>2. QED
      BY <1>0, <1>1, <2>3, <3>1
  <2>4. CASE c \notin N /\ d \notin N
    BY <1>1, <1>2, <2>4 DEF Apart
  <2>5. QED
    BY <2>1, <2>2, <2>3, <2>4
<1>3. ASSUME NEW c \in D, P \cap Ahead(c[1]) = {} PROVE c \in V
  BY <1>0, <1>1, <1>3 DEF Apart
<1>4. ASSUME NEW c \in D, h # None, P \cap Ahead(c[1]) # {} PROVE c \in V /\ h \notin Ahead(c[1])
  <2>1. CASE c \in N
    <3>1. h \notin Ahead(a[1])
      BY <1>0, <1>4, <2>1 DEF Apart
    <3>2. QED
      BY <1>0, <2>1, <3>1
  <2>2. CASE c \notin N
    BY <1>1, <1>4, <2>2 DEF Apart
  <2>3. QED
    BY <2>1, <2>2
<1>5. ASSUME AtMostOne(P), NEW c \in D, NEW d \in D, c # d PROVE Ahead(c[1]) \cap Ahead(d[1]) = {}
  <2>1. CASE c \in N /\ d \in N
    BY <1>0, <1>5, <2>1
  <2>2. CASE c \in N /\ d \notin N
    <3>1. Ahead(a[1]) \cap Ahead(d[1]) = {}
      BY <1>1, <1>5, <2>2 DEF Apart
    <3>2. QED
      BY <1>0, <2>2, <3>1
  <2>3. CASE c \notin N /\ d \in N
    <3>1. Ahead(c[1]) \cap Ahead(a[1]) = {}
      BY <1>1, <1>5, <2>3 DEF Apart
    <3>2. QED
      BY <1>0, <2>3, <3>1
  <2>4. CASE c \notin N /\ d \notin N
    BY <1>1, <1>5, <2>4 DEF Apart
  <2>5. QED
    BY <2>1, <2>2, <2>3, <2>4
<1>6. QED
  BY <1>2, <1>3, <1>4, <1>5 DEF Apart

(* It is sent on to where a place is.                                      *)
LEMMA PassedApart ==
  ASSUME NEW P, AtMostTwo(P), NEW C, NEW W, NEW h \in P \cup {None}, Apart(P, C, W, h), NEW a \in C,
         NEW D, NEW V, NEW n, Replaces(D, V, C, W, a, {n}),
         Ahead(n[1]) \subseteq Ahead(a[1]), P \cap Ahead(n[1]) # {},
         a \in W /\ P \cap Ahead(a[1]) \subseteq Ahead(n[1]) => n \in V
  PROVE  Apart(P, D, V, h)
<1>1. ASSUME NEW c \in D, c # n PROVE c \in C /\ c # a /\ (c \in W => c \in V)
  BY <1>1 DEF Replaces
<1>2. P \cap Ahead(a[1]) # {}
  OBVIOUS
<1>3. ASSUME NEW p \in P, p \notin Ahead(a[1]) PROVE P \cap Ahead(a[1]) \subseteq Ahead(n[1])
  <2>1. PICK s \in P : s \in Ahead(n[1])
    OBVIOUS
  <2>2. \A t \in P \cap Ahead(a[1]) : t = s
    BY <1>3, <2>1 DEF AtMostTwo
  <2>3. QED
    BY <2>1, <2>2
<1>4. ASSUME NEW d \in D, d # n, P \cap Ahead(d[1]) # {}
      PROVE  /\ n \in V /\ d \in V
             /\ P \cap Ahead(n[1]) \cap Ahead(d[1]) = {}
  <2>1. d \in C /\ d # a
    BY <1>1, <1>4
  <2>2. a \in W /\ d \in W /\ P \cap Ahead(a[1]) \cap Ahead(d[1]) = {}
    BY <1>2, <1>4, <2>1 DEF Apart
  <2>3. PICK p \in P : p \in Ahead(d[1])
    BY <1>4
  <2>4. P \cap Ahead(a[1]) \subseteq Ahead(n[1])
    BY <1>3, <2>2, <2>3
  <2>5. QED
    BY <1>1, <1>4, <2>2, <2>4
<1>5. ASSUME NEW c \in D, NEW d \in D, c # d, P \cap Ahead(c[1]) # {}, P \cap Ahead(d[1]) # {}
      PROVE  c \in V /\ P \cap Ahead(c[1]) \cap Ahead(d[1]) = {}
  <2>1. CASE c = n \/ d = n
    BY <1>4, <1>5, <2>1
  <2>2. CASE c # n /\ d # n
    BY <1>1, <1>5, <2>2 DEF Apart
  <2>3. QED
    BY <2>1, <2>2
<1>6. ASSUME NEW c \in D, P \cap Ahead(c[1]) = {} PROVE c \in V
  BY <1>1, <1>6 DEF Apart
<1>7. ASSUME NEW c \in D, h # None, P \cap Ahead(c[1]) # {} PROVE c \in V /\ h \notin Ahead(c[1])
  <2>1. a \in W /\ h \notin Ahead(a[1]) /\ h \in P
    BY <1>2, <1>7 DEF Apart
  <2>2. CASE c = n
    BY <1>3, <2>1, <2>2
  <2>3. CASE c # n
    BY <1>1, <1>7, <2>3 DEF Apart
  <2>4. QED
    BY <2>2, <2>3
<1>8. ASSUME AtMostOne(P), NEW c \in D, NEW d \in D, c # d PROVE Ahead(c[1]) \cap Ahead(d[1]) = {}
  <2>1. ASSUME NEW u \in D, u # n PROVE Ahead(u[1]) \cap Ahead(a[1]) = {}
    BY <1>1, <1>8, <2>1 DEF Apart
  <2>2. CASE c = n \/ d = n
    BY <1>8, <2>1, <2>2
  <2>3. CASE c # n /\ d # n
    BY <1>1, <1>8, <2>3 DEF Apart
  <2>4. QED
    BY <2>2, <2>3
<1>9. QED
  BY <1>5, <1>6, <1>7, <1>8 DEF Apart

(* It is sent back, which happens only to one that is not in W.            *)
LEMMA ReturnedApart ==
  ASSUME NEW P, NEW C, NEW W, NEW h, Apart(P, C, W, h), NEW a \in C, a \notin W,
         NEW D, NEW V, NEW n, Replaces(D, V, C, W, a, {n}),
         Ahead(n[1]) \cap Ahead(a[1]) = {}, P \cap Ahead(n[1]) # {}
  PROVE  Apart(P, D, V, h)
<1>1. ASSUME NEW c \in D, c # n PROVE c \in C /\ c # a /\ (c \in W => c \in V)
  BY <1>1 DEF Replaces
<1>2. P \cap Ahead(a[1]) # {}
  BY DEF Apart
<1>3. ~AtMostOne(P)
  BY <1>2 DEF AtMostOne
<1>4. h = None
  BY <1>2 DEF Apart
<1>5. ASSUME NEW c \in D, c # n PROVE c \in V /\ P \cap Ahead(c[1]) = {}
  <2>1. P \cap Ahead(c[1]) = {}
    BY <1>1, <1>2, <1>5 DEF Apart
  <2>2. QED
    BY <1>1, <1>5, <2>1 DEF Apart
<1>6. QED
  BY <1>3, <1>4, <1>5 DEF Apart

(* Where a copy is on its way to a place, e has not got the message there. *)
LEMMA NotDelivered ==
  ASSUME NEW P, NEW C, NEW W, NEW h, Apart(P, C, W, h), NEW a \in C, NEW b \in P, b \in Ahead(a[1])
  PROVE  h # b \/ h = None
<1>1. P \cap Ahead(a[1]) # {}
  OBVIOUS
<1>2. QED
  BY <1>1 DEF Apart
-----------------------------------------------------------------------------
(* e comes to one more place.                                              *)

LEMMA MorePlaces ==
  ASSUME NEW q, NEW x, NEW e, NEW P \in SUBSET Routers, NEW Q \in SUBSET Routers, P \subseteq Q
  PROVE  /\ \A l, i : ClearFrom(q, x, P, e, l, i) => ClearFrom(q, x, Q, e, l, i)
         /\ KnowsTheWay(q, x, P, e) => KnowsTheWay(q, x, Q, e)
<1>1. \A l : OnWay(Q, l) \subseteq OnWay(P, l)
  BY DEF OnWay
<1>2. \A l : Clear(q, x, P, e, l) => Clear(q, x, Q, e, l)
  BY <1>1 DEF Clear
<1>3. \A l, i : ClearFrom(q, x, P, e, l, i) => ClearFrom(q, x, Q, e, l, i)
  BY <1>1 DEF ClearFrom
<1>4. KnowsTheWay(q, x, P, e) => KnowsTheWay(q, x, Q, e)
  <2>1. SUFFICES ASSUME KnowsTheWay(q, x, P, e) PROVE KnowsTheWay(q, x, Q, e)
    OBVIOUS
  <2>2. ASSUME NEW r \in Routers
        PROVE  /\ x[r][e] \in {None, e} \cup Hops(r)
               /\ x[r][e] = e => r \in Q
               /\ x[r][e] \in Hops(r) => Q \cap Ahead(Onto(r, x[r][e])) # {}
    BY <2>1 DEF KnowsTheWay
  <2>3. ASSUME NEW r \in Routers, x[r][e] = None, NEW n \in Hops(r) PROVE Clear(q, x, Q, e, Onto(r, n))
    BY <1>2, <2>1, <2>3 DEF KnowsTheWay
  <2>4. ASSUME NEW l \in Links, Alive(q[l], e) # {}
        PROVE  IF l \in RouterLinks THEN ~(Q \subseteq Ahead(l)) ELSE l[1] = e /\ l[2] \in Q
    BY <2>1, <2>4 DEF KnowsTheWay
  <2>5. QED
    BY <2>2, <2>3, <2>4 DEF KnowsTheWay
<1>5. QED
  BY <1>3, <1>4

(* With one place, what is on its way there is not sent back.              *)
LEMMA OnePlaceClear ==
  ASSUME NEW q, NEW x, NEW e, NEW P \in SUBSET Routers, KnowsTheWay(q, x, P, e), AtMostOne(P),
         NEW l, P \cap Ahead(l) # {}, NEW i
  PROVE  ClearFrom(q, x, P, e, l, i)
<1> SUFFICES ASSUME NEW k \in OnWay(P, l)
             PROVE  x[k[2]][e] # Sender(k) /\ Alive(q[k], e) = {}
  BY DEF ClearFrom
<1>1. k \in RouterLinks /\ k \in Links /\ k[2] \in Routers
  BY AheadFacts DEF OnWay, RouterLinks
<1>2. P \subseteq Ahead(k)
  BY DEF OnWay, AtMostOne
<1>3. x[k[2]][e] # Sender(k)
  <2>1. SUFFICES ASSUME x[k[2]][e] = Sender(k) PROVE FALSE
    OBVIOUS
  <2>2. Sender(k) \in Hops(k[2]) /\ Ahead(Onto(k[2], Sender(k))) = Routers \ Ahead(k)
    BY <1>1, SenderFacts
  <2>3. x[k[2]][e] \in Hops(k[2]) => P \cap Ahead(Onto(k[2], x[k[2]][e])) # {}
    BY <1>1 DEF KnowsTheWay
  <2>4. P \cap (Routers \ Ahead(k)) # {}
    BY <2>1, <2>2, <2>3
  <2>5. QED
    BY <1>2, <2>4
<1>4. Alive(q[k], e) = {}
  BY <1>1, <1>2 DEF KnowsTheWay
<1>5. QED
  BY <1>3, <1>4

LEMMA AttachedApart ==
  ASSUME NEW q, NEW x, NEW e, NEW m, NEW P \in SUBSET Routers, KnowsTheWay(q, x, P, e), NEW r \in Routers,
         AtMostTwo(P \cup {r}), NEW h, Apart(P, Copies(q, m), Onwards(q, x, P, e, m), h)
  PROVE  Apart(P \cup {r}, Copies(q, m), Onwards(q, x, P \cup {r}, e, m), None)
<1> DEFINE Q == P \cup {r}
           C == Copies(q, m)
           W == Onwards(q, x, P, e, m)
           V == Onwards(q, x, Q, e, m)
<1>1. CASE r \in P
  <2>1. Q = P
    BY <1>1
  <2>2. QED
    BY <2>1 DEF Apart
<1>2. CASE r \notin P
  <2>1. AtMostOne(P)
    BY <1>2 DEF AtMostOne, AtMostTwo
  <2>2. \A c \in C : c \in W => c \in V
    BY MorePlaces DEF Onwards
  <2>3. ASSUME NEW c \in C PROVE c \in V
    <3>1. CASE P \cap Ahead(c[1]) = {}
      BY <2>2, <3>1 DEF Apart
    <3>2. CASE P \cap Ahead(c[1]) # {}
      <4>1. ClearFrom(q, x, P, e, c[1], c[2])
        BY <2>1, <3>2, OnePlaceClear
      <4>2. ClearFrom(q, x, Q, e, c[1], c[2])
        BY <4>1, MorePlaces
      <4>3. QED
        BY <4>2 DEF Onwards
    <3>3. QED
      BY <3>1, <3>2
  <2>4. \A c, d \in C : c # d => Ahead(c[1]) \cap Ahead(d[1]) = {}
    BY <2>1 DEF Apart
  <2> HIDE DEF C, V
  <2>5. Apart(Q, C, V, None)
    BY <2>3, <2>4 DEF Apart
  <2>6. QED
    BY <2>5 DEF C, V
<1>3. QED
  BY <1>1, <1>2
-----------------------------------------------------------------------------
(* A router takes what is at the head of l, and sends it as y to the hops N.*)

PassedOn(q, r, l, y, N) ==
    \A k \in Links :
        LET rest == IF k = l THEN Tail(q[k]) ELSE q[k]
        IN  r[k] = IF \E n \in N : k = Onto(l[2], n) THEN Append(rest, y) ELSE rest

(* The same, before the message is taken from l.                           *)
Before(q, l, y, N) == [k \in Links |-> IF \E n \in N : k = Onto(l[2], n) THEN Append(q[k], y) ELSE q[k]]

(* A hop that is not the sender is not l.                                  *)
LEMMA OntoNotBack ==
  ASSUME NEW l \in Links, NEW n \in Hops(l[2])
  PROVE  Onto(l[2], n) # l /\ Onto(l[2], n) \in Links
<1>1. Onto(l[2], n) \in RouterLinks /\ Onto(l[2], n)[1] = l[2]
  BY AheadFacts, HopFacts
<1>2. l \in RouterLinks => l[1] # l[2]
  BY AheadFacts
<1>3. QED
  BY <1>1, <1>2, AheadFacts DEF RouterLinks

(* How b, the queues before the message is taken, and r compare.           *)
BeforeThat(q, r, b, l, y, N, e) ==
    /\ b \in Queues /\ b[l] = q[l] /\ r[l] = Tail(q[l])
    /\ \A k \in Links : /\ b[k] = q[k] \/ (b[k] = Append(q[k], y) /\ \E n \in N : k = Onto(l[2], n))
                        /\ (\E n \in N : k = Onto(l[2], n)) => b[k] = Append(q[k], y)
                        /\ k # l => r[k] = b[k]
    /\ \A k \in Links : KeptBy(IF k = l THEN Later(1) ELSE Later(0), r[k], b[k], e)
    /\ \A k \in Links : Kept(r[k], b[k], e)

LEMMA BeforeFacts ==
  ASSUME NEW q \in Queues, NEW r \in Queues, NEW l \in Links, q[l] # <<>>, NEW y \in Messages,
         NEW N \in SUBSET Hops(l[2]), PassedOn(q, r, l, y, N), NEW e
  PROVE  BeforeThat(q, r, Before(q, l, y, N), l, y, N, e)
<1> DEFINE b == Before(q, l, y, N)
           To(k) == \E n \in N : k = Onto(l[2], n)
<1>1. \A k \in Links : b[k] = IF To(k) THEN Append(q[k], y) ELSE q[k]
  BY DEF Before
<1>2. ~To(l)
  BY OntoNotBack
<1>3. \A k \in Links : q[k] \in Seq(Messages) /\ r[k] \in Seq(Messages)
  BY DEF Queues
<1>4. \A k \in Links : Append(q[k], y) \in Seq(Messages)
  BY <1>3, AppendProperties
<1>5. b \in Queues
  BY <1>3, <1>4 DEF Queues, Before
<1>6. b[l] = q[l] /\ r[l] = Tail(q[l])
  BY <1>1, <1>2 DEF PassedOn
<1>7. ASSUME NEW k \in Links, k # l PROVE r[k] = b[k]
  BY <1>1, <1>7 DEF PassedOn
<1> HIDE DEF b, To
<1>8. ASSUME NEW k \in Links
      PROVE  /\ KeptBy(IF k = l THEN Later(1) ELSE Later(0), r[k], b[k], e)
             /\ Kept(r[k], b[k], e)
  <2>1. CASE k = l
    BY <1>3, <1>6, <2>1, TailKept
  <2>2. CASE k # l
    BY <1>3, <1>7, <2>2, SameKept
  <2>3. QED
    BY <2>1, <2>2
<1>9. ASSUME NEW k \in Links
      PROVE  /\ b[k] = q[k] \/ (b[k] = Append(q[k], y) /\ To(k))
             /\ To(k) => b[k] = Append(q[k], y)
  BY <1>1
<1>10. BeforeThat(q, r, b, l, y, N, e)
  BY <1>5, <1>6, <1>7, <1>8, <1>9 DEF To, BeforeThat
<1>11. QED
  BY <1>10 DEF b

(* The announcement of e is taken and sent on.                             *)
LEMMA AlivePassed ==
  ASSUME NEW q \in Queues, NEW r \in Queues, NEW e \in Endpoints, NEW l \in Links, q[l] # <<>>,
         1 \in Alive(q[l], e), NEW y \in Messages, y.kind = "stillAlive", y.src = e,
         NEW N \in SUBSET (Hops(l[2]) \ {Sender(l)}), PassedOn(q, r, l, y, N),
         NEW x, NEW z, Noted(x, z, l, e), NEW P \in SUBSET Routers, KnowsTheWay(q, x, P, e)
  PROVE  /\ KnowsTheWay(r, z, P, e)
         /\ \A m, h : Dst[m] = e /\ Apart(P, Copies(q, m), Onwards(q, x, P, e, m), h) =>
                      Apart(P, Copies(r, m), Onwards(r, z, P, e, m), h)
<1> DEFINE b == Before(q, l, y, N)
           G == [k \in Links |-> IF k = l THEN Later(1) ELSE Later(0)]
<1>0. BeforeThat(q, r, b, l, y, N, e)
  BY BeforeFacts
<1> HIDE DEF b
<1>1. /\ b \in Queues /\ b[l] = q[l] /\ r[l] = Tail(q[l])
      /\ \A k \in Links : /\ b[k] = q[k] \/ (b[k] = Append(q[k], y) /\ \E n \in N : k = Onto(l[2], n))
                          /\ (\E n \in N : k = Onto(l[2], n)) => b[k] = Append(q[k], y)
                          /\ k # l => r[k] = b[k]
                          /\ KeptBy(IF k = l THEN Later(1) ELSE Later(0), r[k], b[k], e)
                          /\ Kept(r[k], b[k], e)
  BY <1>0 DEF BeforeThat
<1>2. SentOn(q, b, l, y)
  <2> DEFINE S == {Onto(l[2], n) : n \in N}
  <2>1. S \in SUBSET {Onto(l[2], n) : n \in Hops(l[2]) \ {Sender(l)}}
    OBVIOUS
  <2>2. \A k \in Links : b[k] = IF k \in S THEN Append(q[k], y) ELSE q[k]
    BY <1>1
  <2>3. QED
    BY <2>1, <2>2 DEF SentOn
<1>3. /\ KnowsTheWay(b, z, P, e)
      /\ \A k \in Links : \A i \in 1 .. Len(q[k]) :
            ClearFrom(q, x, P, e, k, i) /\ <<k, i>> # <<l, 1>> => ClearFrom(b, z, P, e, k, i)
  BY <1>2, AliveOn
<1>4. KnowsTheWay(r, z, P, e)
  <2>1. b \in Queues /\ \A k \in Links : Kept(r[k], b[k], e)
    BY <1>1
  <2>2. QED
    BY <1>3, <2>1, KeptKnows
<1>5. ASSUME NEW m, Dst[m] = e, NEW h, Apart(P, Copies(q, m), Onwards(q, x, P, e, m), h)
      PROVE  Apart(P, Copies(r, m), Onwards(r, z, P, e, m), h)
  <2>1. ASSUME NEW k \in Links
        PROVE  CopiesIn(b[k], m) = CopiesIn(q[k], m) /\ CopiesIn(q[k], m) \subseteq 1 .. Len(q[k])
    <3>1. q[k] \in Seq(Messages)
      BY DEF Queues
    <3>2. CopiesIn(Append(q[k], y), m) = CopiesIn(q[k], m)
      <4>1. CopiesIn(Append(q[k], y), m) =
               CopiesIn(q[k], m) \cup {i \in {Len(q[k]) + 1} : y.kind = "data" /\ y.id = m}
        BY <3>1, AppendSets
      <4>2. y.kind # "data"
        OBVIOUS
      <4>3. QED
        BY <4>1, <4>2
    <3>3. b[k] = q[k] \/ b[k] = Append(q[k], y)
      BY <1>1
    <3>4. CopiesIn(q[k], m) \subseteq 1 .. Len(q[k])
      BY <3>1, AppendSets
    <3>5. QED
      BY <3>2, <3>3, <3>4
  <2>2. 1 \notin CopiesIn(q[l], m)
    BY DEF Alive, CopiesIn
  <2>3. Copies(b, m) = Copies(q, m)
    BY <2>1 DEF Copies
  <2>4. ASSUME NEW c \in Copies(b, m)
        PROVE  c[1] \in Links /\ c[2] \in 1 .. Len(q[c[1]]) /\ <<c[1], c[2]>> # <<l, 1>>
    <3>1. PICK k \in Links : \E i \in CopiesIn(b[k], m) : c = <<k, i>>
      BY CopyFacts
    <3>2. PICK i \in CopiesIn(b[k], m) : c = <<k, i>>
      BY <3>1
    <3>3. c[1] = k /\ c[2] = i /\ i \in 1 .. Len(q[k])
      BY <2>1, <3>2
    <3>4. ~(k = l /\ i = 1)
      BY <2>1, <2>2
    <3>5. QED
      BY <3>3, <3>4
  <2>5. \A c \in Copies(b, m) : c \in Onwards(q, x, P, e, m) => c \in Onwards(b, z, P, e, m)
    BY <1>3, <2>3, <2>4 DEF Onwards
  <2>6. Apart(P, Copies(b, m), Onwards(b, z, P, e, m), h)
    <3> DEFINE C == Copies(b, m)
               W == Onwards(q, x, P, e, m)
               V == Onwards(b, z, P, e, m)
    <3>1. Apart(P, C, W, h) /\ \A c \in C : c \in W => c \in V
      BY <1>5, <2>3, <2>5
    <3> HIDE DEF C, W, V
    <3>2. Apart(P, C, V, h)
      BY <3>1 DEF Apart
    <3>3. QED
      BY <3>2 DEF C, V
  <2>7. ASSUME NEW k \in Links, NEW i \in CopiesIn(r[k], m) PROVE <<k, G[k][i]>> \in Copies(b, m)
    <3> DEFINE g == IF k = l THEN Later(1) ELSE Later(0)
    <3>1. KeptBy(g, r[k], b[k], e) /\ r[k] \in Seq(Messages) /\ b[k] \in Seq(Messages) /\ G[k] = g
      BY <1>1 DEF Queues
    <3> HIDE DEF g, G
    <3>2. g[i] \in CopiesIn(b[k], m)
      BY <1>5, <3>1, KeptAlive
    <3>3. QED
      BY <3>1, <3>2, CopyFacts
  <2>8. \A k \in Links : KeptBy(G[k], r[k], b[k], e)
    BY <1>1
  <2> HIDE DEF G
  <2>9. Copies(b, m) \in SUBSET Copies(b, m)
    OBVIOUS
  <2>10. QED
    BY <1>1, <1>5, <2>6, <2>7, <2>8, <2>9, KeptApart
<1>6. QED
  BY <1>4, <1>5
-----------------------------------------------------------------------------
(* A message for e is taken from l and sent on as y.                       *)

(* Something is sent over links in K, and makes new copies.                *)
SentTo(q, b, y, K) == \A k \in Links : b[k] = q[k] \/ (b[k] = Append(q[k], y) /\ k \in K)
NewCopies(q, K) == {<<k, Len(q[k]) + 1>> : k \in K}

LEMMA DataSent ==
  ASSUME NEW q \in Queues, NEW b \in Queues, NEW K, NEW y \in Messages, y.kind = "data",
         SentTo(q, b, y, K), NEW e, NEW x, NEW P
  PROVE  /\ SameAlive(q, b, e)
         /\ KnowsTheWay(q, x, P, e) => KnowsTheWay(b, x, P, e)
         /\ \A m : /\ Copies(b, m) \subseteq Copies(q, m) \cup NewCopies(q, K)
                   /\ y.id # m => Copies(b, m) \subseteq Copies(q, m)
                   /\ \A c \in Copies(b, m) :
                        c \in Onwards(q, x, P, e, m) => c \in Onwards(b, x, P, e, m)
<1>1. ASSUME NEW k \in Links PROVE Alive(b[k], e) = Alive(q[k], e)
  <2>1. q[k] \in Seq(Messages)
    BY DEF Queues
  <2>2. Alive(Append(q[k], y), e) =
           Alive(q[k], e) \cup {i \in {Len(q[k]) + 1} : y.kind = "stillAlive" /\ y.src = e}
    BY <2>1, AppendSets
  <2>3. y.kind # "stillAlive"
    OBVIOUS
  <2>4. Alive(Append(q[k], y), e) = Alive(q[k], e)
    BY <2>2, <2>3
  <2>5. QED
    BY <2>4 DEF SentTo
<1>2. SameAlive(q, b, e)
  BY <1>1 DEF RouterLinks, SameAlive
<1>3. ASSUME KnowsTheWay(q, x, P, e) PROVE KnowsTheWay(b, x, P, e)
  <2>1. \A k \in Links \ RouterLinks : Alive(b[k], e) # {} => k[1] = e /\ k[2] \in P
    BY <1>1, <1>3 DEF KnowsTheWay
  <2>2. QED
    BY <1>2, <1>3, <2>1, SameAliveKnows
<1>4. ASSUME NEW m, NEW k \in Links, NEW i \in CopiesIn(b[k], m)
      PROVE  \/ i \in CopiesIn(q[k], m)
             \/ y.id = m /\ i = Len(q[k]) + 1 /\ k \in K
  <2>1. q[k] \in Seq(Messages)
    BY DEF Queues
  <2>2. CopiesIn(Append(q[k], y), m) =
           CopiesIn(q[k], m) \cup {j \in {Len(q[k]) + 1} : y.kind = "data" /\ y.id = m}
    BY <2>1, AppendSets
  <2>3. QED
    BY <1>4, <2>2 DEF SentTo
<1>5. ASSUME NEW m, NEW c \in Copies(b, m)
      PROVE  c \in Copies(q, m) \/ (y.id = m /\ c \in NewCopies(q, K))
  <2>1. PICK k \in Links : \E i \in CopiesIn(b[k], m) : c = <<k, i>>
    BY <1>5, CopyFacts
  <2>2. PICK i \in CopiesIn(b[k], m) : c = <<k, i>>
    BY <2>1
  <2>3. CASE i \in CopiesIn(q[k], m)
    BY <2>2, <2>3, CopyFacts
  <2>4. CASE y.id = m /\ i = Len(q[k]) + 1 /\ k \in K
    BY <2>2, <2>4 DEF NewCopies
  <2>5. QED
    BY <1>4, <2>3, <2>4
<1>6. ASSUME NEW m, NEW c \in Copies(b, m), c \in Onwards(q, x, P, e, m)
      PROVE  c \in Onwards(b, x, P, e, m)
  <2>1. ClearFrom(q, x, P, e, c[1], c[2])
    BY <1>6 DEF Onwards
  <2>2. ClearFrom(b, x, P, e, c[1], c[2])
    BY <1>2, <2>1, SameAliveClear
  <2>3. QED
    BY <2>2 DEF Onwards
<1>7. QED
  BY <1>2, <1>3, <1>5, <1>6

(* What is behind the head of l is kept.                                   *)
LEMMA HeadTaken ==
  ASSUME NEW b \in Queues, NEW r \in Queues, NEW e, NEW l \in Links,
         \A k \in Links : KeptBy(IF k = l THEN Later(1) ELSE Later(0), r[k], b[k], e),
         NEW x, NEW P, NEW m, Dst[m] = e, NEW h, NEW C \in SUBSET Copies(b, m),
         Copies(b, m) \ {<<l, 1>>} \subseteq C,
         Apart(P, C, Onwards(b, x, P, e, m), h)
  PROVE  Apart(P, Copies(r, m), Onwards(r, x, P, e, m), h)
<1> DEFINE G == [k \in Links |-> IF k = l THEN Later(1) ELSE Later(0)]
<1>1. ASSUME NEW k \in Links, NEW i \in CopiesIn(r[k], m) PROVE <<k, G[k][i]>> \in C
  <2> DEFINE g == IF k = l THEN Later(1) ELSE Later(0)
  <2>1. KeptBy(g, r[k], b[k], e) /\ r[k] \in Seq(Messages) /\ b[k] \in Seq(Messages) /\ G[k] = g
    BY DEF Queues
  <2>2. k = l => g[i] # 1
    <3>1. i \in Nat /\ i # 0
      BY <1>1, <2>1 DEF CopiesIn
    <3>2. Later(1)[i] = i + 1
      BY <3>1 DEF Later
    <3>3. QED
      BY <3>1, <3>2
  <2> HIDE DEF g, G
  <2>3. g[i] \in CopiesIn(b[k], m)
    BY <1>1, <2>1, KeptAlive
  <2>4. <<k, g[i]>> \in Copies(b, m) /\ <<k, g[i]>> # <<l, 1>>
    BY <2>2, <2>3, CopyFacts
  <2>5. QED
    BY <2>1, <2>4
<1>2. \A k \in Links : KeptBy(G[k], r[k], b[k], e)
  OBVIOUS
<1> HIDE DEF G
<1>3. QED
  BY <1>1, <1>2, KeptApart
-----------------------------------------------------------------------------
(* Where the message goes, which is at the head of l, when routers with the*)
(* indices x send it to the hops N; g is the place where e has it, and h   *)
(* the one where it had it before.                                         *)
GoesOn(x, P, e, l, N, h, g) ==
    \/ N = {} /\ g = h
    \/ N = {} /\ l[2] \in P /\ g = l[2]
    \/ x[l[2]][e] \in Hops(l[2]) /\ N = {x[l[2]][e]} /\ g = h
    \/ x[l[2]][e] = None /\ Sender(l) \notin N /\ g = h

(* A copy that goes on in the direction of a place.                        *)
LEMMA PassedClear ==
  ASSUME NEW q, NEW b, NEW e, NEW x, NEW P, NEW l \in Links, NEW n \in Hops(l[2]), n # Sender(l),
         SameAlive(q, b, e),
         ClearFrom(q, x, P, e, l, 1), P \cap Ahead(l) \subseteq Ahead(Onto(l[2], n)), NEW i
  PROVE  ClearFrom(b, x, P, e, Onto(l[2], n), i)
<1> DEFINE o == Onto(l[2], n)
<1>1. o \in Links /\ Ahead(o) \subseteq Ahead(l) \ {l[2]} /\ l[2] \in Ahead(l)
  BY OnwardFacts, HopFacts, AheadFacts DEF RouterLinks
<1>2. P \cap Ahead(l) \subseteq Ahead(o)
  OBVIOUS
<1> HIDE DEF o
<1>3. ASSUME NEW k \in OnWay(P, o) PROVE x[k[2]][e] # Sender(k) /\ Alive(b[k], e) = {}
  <2>1. k \in Links /\ k \in OnWay(P, l) /\ k # l
    BY <1>1, <1>2 DEF OnWay, RouterLinks
  <2>2. x[k[2]][e] # Sender(k) /\ Alive(q[k], e) = {}
    BY <2>1 DEF ClearFrom
  <2>3. QED
    BY <2>1, <2>2 DEF SameAlive, OnWay
<1>4. ClearFrom(b, x, P, e, o, i)
  BY <1>3 DEF ClearFrom
<1>5. QED
  BY <1>4 DEF o

LEMMA DataOn ==
  ASSUME NEW q \in Queues, NEW b \in Queues, NEW l \in Links, NEW N \in SUBSET Hops(l[2]),
         NEW y \in Messages, y.kind = "data",
         SentTo(q, b, y, {Onto(l[2], n) : n \in N}),
         NEW e \in Endpoints, NEW m, NEW x, NEW P \in SUBSET Routers, AtMostTwo(P), KnowsTheWay(q, x, P, e),
         1 \in CopiesIn(q[l], m), NEW h \in P \cup {None}, NEW g, GoesOn(x, P, e, l, N, h, g),
         Apart(P, Copies(q, m), Onwards(q, x, P, e, m), h),
         \A n \in N : <<Onto(l[2], n), Len(q[Onto(l[2], n)]) + 1>> \in Copies(b, m)
  PROVE  Apart(P, Copies(b, m) \ {<<l, 1>>}, Onwards(b, x, P, e, m), g)
<1> DEFINE C == Copies(q, m)
           W == Onwards(q, x, P, e, m)
           V == Onwards(b, x, P, e, m)
           D == Copies(b, m) \ {<<l, 1>>}
           a == <<l, 1>>
           New(n) == <<Onto(l[2], n), Len(q[Onto(l[2], n)]) + 1>>
           S == {New(n) : n \in N}
<1>1. a \in C /\ a[1] = l /\ a[2] = 1 /\ l[2] \in Routers /\ l[2] \in Ahead(l)
  BY CopyFacts, AheadFacts
<1>2. SameAlive(q, b, e)
  BY DataSent
<1>3. Replaces(D, V, C, W, a, S)
  <2> DEFINE K == {Onto(l[2], n) : n \in N}
  <2>0. SentTo(q, b, y, K)
    OBVIOUS
  <2>3. NewCopies(q, K) = S
    BY DEF NewCopies
  <2> HIDE DEF K
  <2>1. Copies(b, m) \subseteq C \cup NewCopies(q, K)
    BY <2>0, DataSent
  <2>2. \A c \in Copies(b, m) : c \in W => c \in V
    BY <2>0, DataSent
  <2> HIDE DEF C, V, W, S
  <2>4. QED
    BY <2>1, <2>2, <2>3 DEF Replaces
<1>4. ASSUME NEW n \in N
      PROVE  New(n)[1] = Onto(l[2], n) /\ New(n) \in Copies(b, m) /\ n \in Hops(l[2])
  OBVIOUS
<1>5. ASSUME NEW n \in N, \A i : ClearFrom(b, x, P, e, Onto(l[2], n), i) PROVE New(n) \in V
  <2>1. New(n) \in Copies(b, m) /\ ClearFrom(b, x, P, e, New(n)[1], New(n)[2])
    BY <1>5
  <2> HIDE DEF New
  <2>2. QED
    BY <2>1 DEF Onwards
<1>6. Apart(P, C, W, h)
  OBVIOUS
<1> HIDE DEF C, W, V, D, a, New
<1>7. CASE N = {} /\ g = h
  <2>1. S = {}
    BY <1>7
  <2>2. Replaces(D, V, C, W, a, {})
    BY <1>3, <2>1
  <2>0. Spreads({}, V, a)
    BY DEF Spreads
  <2>3. Apart(P, D, V, h)
    BY <1>1, <1>6, <2>0, <2>2, FloodedApart
  <2>4. QED
    BY <1>7, <2>3 DEF D, V
<1>8. CASE N = {} /\ l[2] \in P /\ g = l[2]
  <2>1. S = {}
    BY <1>8
  <2>2. Replaces(D, V, C, W, a, {})
    BY <1>3, <2>1
  <2>3. Apart(P, D, V, g)
    BY <1>1, <1>6, <1>8, <2>2, TakenApart
  <2>4. QED
    BY <2>3 DEF D, V
<1>9. ASSUME NEW n, n = x[l[2]][e], n \in Hops(l[2]), N = {n}, g = h
      PROVE  Apart(P, D, V, g)
  <2>1. S = {New(n)} /\ n \in N /\ New(n)[1] = Onto(l[2], n)
    BY <1>4, <1>9
  <2>2. Replaces(D, V, C, W, a, {New(n)})
    BY <1>3, <2>1
  <2>3. P \cap Ahead(Onto(l[2], n)) # {}
    BY <1>1, <1>9 DEF KnowsTheWay
  <2>4. CASE n = Sender(l)
    <3>1. l \in RouterLinks
      BY <1>9, <2>4, AheadFacts, HopFacts, NoneIsNoRouter
    <3>2. a \notin W
      <4>1. l \in OnWay(P, l)
        BY <3>1 DEF OnWay
      <4>2. ~ClearFrom(q, x, P, e, a[1], a[2])
        BY <1>1, <1>9, <2>4, <4>1 DEF ClearFrom
      <4>3. QED
        BY <4>2 DEF W, Onwards
    <3>3. Ahead(Onto(l[2], n)) \cap Ahead(a[1]) = {}
      BY <1>1, <2>4, <3>1, SenderFacts
    <3>4. QED
      BY <1>1, <1>6, <1>9, <2>1, <2>2, <2>3, <3>2, <3>3, ReturnedApart
  <2>5. CASE n # Sender(l)
    <3>1. Ahead(Onto(l[2], n)) \subseteq Ahead(a[1])
      BY <1>1, <1>9, <2>5, OnwardFacts
    <3>2. ASSUME a \in W, P \cap Ahead(a[1]) \subseteq Ahead(Onto(l[2], n)) PROVE New(n) \in V
      <4>1. ClearFrom(q, x, P, e, l, 1)
        BY <1>1, <3>2 DEF W, Onwards
      <4>0. n \in Hops(l[2]) /\ n # Sender(l) /\ P \cap Ahead(l) \subseteq Ahead(Onto(l[2], n))
        BY <1>1, <1>9, <2>5, <3>2
      <4>2. \A i : ClearFrom(b, x, P, e, Onto(l[2], n), i)
        BY <1>2, <4>0, <4>1, PassedClear
      <4>3. QED
        BY <1>5, <2>1, <4>2
    <3> DEFINE c == New(n)
    <3>3. /\ Replaces(D, V, C, W, a, {c}) /\ Ahead(c[1]) \subseteq Ahead(a[1]) /\ P \cap Ahead(c[1]) # {}
          /\ a \in W /\ P \cap Ahead(a[1]) \subseteq Ahead(c[1]) => c \in V
      BY <2>1, <2>2, <2>3, <3>1, <3>2
    <3> HIDE DEF c
    <3>4. Apart(P, D, V, h)
      BY <1>1, <1>6, <3>3, PassedApart
    <3>5. QED
      BY <1>9, <3>4
  <2>6. QED
    BY <2>4, <2>5
<1>10. CASE x[l[2]][e] = None /\ Sender(l) \notin N /\ g = h
  <2>1. ASSUME NEW n \in N PROVE New(n) \in V /\ Ahead(New(n)[1]) \subseteq Ahead(a[1])
    <3>1. n \in Hops(l[2]) /\ n # Sender(l) /\ New(n)[1] = Onto(l[2], n)
      BY <1>4, <1>10
    <3>2. Ahead(Onto(l[2], n)) \subseteq Ahead(l)
      BY <3>1, OnwardFacts
    <3>3. Clear(q, x, P, e, Onto(l[2], n))
      BY <1>1, <1>10, <3>1 DEF KnowsTheWay
    <3>4. \A i : ClearFrom(b, x, P, e, Onto(l[2], n), i)
      BY <1>2, <3>3 DEF Clear, ClearFrom, OnWay, SameAlive
    <3>5. QED
      BY <1>1, <1>5, <3>1, <3>2, <3>4
  <2>2. \A c \in S : c \in V /\ Ahead(c[1]) \subseteq Ahead(a[1])
    BY <2>1
  <2>3. \A c, d \in S : c # d => Ahead(c[1]) \cap Ahead(d[1]) = {}
    <3>1. SUFFICES ASSUME NEW n \in N, NEW k \in N, New(n) # New(k)
                   PROVE  Ahead(New(n)[1]) \cap Ahead(New(k)[1]) = {}
      OBVIOUS
    <3>2. n # k
      BY <3>1
    <3>3. QED
      BY <1>1, <1>4, <3>2, HopsApart
  <2> HIDE DEF S
  <2>0. Spreads(S, V, a)
    BY <2>2, <2>3 DEF Spreads
  <2>4. Apart(P, D, V, h)
    BY <1>1, <1>3, <1>6, <2>0, FloodedApart
  <2>5. QED
    BY <1>10, <2>4 DEF D, V
<1>11. x[l[2]][e] \in Hops(l[2]) /\ N = {x[l[2]][e]} /\ g = h => Apart(P, D, V, g)
  BY <1>9
<1>12. QED
  BY <1>7, <1>8, <1>10, <1>11 DEF GoesOn, D, V
-----------------------------------------------------------------------------
LEMMA DataPassed ==
  ASSUME NEW q \in Queues, NEW r \in Queues, NEW l \in Links, q[l] # <<>>,
         NEW m, 1 \in CopiesIn(q[l], m), NEW y \in Messages, y.kind = "data", y.id = m,
         NEW N \in SUBSET Hops(l[2]), PassedOn(q, r, l, y, N),
         NEW e \in Endpoints, Dst[m] = e, NEW x, NEW P \in SUBSET Routers, KnowsTheWay(q, x, P, e)
  PROVE  /\ KnowsTheWay(r, x, P, e)
         /\ \A h \in P \cup {None} : \A g :
               GoesOn(x, P, e, l, N, h, g) /\ AtMostTwo(P) /\ Apart(P, Copies(q, m), Onwards(q, x, P, e, m), h)
               => Apart(P, Copies(r, m), Onwards(r, x, P, e, m), g)
         /\ \A o, h : Dst[o] = e /\ o # m /\ Apart(P, Copies(q, o), Onwards(q, x, P, e, o), h)
                      => Apart(P, Copies(r, o), Onwards(r, x, P, e, o), h)
<1> DEFINE b == Before(q, l, y, N)
<1>0. BeforeThat(q, r, b, l, y, N, e)
  BY BeforeFacts
<1> HIDE DEF b
<1>1. /\ b \in Queues /\ b[l] = q[l]
      /\ \A k \in Links : KeptBy(IF k = l THEN Later(1) ELSE Later(0), r[k], b[k], e)
      /\ \A k \in Links : Kept(r[k], b[k], e)
      /\ \A k \in Links : (\E n \in N : k = Onto(l[2], n)) => b[k] = Append(q[k], y)
  BY <1>0 DEF BeforeThat
<1> DEFINE K == {Onto(l[2], n) : n \in N}
<1>2. SentTo(q, b, y, K)
  BY <1>0 DEF BeforeThat, SentTo
<1>9. SentTo(q, b, y, {Onto(l[2], n) : n \in N})
  BY <1>2
<1> HIDE DEF K
<1>3. KnowsTheWay(b, x, P, e)
  BY <1>1, <1>2, DataSent
<1>4. KnowsTheWay(r, x, P, e)
  BY <1>1, <1>3, KeptKnows
<1>5. ASSUME NEW n \in N PROVE <<Onto(l[2], n), Len(q[Onto(l[2], n)]) + 1>> \in Copies(b, m)
  <2> DEFINE k == Onto(l[2], n)
  <2>1. k \in Links /\ l[2] \in Routers
    BY AheadFacts, HopFacts DEF RouterLinks
  <2>2. q[k] \in Seq(Messages) /\ b[k] = Append(q[k], y)
    BY <1>1, <2>1 DEF Queues
  <2> HIDE DEF k
  <2>3. CopiesIn(Append(q[k], y), m) =
           CopiesIn(q[k], m) \cup {i \in {Len(q[k]) + 1} : y.kind = "data" /\ y.id = m}
    BY <2>2, AppendSets
  <2>4. Len(q[k]) + 1 \in CopiesIn(b[k], m)
    BY <2>2, <2>3
  <2>5. <<k, Len(q[k]) + 1>> \in Copies(b, m)
    BY <2>1, <2>4, CopyFacts
  <2>6. QED
    BY <2>5 DEF k
<1>6. ASSUME NEW h \in P \cup {None}, NEW g, GoesOn(x, P, e, l, N, h, g), AtMostTwo(P),
             Apart(P, Copies(q, m), Onwards(q, x, P, e, m), h)
      PROVE  Apart(P, Copies(r, m), Onwards(r, x, P, e, m), g)
  <2> DEFINE C == Copies(b, m) \ {<<l, 1>>}
  <2>1. Apart(P, C, Onwards(b, x, P, e, m), g)
    BY <1>1, <1>9, <1>5, <1>6, DataOn
  <2>2. C \in SUBSET Copies(b, m) /\ Copies(b, m) \ {<<l, 1>>} \subseteq C
    OBVIOUS
  <2> HIDE DEF C
  <2>3. QED
    BY <1>1, <2>1, <2>2, HeadTaken
<1>7. ASSUME NEW o, Dst[o] = e, o # m, NEW h, Apart(P, Copies(q, o), Onwards(q, x, P, e, o), h)
      PROVE  Apart(P, Copies(r, o), Onwards(r, x, P, e, o), h)
  <2> DEFINE C == Copies(b, o)
             V == Onwards(b, x, P, e, o)
  <2>1. C \subseteq Copies(q, o) /\ \A c \in C : c \in Onwards(q, x, P, e, o) => c \in V
    BY <1>1, <1>2, <1>7, DataSent
  <2>2. Apart(P, C, V, h)
    <3> HIDE DEF C, V
    <3> QED
      BY <1>7, <2>1 DEF Apart
  <2>3. C \in SUBSET Copies(b, o) /\ Copies(b, o) \ {<<l, 1>>} \subseteq C
    OBVIOUS
  <2> HIDE DEF C
  <2>4. QED
    BY <1>1, <1>7, <2>2, <2>3, HeadTaken
<1>8. QED
  BY <1>4, <1>6, <1>7

(* What does not concern e is passed on.                                   *)
LEMMA OtherPassed ==
  ASSUME NEW q \in Queues, NEW r \in Queues, NEW l \in Links, q[l] # <<>>, NEW y \in Messages,
         NEW N, PassedOn(q, r, l, y, N), NEW e, ~Matters(y, e)
  PROVE  \A k \in Links : Kept(r[k], q[k], e)
<1> SUFFICES ASSUME NEW k \in Links PROVE Kept(r[k], q[k], e)
  OBVIOUS
<1> DEFINE rest == IF k = l THEN Tail(q[k]) ELSE q[k]
<1>1. q[k] \in Seq(Messages) /\ q[l] \in Seq(Messages)
  BY DEF Queues
<1>2. rest \in Seq(Messages) /\ Kept(rest, q[k], e)
  <2>1. CASE k = l
    <3>1. Tail(q[l]) \in Seq(Messages)
      BY <1>1
    <3>2. QED
      BY <1>1, <2>1, <3>1, TailKept
  <2>2. CASE k # l
    BY <1>1, <2>2, SameKept
  <2>3. QED
    BY <2>1, <2>2
<1>3. r[k] = rest \/ r[k] = Append(rest, y)
  BY DEF PassedOn
<1> HIDE DEF rest
<1>4. Kept(Append(rest, y), q[k], e)
  BY <1>1, <1>2, AppendKept
<1>5. QED
  BY <1>2, <1>3, <1>4
-----------------------------------------------------------------------------
(* What becomes of the queues under the steps that are not Fetch.          *)

(* Of s some is left.                                                      *)
Stays(t, s) == Within(t, s) /\ \A e : Kept(t, s, e)

LEMMA SameStays ==
  ASSUME NEW s \in Seq(Messages)
  PROVE  Stays(s, s) /\ Stays(<<>>, s)
  BY SameKept DEF Stays

LEMMA VanishStays ==
  ASSUME TypeOK, LinksAreThere, NEW e \in Endpoints, Vanish(e), NEW k \in Links
  PROVE  Stays(chan'[k], chan[k])
<1> DEFINE l == <<e, at[e]>>
<1>1. PICK n \in 0 .. Len(chan[l]) : chan' = [chan EXCEPT ![l] = SubSeq(@, 1, n)]
  BY DEF Vanish
<1>2. l \in Links
  BY DEF Vanish, LinksAreThere
<1> HIDE DEF l
<1>3. Stays(SubSeq(chan[l], 1, n), chan[l])
  BY <1>2, ChanType, PrefixKept DEF Stays
<1>4. chan[k] \in Seq(Messages) /\ chan'[k] = IF k = l THEN SubSeq(chan[l], 1, n) ELSE chan[k]
  BY <1>1, ChanType DEF TypeOK
<1>5. QED
  BY <1>3, <1>4, SameStays

LEMMA AttachStays ==
  ASSUME TypeOK, NEW e \in Endpoints, NEW r \in Routers, Attach(e, r), NEW k \in Links
  PROVE  Stays(chan'[k], chan[k])
<1>1. chan[k] \in Seq(Messages) /\ (chan'[k] = chan[k] \/ chan'[k] = <<>>)
  BY ChanType DEF Attach, TypeOK
<1>2. QED
  BY <1>1, SameStays

LEMMA RemoveStays ==
  ASSUME TypeOK, NEW r \in Routers, RemoveDisconnected(r), NEW k \in Links
  PROVE  Stays(chan'[k], chan[k])
<1>1. chan[k] \in Seq(Messages) /\ (chan'[k] = chan[k] \/ chan'[k] = <<>>)
  BY ChanType DEF RemoveDisconnected
<1>2. QED
  BY <1>1, SameStays

LEMMA LoseParentStays ==
  ASSUME TypeOK, LinksAreThere, NEW r \in Routers, LoseParent(r), NEW k \in Links
  PROVE  Stays(chan'[k], chan[k])
<1> DEFINE up == <<r, Parent[r]>>
           down == <<Parent[r], r>>
<1>1. up \in Links /\ down \in Links /\ up # down
  BY ParentLinks DEF LoseParent, LinksAreThere
<1>2. PICK i \in 1 .. Len(chan[up]) + 1 :
         chan' = [chan EXCEPT ![down] = <<>>, ![up] = SubSeq(@, i, Len(@))]
  BY DEF LoseParent
<1> HIDE DEF up, down
<1> DEFINE t == SubSeq(chan[up], i, Len(chan[up]))
<1>3. Stays(t, chan[up])
  BY <1>1, ChanType, SuffixKept DEF Stays
<1>4. chan' = [chan EXCEPT ![down] = <<>>, ![up] = t]
  BY <1>1, <1>2
<1> HIDE DEF t
<1>5. /\ chan[k] \in Seq(Messages)
      /\ chan'[k] = chan[k] \/ chan'[k] = <<>> \/ (k = up /\ chan'[k] = t)
  BY <1>1, <1>4, ChanType DEF TypeOK
<1>6. QED
  BY <1>3, <1>5, SameStays

LEMMA AdoptStays ==
  ASSUME TypeOK, NEW r \in Routers, AdoptRouter(r), NEW k \in Links
  PROVE  /\ Special("confirmId", Parent[r]) \in Messages
         /\ \/ Stays(chan'[k], chan[k])
            \/ chan'[k] = Append(chan[k], Special("confirmId", Parent[r]))
<1> DEFINE up == <<r, Parent[r]>>
           down == <<Parent[r], r>>
           x == Special("confirmId", Parent[r])
<1>1. up \in Links /\ down \in Links /\ up # down /\ Parent[r] \in Routers /\ Parent[r] # None
  BY ParentLinks DEF AdoptRouter
<1>2. x \in Messages
  BY <1>1, SpecialIsMessage DEF Kinds
<1>3. PICK i \in 1 .. Len(chan[up]) :
         chan' = [chan EXCEPT ![up] = SubSeq(@, 1, i - 1) \o SubSeq(@, i + 1, Len(@)),
                              ![down] = Append(@, x)]
  BY DEF AdoptRouter
<1> HIDE DEF up, down, x
<1> DEFINE t == SubSeq(chan[up], 1, i - 1) \o SubSeq(chan[up], i + 1, Len(chan[up]))
           d == Append(chan[down], x)
<1>4. Stays(t, chan[up])
  BY <1>1, ChanType, RemovedKept DEF Stays
<1>5. chan' = [chan EXCEPT ![up] = t, ![down] = d]
  BY <1>1, <1>3
<1> HIDE DEF t, d
<1>6. /\ chan[k] \in Seq(Messages)
      /\ chan'[k] = chan[k] \/ (k = up /\ chan'[k] = t) \/ (k = down /\ chan'[k] = d)
  BY <1>1, <1>5, ChanType DEF TypeOK
<1>7. QED
  BY <1>2, <1>4, <1>6, SameStays DEF d, x
-----------------------------------------------------------------------------
(* The messages on the links, the tables and the data are sane.            *)

(* Something that stays, and perhaps a message of which this is true.      *)
Gains(k, t, s) ==
    \E u : /\ Stays(u, s)
           /\ \/ t = u
              \/ \E x \in Messages : /\ t = Append(u, x) /\ SaneOn(k, x, byes')
                                     /\ x.kind = "data" => x.id \in posted'

LEMMA GainsFacts ==
  ASSUME NEW k, NEW s \in Seq(Messages), NEW t, Gains(k, t, s), NEW i \in 1 .. Len(t)
  PROVE  \/ \E j \in 1 .. Len(s) : t[i] = s[j]
         \/ SaneOn(k, t[i], byes') /\ (t[i].kind = "data" => t[i].id \in posted')
<1>1. PICK u : /\ Stays(u, s)
               /\ \/ t = u
                  \/ \E x \in Messages : /\ t = Append(u, x) /\ SaneOn(k, x, byes')
                                         /\ x.kind = "data" => x.id \in posted'
  BY DEF Gains
<1>2. u \in Seq(Messages) /\ \A n \in 1 .. Len(u) : \E j \in 1 .. Len(s) : u[n] = s[j]
  BY <1>1 DEF Stays, Within
<1>3. CASE t = u
  BY <1>2, <1>3
<1>4. ASSUME NEW x \in Messages, t = Append(u, x), SaneOn(k, x, byes'),
             x.kind = "data" => x.id \in posted'
      PROVE  \/ \E j \in 1 .. Len(s) : t[i] = s[j]
             \/ SaneOn(k, t[i], byes') /\ (t[i].kind = "data" => t[i].id \in posted')
  <2>1. /\ Len(t) = Len(u) + 1 /\ Len(u) \in Nat
        /\ \A n \in 1 .. Len(u) : t[n] = u[n]
        /\ t[Len(u) + 1] = x
    BY <1>2, <1>4, AppendProperties
  <2>2. i \in 1 .. Len(u) \/ i = Len(u) + 1
    BY <2>1
  <2>3. CASE i \in 1 .. Len(u)
    BY <1>2, <2>1, <2>3
  <2>4. CASE i = Len(u) + 1
    BY <1>4, <2>1, <2>4
  <2>5. QED
    BY <2>2, <2>3, <2>4
<1>5. QED
  BY <1>1, <1>3, <1>4

LEMMA SaneQueuesStep ==
  ASSUME TypeOK, Sane, posted \subseteq posted', byes => byes',
         \A k \in Links : Gains(k, chan'[k], chan[k])
  PROVE  /\ SaneQueues'
         /\ \A m \in Data \ posted' : \A l \in Links : CopiesIn(chan'[l], m) = {}
<1>1. ASSUME NEW k \in Links, NEW i \in 1 .. Len(chan'[k])
      PROVE  \/ \E j \in 1 .. Len(chan[k]) : chan'[k][i] = chan[k][j]
             \/ SaneOn(k, chan'[k][i], byes') /\ (chan'[k][i].kind = "data" => chan'[k][i].id \in posted')
  BY ChanType, GainsFacts
<1>2. ASSUME NEW k \in Links, NEW i \in 1 .. Len(chan'[k]) PROVE SaneOn(k, chan'[k][i], byes')
  <2>1. CASE \E j \in 1 .. Len(chan[k]) : chan'[k][i] = chan[k][j]
    <3>1. SaneOn(k, chan'[k][i], byes)
      BY <2>1 DEF Sane, SaneQueues
    <3>2. QED
      BY <3>1 DEF SaneOn
  <2>2. QED
    BY <1>1, <2>1
<1>3. ASSUME NEW m \in Data \ posted', NEW k \in Links, NEW i \in CopiesIn(chan'[k], m)
      PROVE  FALSE
  <2>1. i \in 1 .. Len(chan'[k]) /\ chan'[k][i].kind = "data" /\ chan'[k][i].id = m
    BY <1>3 DEF CopiesIn
  <2>2. PICK j \in 1 .. Len(chan[k]) : chan'[k][i] = chan[k][j]
    BY <1>1, <2>1
  <2>3. j \in CopiesIn(chan[k], m) /\ m \in Data \ posted
    BY <2>1, <2>2 DEF CopiesIn
  <2>4. QED
    BY <2>3 DEF Sane, PostedOnly
<1>4. QED
  BY <1>2, <1>3 DEF SaneQueues
-----------------------------------------------------------------------------
(* What is fetched from a link, and what the router does with it.          *)
Took(l, x, out) ==
    \/ x.kind = "data" /\ out = Route(l[2], Sender(l), x) /\ UNCHANGED <<leaving, blocking, idx>>
    \/ /\ x.kind = "stillAlive" /\ out = Route(l[2], Sender(l), x)
       /\ Update(l[2], x.src, Sender(l)) /\ UNCHANGED <<leaving, blocking>>
    \/ x.kind \in {"announceId", "confirmId"} /\ UNCHANGED <<leaving, blocking, idx>>
    \/ /\ x.kind = "msgBlkList" /\ out = {} /\ Update(l[2], x.src, l[1])
       /\ blocking' = [blocking EXCEPT ![l[2]] = @ \cup {l[1]}] /\ leaving' = leaving
    \/ x.kind = "byeBye" /\ blocking' = blocking

LEMMA TookFacts ==
  ASSUME TypeOK, ConfirmationFirst, NEW l \in Links, Fetch(l)
  PROVE  /\ \E in, out : Fetched(l, Head(chan[l]), in, out) /\ Took(l, Head(chan[l]), out)
         /\ UNCHANGED <<nodes, recent>>
<1> DEFINE x == Head(chan[l])
           r == l[2]
<1>0. l = <<l[1], r>> /\ r \in Routers
  BY LinkEnds
<1>1. CASE l[1] # Parent[r] /\ HandleNodeMessage(r, l[1])
  <2>0. Sender(l) = l[1]
    BY <1>1 DEF Sender
  <2>1. CASE RouteData(r, l[1], l, x)
    BY <1>0, <1>1, <2>0, <2>1 DEF HandleNodeMessage, RouteData, Fetched, Took, tableVars
  <2>2. CASE HandleStillAlive(r, l[1], l, x)
    BY <1>0, <1>1, <2>0, <2>2 DEF HandleNodeMessage, HandleStillAlive, Fetched, Took, tableVars
  <2>3. CASE HandleAnnouncement(r, l[1], l, x)
    BY <1>0, <1>1, <2>0, <2>3 DEF HandleNodeMessage, HandleAnnouncement, Fetched, Took, tableVars
  <2>4. CASE HandleMsgBlock(r, l[1], l, x)
    BY <1>0, <1>1, <2>0, <2>4 DEF HandleNodeMessage, HandleMsgBlock, Fetched, Took
  <2>5. CASE HandleByeBye(r, l[1], l, x)
    BY <1>0, <1>1, <2>0, <2>5 DEF HandleNodeMessage, HandleByeBye, Fetched, Took
  <2>6. QED
    BY <1>0, <1>1, <2>1, <2>2, <2>3, <2>4, <2>5 DEF HandleNodeMessage
<1>2. CASE l[1] = Parent[r] /\ HandleParentMessage(r)
  <2> DEFINE in == IF confirmed[r] THEN r ELSE None
  <2>0. Sender(l) = r /\ l = <<Parent[r], r>> /\ chan[l] # <<>> /\ Parent[r] # None
    BY <1>0, <1>2, LinkEnds, NoneIsNoRouter DEF Sender, HandleParentMessage
  <2>1. x.kind # "confirmId" => in = r
    <3>1. SUFFICES ASSUME ~confirmed[r] PROVE x.kind = "confirmId"
      OBVIOUS
    <3>2. QED
      BY <1>0, <2>0, <3>1 DEF ConfirmationFirst
  <2>2. CASE HandleConfirmId(r, l, x)
    BY <1>0, <1>2, <2>0, <2>2 DEF HandleParentMessage, HandleConfirmId, Fetched, Took, tableVars
  <2>3. CASE HandleParentsBye(r, l, x)
    BY <1>0, <1>2, <2>0, <2>3 DEF HandleParentMessage, HandleParentsBye, Fetched, Took, tableVars
  <2>4. CASE RouteData(r, in, l, x) /\ UNCHANGED confirmed
    <3>1. in = r
      BY <2>1, <2>4 DEF RouteData
    <3>2. QED
      BY <1>0, <1>2, <2>0, <2>4, <3>1 DEF HandleParentMessage, RouteData, Fetched, Took, tableVars
  <2>5. CASE HandleStillAlive(r, in, l, x) /\ UNCHANGED confirmed
    <3>1. in = r
      BY <2>1, <2>5 DEF HandleStillAlive
    <3>2. QED
      BY <1>0, <1>2, <2>0, <2>5, <3>1 DEF HandleParentMessage, HandleStillAlive, Fetched, Took, tableVars
  <2>6. CASE HandleAnnouncement(r, in, l, x) /\ UNCHANGED confirmed
    <3>1. in = r
      BY <2>1, <2>6 DEF HandleAnnouncement
    <3>2. QED
      BY <1>0, <1>2, <2>0, <2>6, <3>1 DEF HandleParentMessage, HandleAnnouncement, Fetched, Took, tableVars
  <2>7. QED
    BY <1>2, <2>0, <2>2, <2>3, <2>4, <2>5, <2>6 DEF HandleParentMessage
<1>3. QED
  BY <1>1, <1>2 DEF Fetch

(* The hops to which a router sends what goes to out.                      *)
HopsIn(r, out) == {n \in Hops(r) \cap out : n \in Children(r) => linked[n]}

LEMMA HopsOut ==
  ASSUME NEW r \in Routers, NEW out
  PROVE  \A k : k \in OutLinks(r, out) <=> \E n \in HopsIn(r, out) : k = Onto(r, n)
<1>1. r \notin Children(r)
  BY BelowChild
<1>2. ASSUME NEW k, k \in OutLinks(r, out) PROVE \E n \in HopsIn(r, out) : k = Onto(r, n)
  <2>1. CASE \E n \in out \cap Children(r) : linked[n] /\ k = <<r, n>>
    <3>1. PICK n \in out \cap Children(r) : linked[n] /\ k = <<r, n>>
      BY <2>1
    <3>2. n # r /\ n \in HopsIn(r, out) /\ k = Onto(r, n)
      BY <1>1, <3>1 DEF HopsIn, Hops, Onto
    <3>3. QED
      BY <3>2
  <2>2. CASE r \in out /\ Parent[r] # None /\ k = <<r, Parent[r]>>
    <3>1. r \in HopsIn(r, out) /\ k = Onto(r, r)
      BY <1>1, <2>2 DEF HopsIn, Hops, Onto
    <3>2. QED
      BY <3>1
  <2>3. QED
    BY <1>2, <2>1, <2>2 DEF OutLinks
<1>3. ASSUME NEW n \in HopsIn(r, out) PROVE Onto(r, n) \in OutLinks(r, out)
  <2>1. CASE n = r
    BY <1>1, <2>1 DEF HopsIn, Hops, Onto, OutLinks
  <2>2. CASE n # r
    BY <2>2 DEF HopsIn, Hops, Onto, OutLinks
  <2>3. QED
    BY <2>1, <2>2
<1>4. QED
  BY <1>2, <1>3

LEMMA FetchPasses ==
  ASSUME TypeOK, NEW l \in Links, NEW x, NEW in, NEW out, Fetched(l, x, in, out)
  PROVE  /\ chan \in Queues /\ chan' \in Queues /\ chan[l] # <<>> /\ chan[l][1] = x /\ 1 \in 1 .. Len(chan[l])
         /\ x \in Messages
         /\ \E y \in Messages : /\ y.kind = x.kind /\ y.id = x.id /\ y.src = x.src /\ y.dst = x.dst
                                /\ PassedOn(chan, chan', l, y, HopsIn(l[2], out))
<1>1. chan \in Queues /\ chan' \in Queues /\ x \in Messages
  BY ForwardFacts DEF Queues, TypeOK
<1>2. chan[l] # <<>> /\ chan[l] \in Seq(Messages) /\ x = Head(chan[l])
  BY ChanType DEF Fetched
<1>3. chan[l][1] = x /\ 1 \in 1 .. Len(chan[l])
  BY <1>2, EmptySeq
<1>4. WithHop(x).src = x.src
  BY <1>1 DEF WithHop, Messages
<1>5. \A k : k \in OutLinks(l[2], out) <=> \E n \in HopsIn(l[2], out) : k = Onto(l[2], n)
  BY HopsOut, LinkEnds
<1>6. CASE OutLinks(l[2], out) \cap Links = {}
  <2>1. PassedOn(chan, chan', l, x, HopsIn(l[2], out))
    <3> SUFFICES ASSUME NEW k \in Links
                 PROVE  LET rest == IF k = l THEN Tail(chan[k]) ELSE chan[k]
                        IN  chan'[k] = IF \E n \in HopsIn(l[2], out) : k = Onto(l[2], n)
                                       THEN Append(rest, x) ELSE rest
      BY DEF PassedOn
    <3> DEFINE To == \E n \in HopsIn(l[2], out) : k = Onto(l[2], n)
    <3>1. ~To /\ k \notin OutLinks(l[2], out)
      BY <1>5, <1>6
    <3>2. chan'[k] = IF k = l THEN Tail(chan[k]) ELSE chan[k]
      BY <3>1, ForwardFacts
    <3> HIDE DEF To
    <3>3. chan'[k] = IF To THEN Append(IF k = l THEN Tail(chan[k]) ELSE chan[k], x)
                     ELSE IF k = l THEN Tail(chan[k]) ELSE chan[k]
      BY <3>1, <3>2
    <3>4. QED
      BY <3>3 DEF To
  <2>2. QED
    BY <1>1, <1>2, <1>3, <2>1
<1>7. CASE OutLinks(l[2], out) \cap Links # {}
  <2> DEFINE y == WithHop(x)
  <2>0. PICK j \in Links : j \in OutLinks(l[2], out)
    BY <1>7
  <2>1. y \in Messages /\ y.kind = x.kind /\ y.id = x.id /\ y.dst = x.dst
    BY <2>0, ForwardFacts
  <2>2. PassedOn(chan, chan', l, y, HopsIn(l[2], out))
    <3> SUFFICES ASSUME NEW k \in Links
                 PROVE  LET rest == IF k = l THEN Tail(chan[k]) ELSE chan[k]
                        IN  chan'[k] = IF \E n \in HopsIn(l[2], out) : k = Onto(l[2], n)
                                       THEN Append(rest, y) ELSE rest
      BY DEF PassedOn
    <3> DEFINE To == \E n \in HopsIn(l[2], out) : k = Onto(l[2], n)
               rest == IF k = l THEN Tail(chan[k]) ELSE chan[k]
    <3>1. To <=> k \in OutLinks(l[2], out)
      BY <1>5
    <3>2. k \in OutLinks(l[2], out) => chan'[k] = Append(rest, y)
      BY ForwardFacts
    <3>3. k \notin OutLinks(l[2], out) => chan'[k] = rest
      BY ForwardFacts
    <3> HIDE DEF To, rest
    <3>4. chan'[k] = IF To THEN Append(rest, y) ELSE rest
      BY <3>1, <3>2, <3>3
    <3>5. QED
      BY <3>4 DEF To, rest
  <2> HIDE DEF y
  <2>3. QED
    BY <1>1, <1>2, <1>3, <1>4, <2>1, <2>2 DEF y
<1>8. QED
  BY <1>6, <1>7
-----------------------------------------------------------------------------
LEMMA StaysGains ==
  ASSUME NEW k, NEW s, NEW t, Stays(t, s)
  PROVE  Gains(k, t, s)
  BY DEF Gains

LEMMA SentGains ==
  ASSUME TypeOK, NEW l \in Links, NEW x \in Messages, Send(l, x), SaneOn(l, x, byes'),
         x.kind = "data" => x.id \in posted', NEW k \in Links
  PROVE  Gains(k, chan'[k], chan[k])
<1>1. Stays(chan[k], chan[k])
  BY ChanType, SameStays
<1>2. chan'[k] = chan[k] \/ (k = l /\ chan'[k] = Append(chan[k], x))
  BY SendFacts
<1>3. QED
  BY <1>1, <1>2 DEF Gains

LEMMA FetchGains ==
  ASSUME TypeOK, Sane, NEW l \in Links, NEW x, NEW in, NEW out, Fetched(l, x, in, out),
         x.kind = "msgBlkList" => out = {}, NEW k \in Links
  PROVE  Gains(k, chan'[k], chan[k])
<1>1. PICK y \in Messages : /\ y.kind = x.kind /\ y.id = x.id /\ y.src = x.src /\ y.dst = x.dst
                            /\ PassedOn(chan, chan', l, y, HopsIn(l[2], out))
  BY FetchPasses
<1>2. /\ chan[l] # <<>> /\ chan[l][1] = x /\ 1 \in 1 .. Len(chan[l])
      /\ SaneOn(l, x, byes)
  BY FetchPasses DEF Sane, SaneQueues
<1>3. byes' = byes /\ posted' = posted
  BY DEF Fetched
<1>4. x.kind = "data" => x.id \in posted
  <2>1. SUFFICES ASSUME x.kind = "data", x.id \notin posted PROVE FALSE
    OBVIOUS
  <2>2. x.id \in Data \ posted
    BY <1>2, <2>1 DEF SaneOn
  <2>3. 1 \in CopiesIn(chan[l], x.id)
    BY <1>2, <2>1 DEF CopiesIn
  <2>4. QED
    BY <2>2, <2>3 DEF Sane, PostedOnly
<1> DEFINE rest == IF k = l THEN Tail(chan[k]) ELSE chan[k]
<1>5. Stays(rest, chan[k])
  <2>1. chan[k] \in Seq(Messages)
    BY ChanType
  <2>2. CASE k = l
    BY <1>2, <2>1, <2>2, TailKept DEF Stays
  <2>3. CASE k # l
    BY <2>1, <2>3, SameStays
  <2>4. QED
    BY <2>2, <2>3
<1>6. \/ chan'[k] = rest
      \/ chan'[k] = Append(rest, y) /\ \E n \in HopsIn(l[2], out) : k = Onto(l[2], n)
  BY <1>1 DEF PassedOn
<1> HIDE DEF rest
<1>7. ASSUME NEW n \in HopsIn(l[2], out), k = Onto(l[2], n) PROVE SaneOn(k, y, byes')
  <2>1. n \in Hops(l[2]) /\ out # {}
    BY <1>7 DEF HopsIn
  <2>2. k[1] \in Routers /\ k[1] \notin Endpoints
    BY <1>7, <2>1, HopFacts, LinkEnds, NoneIsNoRouter
  <2>3. QED
    BY <1>1, <1>2, <1>3, <2>1, <2>2 DEF SaneOn
<1>8. CASE chan'[k] = rest
  BY <1>5, <1>8 DEF Gains
<1>9. CASE chan'[k] = Append(rest, y) /\ \E n \in HopsIn(l[2], out) : k = Onto(l[2], n)
  <2>1. SaneOn(k, y, byes') /\ (y.kind = "data" => y.id \in posted')
    BY <1>1, <1>3, <1>4, <1>7, <1>9
  <2>2. QED
    BY <1>5, <1>9, <2>1 DEF Gains
<1>10. QED
  BY <1>6, <1>8, <1>9

LEMMA SaneFetch ==
  ASSUME TypeOK, ConfirmationFirst, Sane, NEW l \in Links, Fetch(l)
  PROVE  Sane'
<1> DEFINE x == Head(chan[l])
<1>1. PICK in, out : Fetched(l, x, in, out) /\ Took(l, x, out)
  BY TookFacts
<1>2. UNCHANGED <<nodes, recent>> /\ byes' = byes /\ posted' = posted
  BY <1>1, TookFacts DEF Fetched
<1>3. SaneOn(l, x, byes) /\ l[2] \in Routers
  <2>1. chan[l][1] = x /\ 1 \in 1 .. Len(chan[l])
    BY <1>1, FetchPasses
  <2> HIDE DEF x
  <2>2. QED
    BY <2>1, LinkEnds DEF Sane, SaneQueues
<1>0. 1 \in CopiesIn(chan[l], x.id) \/ x.kind # "data"
  <2>1. chan[l][1] = x /\ 1 \in 1 .. Len(chan[l])
    BY <1>1, FetchPasses
  <2> HIDE DEF x
  <2>2. QED
    BY <2>1 DEF CopiesIn
<1> HIDE DEF x
<1>4. \A k \in Links : Gains(k, chan'[k], chan[k])
  <2>1. x.kind = "msgBlkList" => out = {}
    BY <1>1 DEF Took
  <2>2. QED
    BY <1>1, <2>1, FetchGains
<1>5. SaneTables'
  <2>1. ASSUME NEW r \in Routers, ~byes' PROVE leaving'[r] = {}
    <3>1. x.kind # "byeBye"
      BY <1>2, <1>3, <2>1 DEF SaneOn
    <3>2. leaving' = leaving
      BY <1>1, <3>1 DEF Took
    <3>3. QED
      BY <1>2, <2>1, <3>2 DEF Sane, SaneTables
  <2>2. ASSUME NEW r \in Routers PROVE blocking'[r] \cap Routers = {}
    <3>1. CASE x.kind = "msgBlkList"
      <4>1. blocking' = [blocking EXCEPT ![l[2]] = @ \cup {l[1]}] /\ l[1] \in Endpoints
        BY <1>1, <1>3, <3>1 DEF Took, SaneOn
      <4>2. QED
        BY <4>1, NoneIsNoRouter DEF TypeOK, Sane, SaneTables
    <3>2. CASE x.kind # "msgBlkList"
      <4>1. blocking' = blocking
        BY <1>1, <3>2 DEF Took
      <4>2. QED
        BY <4>1 DEF Sane, SaneTables
    <3>3. QED
      BY <3>1, <3>2
  <2>3. QED
    BY <1>2, <2>1, <2>2 DEF Sane, SaneTables
<1>6. ASSUME NEW m \in Data \ posted', NEW e \in Endpoints PROVE got'[e][m] = 0
  <2>1. ~(x.kind = "data" /\ x.id = m)
    BY <1>0, <1>2, <1>6 DEF Sane, PostedOnly
  <2>2. Quiet(m)
    BY <1>1, <2>1, OtherIsQuiet
  <2>3. QED
    BY <1>2, <1>6, <2>2 DEF Quiet, Sane, PostedOnly
<1>7. QED
  BY <1>2, <1>4, <1>5, <1>6, SaneQueuesStep DEF Sane, PostedOnly

LEMMA SaneEndpoint ==
  ASSUME TypeOK, LinksAreThere, Sane, NEW e \in Endpoints, EndpointStep(e)
  PROVE  Sane'
<1>1. ASSUME NEW m \in Data, Post(e, m) PROVE Sane'
  <2> DEFINE x == [kind |-> "data", id |-> m, src |-> e, dst |-> Dst[m], hops |-> 0]
             l == <<e, at[e]>>
  <2>1. x \in Messages /\ x.kind = "data" /\ x.id = m /\ x.dst = Dst[m]
    BY RoutingAssumption DEF Messages, Kinds
  <2>2. l \in Links /\ posted' = posted \cup {m} /\ byes' = byes /\ Send(l, x)
    BY <1>1 DEF Post, LinksAreThere
  <2> HIDE DEF x, l
  <2>3. SaneOn(l, x, byes')
    BY <2>1 DEF SaneOn
  <2>4. \A k \in Links : Gains(k, chan'[k], chan[k])
    BY <2>1, <2>2, <2>3, SentGains
  <2>5. SaneTables' /\ got' = got
    BY <1>1 DEF Post, tableVars, Sane, SaneTables
  <2>6. QED
    BY <2>2, <2>4, <2>5, SaneQueuesStep DEF Sane, PostedOnly
<1>2. ASSUME NEW k \in {"stillAlive", "msgBlkList", "byeBye"}, at[e] # None,
             Send(<<e, at[e]>>, Special(k, e)), k = "byeBye" => byes', byes => byes',
             UNCHANGED <<nodes, leaving, recent, blocking, posted, got>>
      PROVE  Sane'
  <2> DEFINE x == Special(k, e)
             l == <<e, at[e]>>
  <2>1. x \in Messages /\ x.kind = k /\ x.src = e /\ x.dst = All
    BY SpecialIsMessage DEF Special, Kinds
  <2>2. l \in Links /\ l[1] = e /\ Send(l, x)
    BY <1>2 DEF LinksAreThere
  <2> HIDE DEF x, l
  <2>3. SaneOn(l, x, byes')
    BY <1>2, <2>1, <2>2 DEF SaneOn
  <2>4. \A j \in Links : Gains(j, chan'[j], chan[j])
    BY <1>2, <2>1, <2>2, <2>3, SentGains
  <2>5. SaneTables'
    BY <1>2 DEF Sane, SaneTables
  <2>6. QED
    BY <1>2, <2>4, <2>5, SaneQueuesStep DEF Sane, PostedOnly
<1>3. CASE StillAlive(e) \/ Block(e) \/ SayBye(e)
  BY <1>2, <1>3 DEF StillAlive, Block, SayBye, tableVars
<1>4. CASE Vanish(e)
  <2>1. \A k \in Links : Gains(k, chan'[k], chan[k])
    BY <1>4, VanishStays, StaysGains
  <2>2. SaneTables' /\ got' = got /\ posted' = posted /\ byes' = byes
    BY <1>4 DEF Vanish, tableVars, Sane, SaneTables
  <2>3. QED
    BY <2>1, <2>2, SaneQueuesStep DEF Sane, PostedOnly
<1>5. ASSUME NEW r \in Routers, Attach(e, r) PROVE Sane'
  <2>1. \A k \in Links : Gains(k, chan'[k], chan[k])
    BY <1>5, AttachStays, StaysGains
  <2>2. posted' = posted /\ byes' = byes /\ leaving' = leaving /\ blocking' = blocking
        /\ nodes' = [nodes EXCEPT ![r] = @ \cup {e}]
        /\ got' = [got EXCEPT ![e] = [m \in Data |-> 0]]
    BY <1>5 DEF Attach
  <2>3. \A b \in Routers : nodes'[b] \cap Routers = nodes[b] \cap Routers
    BY <2>2, NoneIsNoRouter DEF TypeOK
  <2>4. SaneTables'
    BY <2>2, <2>3 DEF Sane, SaneTables
  <2>5. \A f \in Endpoints : \A m \in Data : got'[f][m] = got[f][m] \/ got'[f][m] = 0
    BY <2>2 DEF TypeOK
  <2>6. QED
    BY <2>1, <2>2, <2>4, <2>5, SaneQueuesStep DEF Sane, PostedOnly
<1>6. QED
  BY <1>1, <1>3, <1>4, <1>5 DEF EndpointStep

LEMMA SaneRouter ==
  ASSUME TypeOK, LinksAreThere, Sane, NEW r \in Routers, RouterStep(r)
  PROVE  Sane'
<1>1. posted' = posted /\ got' = got /\ byes' = byes
  BY DEF RouterStep, RemoveDisconnected, RecentExpires, LoseParent, AnnounceId, AdoptRouter
<1>2. SaneTables'
  <2>1. CASE RemoveDisconnected(r)
    <3>1. /\ nodes' = [nodes EXCEPT ![r] = @ \ leaving[r]]
          /\ blocking' = [blocking EXCEPT ![r] = @ \ leaving[r]]
          /\ leaving' = [leaving EXCEPT ![r] = {}]
          /\ leaving[r] \cap Routers = {}
      BY <2>1, NoneIsNoRouter DEF RemoveDisconnected, TypeOK
    <3>2. \A b \in Routers : /\ nodes'[b] \cap Routers = nodes[b] \cap Routers
                             /\ blocking'[b] \cap Routers \subseteq blocking[b] \cap Routers
                             /\ leaving'[b] = leaving[b] \/ leaving'[b] = {}
      BY <3>1 DEF TypeOK
    <3>3. QED
      BY <1>1, <3>2 DEF Sane, SaneTables
  <2>2. CASE RecentExpires(r) \/ LoseParent(r) \/ AnnounceId(r) \/ AdoptRouter(r)
    <3>1. UNCHANGED <<nodes, leaving, blocking, byes>>
      BY <2>2 DEF RecentExpires, LoseParent, AnnounceId, AdoptRouter, tableVars
    <3>2. QED
      BY <3>1 DEF Sane, SaneTables
  <2>3. QED
    BY <2>1, <2>2 DEF RouterStep
<1>3. ASSUME NEW k \in Links PROVE Gains(k, chan'[k], chan[k])
  <2>1. CASE RemoveDisconnected(r) \/ LoseParent(r)
    BY <2>1, RemoveStays, LoseParentStays, StaysGains
  <2>2. CASE RecentExpires(r)
    <3>1. chan'[k] = chan[k]
      BY <2>2 DEF RecentExpires
    <3>2. QED
      BY <3>1, ChanType, SameStays, StaysGains
  <2>3. CASE AnnounceId(r)
    <3> DEFINE l == <<r, Parent[r]>>
               x == Special("announceId", r)
    <3>1. l \in Links /\ x \in Messages /\ Send(l, x) /\ x.kind = "announceId" /\ x.dst = All
      BY <2>3, ParentLinks, SpecialIsMessage DEF AnnounceId, Kinds, Special
    <3> HIDE DEF l, x
    <3>2. SaneOn(l, x, byes')
      BY <3>1 DEF SaneOn
    <3>3. QED
      BY <3>1, <3>2, SentGains
  <2>4. CASE AdoptRouter(r)
    <3> DEFINE x == Special("confirmId", Parent[r])
    <3>1. x \in Messages /\ (Stays(chan'[k], chan[k]) \/ chan'[k] = Append(chan[k], x))
      BY <2>4, AdoptStays
    <3>2. x.kind = "confirmId" /\ x.dst = All
      BY DEF Special
    <3> HIDE DEF x
    <3>3. SaneOn(k, x, byes')
      BY <3>2 DEF SaneOn
    <3>4. Stays(chan[k], chan[k])
      BY ChanType, SameStays
    <3>5. QED
      BY <3>1, <3>2, <3>3, <3>4 DEF Gains
  <2>5. QED
    BY <2>1, <2>2, <2>3, <2>4 DEF RouterStep
<1>4. QED
  BY <1>1, <1>2, <1>3, SaneQueuesStep DEF Sane, PostedOnly

LEMMA SaneStep == TypeOK /\ LinksAreThere /\ ConfirmationFirst /\ Sane /\ [Next]_vars => Sane'
<1> SUFFICES ASSUME TypeOK, LinksAreThere, ConfirmationFirst, Sane, [Next]_vars PROVE Sane'
  OBVIOUS
<1>1. CASE UNCHANGED vars
  BY <1>1 DEF vars, tableVars, Sane, SaneQueues, SaneTables, PostedOnly, CopiesIn
<1>2. QED
  BY <1>1, SaneFetch, SaneEndpoint, SaneRouter DEF Next
-----------------------------------------------------------------------------
(* CopiesPart for places P, queues q, indices x, where e is at a and has   *)
(* got g.                                                                  *)
PartFor(P, a, q, x, g, e) ==
    /\ P # {} /\ a \in P \cup {None}
    /\ KnowsTheWay(q, x, P, e)
    /\ AtMostTwo(P) => \A m \in Data : Dst[m] = e =>
          g[m] <= 1 /\ Apart(P, Copies(q, m), Onwards(q, x, P, e, m), IF g[m] > 0 THEN a ELSE None)

LEMMA PartNow ==
  ASSUME NEW e
  PROVE  CopiesPart(e) <=> PartFor(Places(e), at[e], chan, idx, got[e], e)
  BY DEF CopiesPart, PartFor, GotAt

LEMMA PartThen ==
  ASSUME NEW e
  PROVE  PartFor(Places(e)', at'[e], chan', idx', got'[e], e) => CopiesPart(e)'
  BY DEF CopiesPart, PartFor, GotAt, KnowsTheWay, Clear, ClearFrom, OnWay, Alive, Copies, CopiesIn,
         Onwards, Apart, AtMostTwo, AtMostOne, Places

-----------------------------------------------------------------------------
(* A step that does not concern e.                                         *)
SameIndex(x, z, e) == \A r \in Routers : z[r][e] = x[r][e]

LEMMA SameIndexFacts ==
  ASSUME NEW x, NEW z, NEW e, SameIndex(x, z, e), NEW q, NEW P
  PROVE  /\ KnowsTheWay(q, x, P, e) => KnowsTheWay(q, z, P, e)
         /\ \A m : Onwards(q, x, P, e, m) \subseteq Onwards(q, z, P, e, m)
<1>1. \A l : \A k \in OnWay(P, l) : z[k[2]][e] = x[k[2]][e]
  BY AheadFacts DEF OnWay, RouterLinks, SameIndex
<1>2. \A l : Clear(q, x, P, e, l) => Clear(q, z, P, e, l)
  BY <1>1 DEF Clear
<1>3. \A l, i : ClearFrom(q, x, P, e, l, i) => ClearFrom(q, z, P, e, l, i)
  BY <1>1 DEF ClearFrom
<1>4. \A m : Onwards(q, x, P, e, m) \subseteq Onwards(q, z, P, e, m)
  BY <1>3 DEF Onwards
<1>5. ASSUME KnowsTheWay(q, x, P, e) PROVE KnowsTheWay(q, z, P, e)
  <2>1. \A r \in Routers : z[r][e] = None => \A n \in Hops(r) : Clear(q, z, P, e, Onto(r, n))
    BY <1>2, <1>5 DEF KnowsTheWay, SameIndex
  <2>2. \A r \in Routers :
           /\ z[r][e] \in {None, e} \cup Hops(r)
           /\ z[r][e] = e => r \in P
           /\ z[r][e] \in Hops(r) => P \cap Ahead(Onto(r, z[r][e])) # {}
    BY <1>5 DEF KnowsTheWay, SameIndex
  <2>3. \A l \in Links : Alive(q[l], e) # {} =>
          IF l \in RouterLinks THEN ~(P \subseteq Ahead(l)) ELSE l[1] = e /\ l[2] \in P
    BY <1>5 DEF KnowsTheWay
  <2>4. QED
    BY <2>1, <2>2, <2>3 DEF KnowsTheWay
<1>6. QED
  BY <1>4, <1>5

LEMMA WeakerApart ==
  ASSUME NEW P, NEW C, NEW W, NEW h, Apart(P, C, W, h), NEW D \in SUBSET C,
         NEW V, \A c \in D : c \in W => c \in V, NEW g \in {h, None}
  PROVE  Apart(P, D, V, g)
  BY DEF Apart

LEMMA KeptStaysApart ==
  ASSUME NEW q \in Queues, NEW r \in Queues, NEW e, \A l \in Links : Kept(r[l], q[l], e),
         NEW x, NEW P, NEW m, Dst[m] = e, NEW h, Apart(P, Copies(q, m), Onwards(q, x, P, e, m), h)
  PROVE  Apart(P, Copies(r, m), Onwards(r, x, P, e, m), h)
<1> DEFINE G == [l \in Links |-> CHOOSE g : KeptBy(g, r[l], q[l], e)]
           C == Copies(q, m)
<1>1. ASSUME NEW l \in Links PROVE KeptBy(G[l], r[l], q[l], e)
  <2>1. \E g : KeptBy(g, r[l], q[l], e)
    BY DEF Kept
  <2>2. KeptBy(CHOOSE g : KeptBy(g, r[l], q[l], e), r[l], q[l], e)
    BY <2>1
  <2>3. QED
    BY <2>2
<1> HIDE DEF G
<1>2. ASSUME NEW l \in Links, NEW i \in CopiesIn(r[l], m) PROVE <<l, G[l][i]>> \in C
  <2>1. q[l] \in Seq(Messages) /\ r[l] \in Seq(Messages) /\ KeptBy(G[l], r[l], q[l], e)
    BY <1>1 DEF Queues
  <2> DEFINE g == G[l]
  <2>2. KeptBy(g, r[l], q[l], e)
    BY <2>1
  <2> HIDE DEF g
  <2>3. g[i] \in CopiesIn(q[l], m)
    BY <1>2, <2>1, <2>2, KeptAlive
  <2>4. QED
    BY <2>3, CopyFacts DEF g
<1>3. C \in SUBSET Copies(q, m) /\ Apart(P, C, Onwards(q, x, P, e, m), h)
  OBVIOUS
<1> HIDE DEF C
<1>4. QED
  BY <1>1, <1>2, <1>3, KeptApart

LEMMA StillFor ==
  ASSUME NEW q \in Queues, NEW r \in Queues, NEW e, \A l \in Links : Kept(r[l], q[l], e),
         NEW x, NEW z, SameIndex(x, z, e), NEW P, NEW a, NEW g, PartFor(P, a, q, x, g, e),
         NEW b \in {a, None}, NEW s, \A m \in Data : Dst[m] = e => s[m] = g[m]
  PROVE  PartFor(P, b, r, z, s, e)
<1>1. KnowsTheWay(r, z, P, e)
  <2>1. KnowsTheWay(q, x, P, e)
    BY DEF PartFor
  <2>2. KnowsTheWay(r, x, P, e)
    BY <2>1, KeptKnows
  <2>3. QED
    BY <2>2, SameIndexFacts
<1>2. ASSUME AtMostTwo(P), NEW m \in Data, Dst[m] = e
      PROVE  /\ s[m] <= 1
             /\ Apart(P, Copies(r, m), Onwards(r, z, P, e, m), IF s[m] > 0 THEN b ELSE None)
  <2> DEFINE h == IF g[m] > 0 THEN a ELSE None
             k == IF s[m] > 0 THEN b ELSE None
             C == Copies(r, m)
             W == Onwards(r, x, P, e, m)
             V == Onwards(r, z, P, e, m)
  <2>1. g[m] <= 1 /\ s[m] = g[m] /\ Apart(P, Copies(q, m), Onwards(q, x, P, e, m), h)
    BY <1>2 DEF PartFor
  <2>2. k \in {h, None}
    BY <2>1
  <2> HIDE DEF h, k
  <2>3. Apart(P, C, W, h)
    BY <1>2, <2>1, KeptStaysApart
  <2>4. C \in SUBSET C /\ \A c \in C : c \in W => c \in V
    BY SameIndexFacts
  <2> HIDE DEF C, W, V
  <2>5. Apart(P, C, V, k)
    BY <2>2, <2>3, <2>4, WeakerApart
  <2>6. QED
    BY <2>1, <2>5 DEF C, V, k
<1>3. QED
  BY <1>1, <1>2 DEF PartFor
-----------------------------------------------------------------------------
(* A message for e is posted.                                              *)
LEMMA PostedFor ==
  ASSUME NEW q \in Queues, NEW r \in Queues, NEW k \in Links \ RouterLinks, NEW e,
         NEW y \in Messages, y.kind = "data", SentTo(q, r, y, {k}),
         \A l \in Links : CopiesIn(q[l], y.id) = {},
         NEW x, NEW P \in SUBSET Routers, NEW a, NEW g, g[y.id] = 0, PartFor(P, a, q, x, g, e)
  PROVE  PartFor(P, a, r, x, g, e)
<1>1. P # {} /\ a \in P \cup {None} /\ KnowsTheWay(q, x, P, e) /\ KnowsTheWay(r, x, P, e)
  BY DataSent DEF PartFor
<1>2. ASSUME AtMostTwo(P), NEW m \in Data, Dst[m] = e
      PROVE  /\ g[m] <= 1
             /\ Apart(P, Copies(r, m), Onwards(r, x, P, e, m), IF g[m] > 0 THEN a ELSE None)
  <2> DEFINE h == IF g[m] > 0 THEN a ELSE None
             C == Copies(q, m)
             W == Onwards(q, x, P, e, m)
             D == Copies(r, m)
             V == Onwards(r, x, P, e, m)
  <2>1. g[m] <= 1 /\ Apart(P, C, W, h)
    BY <1>2 DEF PartFor
  <2>2. \A c \in D : c \in W => c \in V
    BY DataSent
  <2>3. CASE m # y.id
    <3>1. D \in SUBSET C
      BY <2>3, DataSent
    <3> HIDE DEF h, C, W, D, V
    <3>2. Apart(P, D, V, h)
      BY <2>1, <2>2, <3>1, WeakerApart
    <3>3. QED
      BY <2>1, <3>2 DEF D, V, h
  <2>4. CASE m = y.id
    <3> DEFINE n == <<k, Len(q[k]) + 1>>
    <3>1. D \subseteq {n}
      <4>1. D \subseteq C \cup NewCopies(q, {k})
        BY DataSent
      <4>2. C = {}
        BY <2>4 DEF Copies
      <4>3. NewCopies(q, {k}) = {n}
        BY DEF NewCopies
      <4>4. QED
        BY <4>1, <4>2, <4>3
    <3>2. P \cap Ahead(n[1]) # {}
      <4>1. Ahead(k) = Routers
        BY AheadFacts
      <4>2. QED
        BY <1>1, <4>1
    <3>3. h = None
      BY <2>4
    <3> HIDE DEF h, C, W, D, V, n
    <3>4. Apart(P, D, V, h)
      BY <3>1, <3>2, <3>3 DEF Apart
    <3>5. QED
      BY <2>1, <3>4 DEF D, V, h
  <2>5. QED
    BY <2>3, <2>4
<1>3. QED
  BY <1>1, <1>2 DEF PartFor

(* The queues hold the same copies for e, and the same announcements on the*)
(* links between routers.                                                  *)
LEMMA SameFor ==
  ASSUME NEW q \in Queues, NEW r \in Queues, NEW e, SameAlive(q, r, e),
         \A l \in Links, m \in Data : CopiesIn(r[l], m) = CopiesIn(q[l], m),
         NEW x, NEW P, NEW a, NEW g, PartFor(P, a, q, x, g, e), KnowsTheWay(r, x, P, e)
  PROVE  PartFor(P, a, r, x, g, e)
<1>1. ASSUME AtMostTwo(P), NEW m \in Data, Dst[m] = e
      PROVE  /\ g[m] <= 1
             /\ Apart(P, Copies(r, m), Onwards(r, x, P, e, m), IF g[m] > 0 THEN a ELSE None)
  <2> DEFINE h == IF g[m] > 0 THEN a ELSE None
             C == Copies(q, m)
             W == Onwards(q, x, P, e, m)
             D == Copies(r, m)
             V == Onwards(r, x, P, e, m)
  <2>1. g[m] <= 1 /\ Apart(P, C, W, h)
    BY <1>1 DEF PartFor
  <2>2. D = C
    BY DEF Copies
  <2>3. \A c \in D : c \in W => c \in V
    BY <2>2, SameAliveClear DEF Onwards
  <2>4. h \in {h, None} /\ D \in SUBSET C
    BY <2>2
  <2> HIDE DEF h, C, W, D, V
  <2>5. Apart(P, D, V, h)
    BY <2>1, <2>3, <2>4, WeakerApart
  <2>6. QED
    BY <2>1, <2>5 DEF D, V, h
<1>2. QED
  BY <1>1 DEF PartFor

(* e says that it is alive, where it is.                                   *)
LEMMA AnnouncedFor ==
  ASSUME NEW q \in Queues, NEW r \in Queues, NEW e \in Endpoints, NEW a \in Routers, <<e, a>> \in Links,
         NEW y \in Messages, y.kind = "stillAlive",
         \A l \in Links : r[l] = IF l = <<e, a>> THEN Append(q[l], y) ELSE q[l],
         NEW x, NEW P, NEW g, PartFor(P, a, q, x, g, e)
  PROVE  PartFor(P, a, r, x, g, e)
<1>1. <<e, a>> \notin RouterLinks /\ a \in P /\ KnowsTheWay(q, x, P, e)
  BY NoneIsNoRouter DEF RouterLinks, PartFor
<1>2. SameAlive(q, r, e)
  BY <1>1 DEF SameAlive, RouterLinks
<1>3. ASSUME NEW l \in Links, NEW m \in Data PROVE CopiesIn(r[l], m) = CopiesIn(q[l], m)
  <2>1. q[l] \in Seq(Messages)
    BY DEF Queues
  <2>2. CopiesIn(Append(q[l], y), m) =
           CopiesIn(q[l], m) \cup {i \in {Len(q[l]) + 1} : y.kind = "data" /\ y.id = m}
    BY <2>1, AppendSets
  <2>3. y.kind # "data"
    OBVIOUS
  <2>4. QED
    BY <2>2, <2>3
<1>4. ASSUME NEW l \in Links \ RouterLinks, Alive(r[l], e) # {} PROVE l[1] = e /\ l[2] \in P
  <2>1. CASE l = <<e, a>>
    BY <1>1, <2>1
  <2>2. CASE l # <<e, a>>
    BY <1>1, <1>4, <2>2 DEF KnowsTheWay
  <2>3. QED
    BY <2>1, <2>2
<1>5. KnowsTheWay(r, x, P, e)
  BY <1>1, <1>2, <1>4, SameAliveKnows
<1>6. QED
  BY <1>2, <1>3, <1>5, SameFor

(* e comes back at b.                                                      *)
LEMMA AttachedFor ==
  ASSUME NEW q \in Queues, NEW r \in Queues, NEW e, \A l \in Links : Kept(r[l], q[l], e),
         NEW x, NEW P \in SUBSET Routers, NEW a, NEW g, PartFor(P, a, q, x, g, e),
         NEW b \in Routers, NEW s, \A m \in Data : s[m] = 0
  PROVE  PartFor(P \cup {b}, b, r, x, s, e)
<1> DEFINE Q == P \cup {b}
<1>1. KnowsTheWay(q, x, P, e)
  BY DEF PartFor
<1>2. KnowsTheWay(r, x, P, e)
  BY <1>1, KeptKnows
<1>3. KnowsTheWay(r, x, Q, e)
  BY <1>2, MorePlaces
<1>4. ASSUME AtMostTwo(Q), NEW m \in Data, Dst[m] = e
      PROVE  Apart(Q, Copies(r, m), Onwards(r, x, Q, e, m), None)
  <2>1. AtMostTwo(P)
    BY <1>4 DEF AtMostTwo
  <2> DEFINE h == IF g[m] > 0 THEN a ELSE None
  <2>2. Apart(P, Copies(q, m), Onwards(q, x, P, e, m), h)
    BY <1>4, <2>1 DEF PartFor
  <2> HIDE DEF h
  <2>3. Apart(P, Copies(r, m), Onwards(r, x, P, e, m), h)
    BY <1>4, <2>2, KeptStaysApart
  <2>4. QED
    BY <1>2, <1>4, <2>3, AttachedApart
<1>5. Q # {} /\ b \in Q \cup {None} /\ \A m \in Data : s[m] <= 1 /\ ~(s[m] > 0)
  OBVIOUS
<1> HIDE DEF Q
<1>6. PartFor(Q, b, r, x, s, e)
  BY <1>3, <1>4, <1>5 DEF PartFor
<1>7. QED
  BY <1>6 DEF Q
-----------------------------------------------------------------------------
(* Where a router sends a message for e.                                   *)
RouteFor(l, e, out) ==
    \/ out = {}
    \/ out = {e} /\ l[2] \in Places(e)
    \/ idx[l[2]][e] \in Hops(l[2]) /\ out = {idx[l[2]][e]}
    \/ idx[l[2]][e] = None /\ Sender(l) \notin out /\ e \notin out

LEMMA RouteCases ==
  ASSUME TypeOK, SaneTables, NEW e \in Endpoints, Undisturbed(e), NEW l \in Links,
         NEW x \in Messages, x.kind = "data", x.dst = e, KnowsTheWay(chan, idx, Places(e), e)
  PROVE  RouteFor(l, e, Route(l[2], Sender(l), x))
<1> DEFINE r == l[2]
           in == Sender(l)
           n == idx[r][e]
           byIndex == IF n = r THEN {r} ELSE {i \in {n} \cap nodes[r] : IsAllowed(r, i, x)}
           direct == {i \in {e} \cap nodes[r] : IsAllowed(r, i, x)}
           flood == IF e \in recent[r] THEN {} ELSE ((nodes[r] \cap Routers) \cup {r}) \ {in}
           out == IF byIndex # {} THEN byIndex ELSE IF direct # {} THEN direct ELSE flood
<1>1. r \in Routers /\ e # All /\ e \notin Routers /\ e # None /\ None \notin nodes[r]
  BY AheadFacts, RoutingAssumption DEF TypeOK
<1>2. Route(r, in, x) = {} \/ Route(r, in, x) = out
  BY <1>1 DEF Route, TargetedRoute
<1>3. /\ n \in {None, e} \cup Hops(r)
      /\ n = e => e \in nodes[r]
      /\ Hops(r) \subseteq Routers
  BY <1>1, HopFacts DEF KnowsTheWay, Places
<1>4. IsAllowed(r, e, x)
  BY <1>1 DEF IsAllowed, Undisturbed
<1>5. direct = {i \in {e} : e \in nodes[r]}
  BY <1>4
<1>6. ASSUME e \in nodes[r] PROVE r \in Places(e)
  BY <1>1, <1>6 DEF Places
<1>7. CASE n = r
  <2>0. r # None /\ r # e
    BY <1>1, NoneIsNoRouter
  <2>1. n \in Hops(r)
    BY <1>3, <1>7, <2>0
  <2>2. out = {n} /\ n \in Hops(r)
    BY <1>7, <2>1
  <2> HIDE DEF out
  <2>3. QED
    BY <1>2, <2>2 DEF RouteFor
<1>8. CASE n = None
  <2>0. n # r /\ n \notin nodes[r]
    BY <1>1, <1>8, NoneIsNoRouter
  <2>1. byIndex = {}
    BY <2>0
  <2>2. CASE e \in nodes[r]
    <3>1. out = {e} /\ r \in Places(e)
      BY <1>5, <1>6, <2>1, <2>2
    <3> HIDE DEF out
    <3>2. QED
      BY <1>2, <3>1 DEF RouteFor
  <2>3. CASE e \notin nodes[r]
    <3>1. out = flood /\ in \notin flood /\ e \notin flood
      BY <1>1, <1>5, <2>1, <2>3
    <3> HIDE DEF out
    <3>2. QED
      BY <1>2, <1>8, <3>1 DEF RouteFor
  <2>4. QED
    BY <2>2, <2>3
<1>9. CASE n = e
  <2>1. byIndex = {e}
    BY <1>1, <1>3, <1>4, <1>9
  <2>2. out = {e} /\ r \in Places(e)
    BY <1>3, <1>6, <1>9, <2>1
  <2> HIDE DEF out
  <2>3. QED
    BY <1>2, <2>2 DEF RouteFor
<1>10. CASE n \in Hops(r) /\ n # r
  <2>1. n \in nodes[r] /\ n \notin blocking[r]
    BY <1>1, <1>10, HopFacts DEF SaneTables
  <2>2. byIndex = {n}
    BY <1>10, <2>1 DEF IsAllowed
  <2>3. out = {n}
    BY <2>2
  <2> HIDE DEF out
  <2>4. QED
    BY <1>2, <1>10, <2>3 DEF RouteFor
<1>11. QED
  BY <1>3, <1>7, <1>8, <1>9, <1>10

(* A router fetches a message for e.                                       *)
LEMMA DataFetched ==
  ASSUME TypeOK, SaneTables, NEW e \in Endpoints, Undisturbed(e), CopiesPart(e), NEW l \in Links,
         NEW x, NEW in, NEW out, Fetched(l, x, in, out), x.kind = "data", x.dst = e, Dst[x.id] = e,
         x.id \in Data, RouteFor(l, e, out)
  PROVE  PartFor(Places(e), at[e], chan', idx, got'[e], e)
<1> DEFINE P == Places(e)
           m == x.id
           N == HopsIn(l[2], out)
           g == got[e]
           s == got'[e]
           a == at[e]
<1>1. /\ chan \in Queues /\ chan' \in Queues /\ chan[l] # <<>> /\ 1 \in CopiesIn(chan[l], m)
  BY FetchPasses DEF CopiesIn
<1>2. PICK y \in Messages : y.kind = "data" /\ y.id = m /\ PassedOn(chan, chan', l, y, N)
  BY FetchPasses
<1>3. N \in SUBSET Hops(l[2]) /\ N \subseteq out /\ l[2] \in Routers /\ P \in SUBSET Routers
      /\ Hops(l[2]) \subseteq Routers /\ e \notin Routers /\ e # None
  BY AheadFacts, HopFacts, NoneIsNoRouter DEF HopsIn, Places
<1>4. PartFor(P, a, chan, idx, g, e)
  BY PartNow
<1>5. /\ P # {} /\ a \in P \cup {None} /\ KnowsTheWay(chan, idx, P, e)
  BY <1>4 DEF PartFor
<1>6. /\ KnowsTheWay(chan', idx, P, e)
      /\ \A h \in P \cup {None} : \A k :
            GoesOn(idx, P, e, l, N, h, k) /\ AtMostTwo(P) /\ Apart(P, Copies(chan, m), Onwards(chan, idx, P, e, m), h)
            => Apart(P, Copies(chan', m), Onwards(chan', idx, P, e, m), k)
      /\ \A o, h : Dst[o] = e /\ o # m /\ Apart(P, Copies(chan, o), Onwards(chan, idx, P, e, o), h)
                   => Apart(P, Copies(chan', o), Onwards(chan', idx, P, e, o), h)
  <2> HIDE DEF P, N, m
  <2>1. Dst[m] = e
    BY DEF m
  <2>2. QED
    BY <1>1, <1>2, <1>3, <1>5, <2>1, DataPassed
<1>7. g \in [Data -> Nat]
  BY DEF TypeOK
<1>8. s = IF e \in out /\ a = l[2] THEN [g EXCEPT ![m] = @ + 1] ELSE g
  BY DEF Fetched, Forward, TypeOK
<1> HIDE DEF P, N
<1>9. ASSUME AtMostTwo(P), NEW o \in Data, Dst[o] = e
      PROVE  s[o] <= 1 /\ Apart(P, Copies(chan', o), Onwards(chan', idx, P, e, o), IF s[o] > 0 THEN a ELSE None)
  <2>1. g[o] <= 1 /\ Apart(P, Copies(chan, o), Onwards(chan, idx, P, e, o), IF g[o] > 0 THEN a ELSE None)
    BY <1>4, <1>9 DEF PartFor
  <2>2. CASE o # m
    <3>1. s[o] = g[o]
      BY <1>7, <1>8, <2>2
    <3>2. QED
      BY <1>6, <1>9, <2>1, <2>2, <3>1
  <2>3. CASE o = m
    <3> DEFINE h == IF g[m] > 0 THEN a ELSE None
               k == IF s[m] > 0 THEN a ELSE None
    <3>1. h \in P \cup {None} /\ Apart(P, Copies(chan, m), Onwards(chan, idx, P, e, m), h)
      BY <1>5, <2>1, <2>3
    <3>2. CASE e \in out
      <4>1. out = {e} /\ l[2] \in P /\ N = {}
        BY <1>3, <3>2 DEF RouteFor, P
      <4>2. CASE a = l[2]
        <5>1. h # l[2] \/ h = None
          <6>1. <<l, 1>> \in Copies(chan, m) /\ l[2] \in Ahead(l)
            BY <1>1, CopyFacts, AheadFacts
          <6> DEFINE c == <<l, 1>>
          <6>2. c \in Copies(chan, m) /\ l[2] \in Ahead(c[1])
            BY <6>1
          <6> HIDE DEF h, c
          <6>3. QED
            BY <3>1, <4>1, <6>2, NotDelivered
        <5>2. g[m] = 0
          BY <1>3, <1>7, <1>9, <2>3, <4>2, <5>1, NoneIsNoRouter
        <5>3. s[m] = 1 /\ k = l[2]
          BY <1>7, <1>8, <1>9, <2>3, <3>2, <4>2, <5>2
        <5>4. GoesOn(idx, P, e, l, N, h, k)
          BY <4>1, <5>3 DEF GoesOn
        <5> HIDE DEF h, k
        <5>5. Apart(P, Copies(chan', m), Onwards(chan', idx, P, e, m), k)
          BY <1>6, <1>9, <3>1, <5>4
        <5>6. QED
          BY <2>3, <5>3, <5>5 DEF k
      <4>3. CASE a # l[2]
        <5>1. s = g
          BY <1>8, <4>3
        <5>2. k = h
          BY <5>1
        <5>3. GoesOn(idx, P, e, l, N, h, k)
          BY <4>1, <5>2 DEF GoesOn
        <5> HIDE DEF h, k
        <5>4. Apart(P, Copies(chan', m), Onwards(chan', idx, P, e, m), k)
          BY <1>6, <1>9, <3>1, <5>3
        <5>5. QED
          BY <2>1, <2>3, <5>1, <5>4 DEF k
      <4>4. QED
        BY <4>2, <4>3
    <3>3. CASE e \notin out
      <4>1. s = g
        BY <1>8, <3>3
      <4>2. k = h
        BY <4>1
      <4>3. GoesOn(idx, P, e, l, N, h, k)
        <5>1. CASE out = {}
          BY <1>3, <4>2, <5>1 DEF GoesOn
        <5>2. CASE idx[l[2]][e] \in Hops(l[2]) /\ out = {idx[l[2]][e]}
          <6>1. N = {} \/ N = {idx[l[2]][e]}
            BY <1>3, <5>2
          <6>2. QED
            BY <4>2, <5>2, <6>1 DEF GoesOn
        <5>3. CASE idx[l[2]][e] = None /\ Sender(l) \notin out
          BY <1>3, <4>2, <5>3 DEF GoesOn
        <5>4. QED
          BY <3>3, <5>1, <5>2, <5>3 DEF RouteFor
      <4> HIDE DEF h, k
      <4>4. Apart(P, Copies(chan', m), Onwards(chan', idx, P, e, m), k)
        BY <1>6, <1>9, <3>1, <4>3
      <4>5. QED
        BY <2>1, <2>3, <4>1, <4>4 DEF k
    <3>4. QED
      BY <3>2, <3>3
  <2>4. QED
    BY <2>2, <2>3
<1>10. PartFor(P, a, chan', idx, s, e)
  BY <1>5, <1>6, <1>9 DEF PartFor
<1>11. QED
  BY <1>10 DEF P
-----------------------------------------------------------------------------
(* A step that adds nothing which concerns e.                              *)
Spares(e) ==
    /\ chan' \in Queues /\ \A l \in Links : Kept(chan'[l], chan[l], e)
    /\ SameIndex(idx, idx', e)
    /\ \A r \in Routers : e \in nodes'[r] <=> e \in nodes[r]
    /\ at'[e] = at[e] \/ at'[e] = None
    /\ \A m \in Data : Dst[m] = e => got'[e][m] = got[e][m]

LEMMA SparesPart ==
  ASSUME TypeOK, NEW e \in Endpoints, CopiesPart(e), Spares(e)
  PROVE  CopiesPart(e)'
<1> DEFINE q == chan
           r == chan'
           x == idx
           z == idx'
           P == Places(e)
           a == at[e]
           b == at'[e]
           g == got[e]
           s == got'[e]
<1>1. Places(e)' = P
  BY DEF Spares, Places
<1>2. q \in Queues /\ r \in Queues /\ \A l \in Links : Kept(r[l], q[l], e)
  BY DEF TypeOK, Queues, Spares
<1>3. SameIndex(x, z, e) /\ b \in {a, None} /\ \A m \in Data : Dst[m] = e => s[m] = g[m]
  BY DEF Spares
<1>4. PartFor(P, a, q, x, g, e)
  BY PartNow
<1>5. PartFor(P, b, r, z, s, e)
  <2> HIDE DEF q, r, x, z, P, a, b, g, s
  <2>1. q \in Queues /\ r \in Queues /\ b \in {a, None}
    BY <1>2, <1>3
  <2>2. \A l \in Links : Kept(r[l], q[l], e)
    BY <1>2
  <2>3. SameIndex(x, z, e) /\ \A m \in Data : Dst[m] = e => s[m] = g[m]
    BY <1>3
  <2> QED
    BY <1>4, <2>1, <2>2, <2>3, StillFor
<1>6. PartFor(Places(e)', at'[e], chan', idx', got'[e], e)
  BY <1>1, <1>5
<1>7. QED
  BY <1>6, PartThen

-----------------------------------------------------------------------------
(* A router fetches something.                                             *)
LEMMA AliveFetched ==
  ASSUME TypeOK, NEW e \in Endpoints, CopiesPart(e), NEW l \in Links,
         NEW x, NEW in, NEW out, Fetched(l, x, in, out), x.kind = "stillAlive", x.src = e,
         out = {} \/ Sender(l) \notin out, Update(l[2], x.src, Sender(l)), UNCHANGED nodes
  PROVE  CopiesPart(e)'
<1> DEFINE N == HopsIn(l[2], out)
           q == chan
           r == chan'
           w == idx
           z == idx'
           P == Places(e)
           g == got[e]
           a == at[e]
<1>1. /\ q \in Queues /\ r \in Queues /\ q[l] # <<>> /\ 1 \in Alive(q[l], e)
  BY FetchPasses DEF Alive
<1>2. PICK y \in Messages : y.kind = "stillAlive" /\ y.src = e /\ PassedOn(q, r, l, y, N)
  BY FetchPasses
<1>3. N \in SUBSET (Hops(l[2]) \ {Sender(l)}) /\ P \in SUBSET Routers
  BY DEF HopsIn, Places
<1>4. Noted(w, z, l, e)
  BY LinkEnds DEF Noted, Update, TypeOK
<1>5. PartFor(P, a, q, w, g, e)
  BY PartNow
<1>6. Places(e)' = P /\ at'[e] = a /\ got'[e] = g
  BY DEF Places, Fetched, Forward
<1> HIDE DEF N, q, r, w, z, P, g, a
<1>7. KnowsTheWay(q, w, P, e)
  BY <1>5 DEF PartFor
<1>8. /\ KnowsTheWay(r, z, P, e)
      /\ \A m, h : Dst[m] = e /\ Apart(P, Copies(q, m), Onwards(q, w, P, e, m), h) =>
                   Apart(P, Copies(r, m), Onwards(r, z, P, e, m), h)
  BY <1>1, <1>2, <1>3, <1>4, <1>7, AlivePassed
<1>9. PartFor(P, a, r, z, g, e)
  BY <1>5, <1>8 DEF PartFor
<1>10. PartFor(Places(e)', at'[e], chan', idx', got'[e], e)
  BY <1>6, <1>9 DEF r, z
<1>11. QED
  BY <1>10, PartThen

(* What the router fetches is no message for e, and not its announcement.  *)
LEMMA OtherFetched ==
  ASSUME TypeOK, NEW e \in Endpoints, CopiesPart(e), NEW l \in Links,
         NEW x, NEW in, NEW out, Fetched(l, x, in, out), ~Matters(x, e),
         SameIndex(idx, idx', e), UNCHANGED nodes
  PROVE  CopiesPart(e)'
<1>1. chan \in Queues /\ chan' \in Queues /\ chan[l] # <<>>
  BY FetchPasses
<1>2. PICK y \in Messages : /\ y.kind = x.kind /\ y.id = x.id /\ y.src = x.src
                            /\ PassedOn(chan, chan', l, y, HopsIn(l[2], out))
  BY FetchPasses
<1>3. ~Matters(y, e)
  BY <1>2 DEF Matters
<1>4. \A k \in Links : Kept(chan'[k], chan[k], e)
  BY <1>1, <1>2, <1>3, OtherPassed
<1>5. ASSUME NEW m \in Data, Dst[m] = e PROVE got'[e][m] = got[e][m]
  <2>1. got[e] \in [Data -> Nat]
    BY DEF TypeOK
  <2>2. \/ got'[e] = got[e]
        \/ x.kind = "data" /\ got'[e] = [got[e] EXCEPT ![x.id] = @ + 1]
    BY DEF Fetched, Forward
  <2>3. x.kind = "data" => x.id # m
    BY <1>5 DEF Matters
  <2>4. QED
    BY <2>1, <2>2, <2>3
<1>6. Spares(e)
  BY <1>1, <1>4, <1>5 DEF Spares, Fetched
<1>7. QED
  BY <1>6, SparesPart

LEMMA FetchPart ==
  ASSUME TypeOK, ConfirmationFirst, Sane, NEW l \in Links, Fetch(l),
         NEW e \in Endpoints, Undisturbed(e), Undisturbed(e)', CopiesPart(e)
  PROVE  CopiesPart(e)'
<1> DEFINE x == Head(chan[l])
<1>1. PICK in, out : Fetched(l, x, in, out) /\ Took(l, x, out)
  BY TookFacts
<1>2. nodes' = nodes /\ ~byes /\ byes' = byes
  BY <1>1, TookFacts DEF Fetched, Undisturbed
<1>3. x \in Messages /\ SaneOn(l, x, byes) /\ l[2] \in Routers
  <2>1. chan[l][1] = x /\ 1 \in 1 .. Len(chan[l]) /\ x \in Messages
    BY <1>1, FetchPasses
  <2> HIDE DEF x
  <2>2. QED
    BY <2>1, LinkEnds DEF Sane, SaneQueues
<1> HIDE DEF x
<1>4. x.kind # "byeBye"
  BY <1>2, <1>3 DEF SaneOn
<1>5. CASE x.kind = "data"
  <2>1. x.id \in Data /\ x.dst = Dst[x.id] /\ out = Route(l[2], Sender(l), x)
        /\ UNCHANGED <<leaving, blocking, idx>>
    BY <1>1, <1>3, <1>5 DEF Took, SaneOn
  <2>2. CASE Dst[x.id] = e
    <3>1. KnowsTheWay(chan, idx, Places(e), e) /\ SaneTables
      BY DEF CopiesPart, Sane
    <3>2. RouteFor(l, e, out)
      BY <1>3, <1>5, <2>1, <2>2, <3>1, RouteCases
    <3>3. PartFor(Places(e), at[e], chan', idx, got'[e], e)
      BY <1>1, <1>5, <2>1, <2>2, <3>1, <3>2, DataFetched
    <3>4. Places(e)' = Places(e) /\ at'[e] = at[e] /\ idx' = idx
      BY <1>1, <1>2, <2>1 DEF Places, Fetched
    <3>5. PartFor(Places(e)', at'[e], chan', idx', got'[e], e)
      BY <3>3, <3>4
    <3>6. QED
      BY <3>5, PartThen
  <2>3. CASE Dst[x.id] # e
    <3>1. ~Matters(x, e) /\ SameIndex(idx, idx', e)
      BY <1>5, <2>1, <2>3 DEF Matters, SameIndex
    <3>2. QED
      BY <1>1, <1>2, <3>1, OtherFetched
  <2>4. QED
    BY <2>2, <2>3
<1>6. CASE x.kind = "stillAlive"
  <2>1. out = Route(l[2], Sender(l), x) /\ Update(l[2], x.src, Sender(l)) /\ x.dst = All
    BY <1>1, <1>3, <1>6 DEF Took, SaneOn
  <2>2. out = {} \/ Sender(l) \notin out
    <3>1. out = {} \/ out = BroadcastRoute(l[2], Sender(l), x)
      BY <2>1 DEF Route
    <3>2. Sender(l) \notin BroadcastRoute(l[2], Sender(l), x)
      BY DEF BroadcastRoute
    <3>3. QED
      BY <3>1, <3>2
  <2>3. CASE x.src = e
    BY <1>1, <1>2, <1>6, <2>1, <2>2, <2>3, AliveFetched
  <2>4. CASE x.src # e
    <3>1. ~Matters(x, e)
      BY <1>6, <2>4 DEF Matters
    <3>2. SameIndex(idx, idx', e)
      BY <1>3, <2>1, <2>4 DEF SameIndex, Update, TypeOK
    <3>3. QED
      BY <1>1, <1>2, <3>1, <3>2, OtherFetched
  <2>5. QED
    BY <2>3, <2>4
<1>7. CASE x.kind \in {"announceId", "confirmId"}
  <2>1. ~Matters(x, e) /\ SameIndex(idx, idx', e)
    BY <1>1, <1>7 DEF Took, Matters, SameIndex
  <2>2. QED
    BY <1>1, <1>2, <2>1, OtherFetched
<1>8. CASE x.kind = "msgBlkList"
  <2>1. Update(l[2], x.src, l[1]) /\ x.src = l[1] /\ blocking' = [blocking EXCEPT ![l[2]] = @ \cup {l[1]}]
    BY <1>1, <1>3, <1>8 DEF Took, SaneOn
  <2>2. x.src # e
    <3>1. l[1] \in blocking'[l[2]]
      BY <1>3, <2>1 DEF TypeOK
    <3>2. QED
      BY <1>3, <2>1, <3>1 DEF Undisturbed
  <2>3. SameIndex(idx, idx', e)
    BY <1>3, <2>1, <2>2 DEF SameIndex, Update, TypeOK
  <2>4. ~Matters(x, e)
    BY <1>8 DEF Matters
  <2>5. QED
    BY <1>1, <1>2, <2>3, <2>4, OtherFetched
<1>9. QED
  BY <1>3, <1>4, <1>5, <1>6, <1>7, <1>8 DEF Messages, Kinds
-----------------------------------------------------------------------------
(* The steps of the endpoints and what else the routers do.                *)

(* The tables are left alone, and what is sent does not matter to e.       *)
LEMMA SendSpares ==
  ASSUME TypeOK, NEW e \in Endpoints, NEW l \in Links, NEW x \in Messages, Send(l, x), ~Matters(x, e),
         UNCHANGED <<nodes, idx, got>>, at'[e] = at[e] \/ at'[e] = None
  PROVE  Spares(e)
<1>1. chan' \in Queues
  BY SendFacts DEF Queues
<1>2. ASSUME NEW k \in Links PROVE Kept(chan'[k], chan[k], e)
  <2>1. chan[k] \in Seq(Messages) /\ Kept(chan[k], chan[k], e)
    BY ChanType, SameKept
  <2>2. chan'[k] = chan[k] \/ chan'[k] = Append(chan[k], x)
    BY SendFacts
  <2>3. QED
    BY <2>1, <2>2, AppendKept
<1>3. QED
  BY <1>1, <1>2 DEF Spares, SameIndex

LEMMA StaysSpares ==
  ASSUME TypeOK', NEW e, \A k \in Links : Stays(chan'[k], chan[k]),
         UNCHANGED idx, \A r \in Routers : e \in nodes'[r] <=> e \in nodes[r],
         at'[e] = at[e] \/ at'[e] = None, got'[e] = got[e]
  PROVE  Spares(e)
  BY DEF Spares, SameIndex, Stays, TypeOK, Queues

LEMMA PostPart ==
  ASSUME TypeOK, LinksAreThere, Sane, NEW f \in Endpoints, NEW m \in Data, Post(f, m),
         NEW e \in Endpoints, CopiesPart(e)
  PROVE  CopiesPart(e)'
<1> DEFINE y == [kind |-> "data", id |-> m, src |-> f, dst |-> Dst[m], hops |-> 0]
           k == <<f, at[f]>>
<1>1. y \in Messages /\ y.kind = "data" /\ y.id = m
  BY RoutingAssumption DEF Messages, Kinds
<1>2. k \in Links /\ k[1] \notin Routers /\ Send(k, y)
      /\ UNCHANGED <<nodes, idx, got, at>> /\ m \notin posted
  BY NoneIsNoRouter DEF Post, LinksAreThere, tableVars
<1> HIDE DEF y, k
<1>3. CASE Dst[m] = e
  <2> DEFINE q == chan
             r == chan'
             x == idx
             P == Places(e)
             a == at[e]
             g == got[e]
  <2>1. k \in Links \ RouterLinks
    BY <1>2 DEF RouterLinks
  <2>2. q \in Queues /\ r \in Queues /\ P \in SUBSET Routers
    BY <1>1, <1>2, SendFacts DEF Queues, TypeOK, Places
  <2>3. SentTo(q, r, y, {k})
    BY <1>1, <1>2, SendFacts DEF SentTo
  <2>4. g[y.id] = 0 /\ \A l \in Links : CopiesIn(q[l], y.id) = {}
    BY <1>1, <1>2 DEF Sane, PostedOnly
  <2>5. PartFor(P, a, q, x, g, e)
    BY PartNow
  <2>6. Places(e)' = P /\ at'[e] = a /\ idx' = x /\ got'[e] = g
    BY <1>2 DEF Places
  <2> HIDE DEF q, r, x, P, a, g
  <2>7. PartFor(P, a, r, x, g, e)
    BY <1>1, <2>1, <2>2, <2>3, <2>4, <2>5, PostedFor
  <2>8. PartFor(Places(e)', at'[e], chan', idx', got'[e], e)
    BY <2>6, <2>7 DEF r
  <2>9. QED
    BY <2>8, PartThen
<1>4. CASE Dst[m] # e
  <2>1. ~Matters(y, e)
    BY <1>1, <1>4 DEF Matters
  <2>2. Spares(e)
    BY <1>1, <1>2, <2>1, SendSpares
  <2>3. QED
    BY <2>2, SparesPart
<1>5. QED
  BY <1>3, <1>4

LEMMA StillAlivePart ==
  ASSUME TypeOK, LinksAreThere, NEW f \in Endpoints, StillAlive(f), NEW e \in Endpoints, CopiesPart(e)
  PROVE  CopiesPart(e)'
<1> DEFINE y == Special("stillAlive", f)
           c == at[f]
<1>1. y \in Messages /\ y.kind = "stillAlive" /\ y.src = f
  BY SpecialIsMessage DEF Special, Kinds
<1>2. <<f, c>> \in Links /\ c \in Routers /\ Send(<<f, c>>, y) /\ UNCHANGED <<nodes, idx, got, at>>
  BY DEF StillAlive, LinksAreThere, tableVars, TypeOK
<1> HIDE DEF y
<1>3. CASE f = e
  <2> DEFINE q == chan
             r == chan'
             x == idx
             P == Places(e)
             a == at[e]
             g == got[e]
  <2>1. <<e, a>> \in Links /\ a \in Routers
    BY <1>2, <1>3
  <2>2. q \in Queues /\ r \in Queues
    BY <1>1, <1>2, SendFacts DEF Queues, TypeOK
  <2>3. \A l \in Links : r[l] = IF l = <<e, a>> THEN Append(q[l], y) ELSE q[l]
    BY <1>1, <1>2, <1>3, SendFacts
  <2>4. PartFor(P, a, q, x, g, e)
    BY PartNow
  <2>5. Places(e)' = P /\ at'[e] = a /\ idx' = x /\ got'[e] = g
    BY <1>2 DEF Places
  <2> HIDE DEF q, r, x, P, a, g, c
  <2>6. PartFor(P, a, r, x, g, e)
    BY <1>1, <2>1, <2>2, <2>3, <2>4, AnnouncedFor
  <2>7. PartFor(Places(e)', at'[e], chan', idx', got'[e], e)
    BY <2>5, <2>6 DEF r
  <2>8. QED
    BY <2>7, PartThen
<1>4. CASE f # e
  <2>1. ~Matters(y, e)
    BY <1>1, <1>4 DEF Matters
  <2>2. Spares(e)
    BY <1>1, <1>2, <2>1, SendSpares
  <2>3. QED
    BY <2>2, SparesPart
<1>5. QED
  BY <1>3, <1>4

LEMMA AttachPart ==
  ASSUME TypeOK, TypeOK', NEW f \in Endpoints, NEW c \in Routers, Attach(f, c),
         NEW e \in Endpoints, CopiesPart(e)
  PROVE  CopiesPart(e)'
<1>1. \A k \in Links : Stays(chan'[k], chan[k])
  BY AttachStays
<1>2. /\ nodes' = [nodes EXCEPT ![c] = @ \cup {f}] /\ at' = [at EXCEPT ![f] = c]
      /\ got' = [got EXCEPT ![f] = [m \in Data |-> 0]] /\ idx' = idx
  BY DEF Attach
<1>3. CASE f = e
  <2> DEFINE q == chan
             r == chan'
             x == idx
             P == Places(e)
             a == at[e]
             g == got[e]
             s == got'[e]
  <2>1. q \in Queues /\ r \in Queues /\ P \in SUBSET Routers
    BY DEF Queues, TypeOK, Places
  <2>2. \A l \in Links : Kept(r[l], q[l], e)
    BY <1>1 DEF Stays
  <2>3. PartFor(P, a, q, x, g, e)
    BY PartNow
  <2>4. \A m \in Data : s[m] = 0
    BY <1>2, <1>3 DEF TypeOK
  <2>5. Places(e)' = P \cup {c} /\ at'[e] = c /\ idx' = x
    BY <1>2, <1>3 DEF Places, TypeOK
  <2> HIDE DEF q, r, x, P, a, g, s
  <2>6. PartFor(P \cup {c}, c, r, x, s, e)
    BY <2>1, <2>2, <2>3, <2>4, AttachedFor
  <2>7. PartFor(Places(e)', at'[e], chan', idx', got'[e], e)
    BY <2>5, <2>6 DEF r, s
  <2>8. QED
    BY <2>7, PartThen
<1>4. CASE f # e
  <2>1. /\ \A r \in Routers : e \in nodes'[r] <=> e \in nodes[r]
        /\ at'[e] = at[e] /\ got'[e] = got[e]
    BY <1>2, <1>4 DEF TypeOK
  <2>2. Spares(e)
    BY <1>1, <1>2, <2>1, StaysSpares
  <2>3. QED
    BY <2>2, SparesPart
<1>5. QED
  BY <1>3, <1>4

LEMMA EndpointPart ==
  ASSUME TypeOK, TypeOK', LinksAreThere, Sane, NEW f \in Endpoints, EndpointStep(f),
         NEW e \in Endpoints, Undisturbed(e)', CopiesPart(e)
  PROVE  CopiesPart(e)'
<1>1. CASE Block(f)
  <2> DEFINE y == Special("msgBlkList", f)
  <2>1. y \in Messages /\ ~Matters(y, e)
    BY SpecialIsMessage DEF Special, Kinds, Matters
  <2>2. <<f, at[f]>> \in Links /\ Send(<<f, at[f]>>, y) /\ UNCHANGED <<nodes, idx, got, at>>
    BY <1>1 DEF Block, LinksAreThere, tableVars
  <2> HIDE DEF y
  <2>3. Spares(e)
    BY <2>1, <2>2, SendSpares
  <2>4. QED
    BY <2>3, SparesPart
<1>2. CASE Vanish(f)
  <2>1. \A k \in Links : Stays(chan'[k], chan[k])
    BY <1>2, VanishStays
  <2>2. UNCHANGED <<nodes, idx, got>> /\ (at'[e] = at[e] \/ at'[e] = None)
    BY <1>2 DEF Vanish, tableVars, TypeOK
  <2>3. Spares(e)
    BY <2>1, <2>2, StaysSpares
  <2>4. QED
    BY <2>3, SparesPart
<1>3. ~SayBye(f)
  BY DEF SayBye, Undisturbed
<1>4. QED
  BY <1>1, <1>2, <1>3, PostPart, StillAlivePart, AttachPart DEF EndpointStep

LEMMA RouterPart ==
  ASSUME TypeOK, TypeOK', LinksAreThere, Sane, NEW r \in Routers, RouterStep(r),
         NEW e \in Endpoints, Undisturbed(e)', CopiesPart(e)
  PROVE  CopiesPart(e)'
<1>1. ~RemoveDisconnected(r)
  BY DEF RemoveDisconnected, Undisturbed, Sane, SaneTables
<1>2. ASSUME RecentExpires(r) \/ LoseParent(r) \/ AnnounceId(r) \/ AdoptRouter(r)
      PROVE  UNCHANGED <<nodes, idx, got, at>>
  BY <1>2 DEF RecentExpires, LoseParent, AnnounceId, AdoptRouter, tableVars
<1>3. CASE RecentExpires(r)
  <2>1. \A k \in Links : Stays(chan'[k], chan[k])
    BY <1>3, ChanType, SameStays DEF RecentExpires
  <2>2. Spares(e)
    BY <1>2, <1>3, <2>1, StaysSpares
  <2>3. QED
    BY <2>2, SparesPart
<1>4. CASE LoseParent(r)
  <2>1. \A k \in Links : Stays(chan'[k], chan[k])
    BY <1>4, LoseParentStays
  <2>2. Spares(e)
    BY <1>2, <1>4, <2>1, StaysSpares
  <2>3. QED
    BY <2>2, SparesPart
<1>5. CASE AnnounceId(r)
  <2> DEFINE y == Special("announceId", r)
             l == <<r, Parent[r]>>
  <2>1. y \in Messages /\ ~Matters(y, e)
    BY SpecialIsMessage DEF Special, Kinds, Matters
  <2>2. l \in Links /\ Send(l, y)
    BY <1>5, ParentLinks DEF AnnounceId
  <2> HIDE DEF y, l
  <2>3. Spares(e)
    BY <1>2, <1>5, <2>1, <2>2, SendSpares
  <2>4. QED
    BY <2>3, SparesPart
<1>6. CASE AdoptRouter(r)
  <2> DEFINE y == Special("confirmId", Parent[r])
  <2>1. ~Matters(y, e)
    BY DEF Special, Matters
  <2>2. ASSUME NEW k \in Links PROVE Kept(chan'[k], chan[k], e)
    <3>1. y \in Messages /\ (Stays(chan'[k], chan[k]) \/ chan'[k] = Append(chan[k], y))
      BY <1>6, AdoptStays
    <3>2. chan[k] \in Seq(Messages) /\ Kept(chan[k], chan[k], e)
      BY ChanType, SameKept
    <3> HIDE DEF y
    <3>3. Kept(Append(chan[k], y), chan[k], e)
      BY <2>1, <3>1, <3>2, AppendKept
    <3>4. QED
      BY <3>1, <3>3 DEF Stays
  <2>3. Spares(e)
    BY <1>2, <1>6, <2>2 DEF Spares, SameIndex, TypeOK, Queues
  <2>4. QED
    BY <2>3, SparesPart
<1>7. QED
  BY <1>1, <1>3, <1>4, <1>5, <1>6 DEF RouterStep
-----------------------------------------------------------------------------
(* Who has not said bye-bye and blocks nothing had not before.             *)
LEMMA WasUndisturbed ==
  ASSUME TypeOK, ConfirmationFirst, Sane, [Next]_vars, NEW e \in Endpoints, Undisturbed(e)'
  PROVE  Undisturbed(e)
<1>1. CASE UNCHANGED vars
  BY <1>1 DEF vars, tableVars, Undisturbed
<1>2. ASSUME NEW l \in Links, Fetch(l) PROVE Undisturbed(e)
  <2> DEFINE x == Head(chan[l])
  <2>1. PICK in, out : Fetched(l, x, in, out) /\ Took(l, x, out)
    BY <1>2, TookFacts
  <2> HIDE DEF x
  <2>2. byes' = byes
    BY <2>1 DEF Fetched
  <2>3. blocking' = blocking \/ blocking' = [blocking EXCEPT ![l[2]] = @ \cup {l[1]}]
    BY <2>1 DEF Took
  <2>4. \A r \in Routers : blocking[r] \subseteq blocking'[r]
    <3>1. CASE blocking' = blocking
      BY <3>1
    <3>2. CASE blocking' = [blocking EXCEPT ![l[2]] = @ \cup {l[1]}]
      BY <3>2 DEF TypeOK
    <3>3. QED
      BY <2>3, <3>1, <3>2
  <2>5. QED
    BY <2>2, <2>4 DEF Undisturbed
<1>3. ASSUME NEW f \in Endpoints, EndpointStep(f) PROVE Undisturbed(e)
  <2>1. ~SayBye(f)
    BY DEF SayBye, Undisturbed
  <2>2. UNCHANGED <<blocking, byes>>
    BY <1>3, <2>1 DEF EndpointStep, Post, StillAlive, Block, Vanish, Attach, tableVars
  <2>3. QED
    BY <2>2 DEF Undisturbed
<1>4. ASSUME NEW r \in Routers, RouterStep(r) PROVE Undisturbed(e)
  <2>1. byes' = byes
    BY <1>4 DEF RouterStep, RemoveDisconnected, RecentExpires, LoseParent, AnnounceId, AdoptRouter
  <2>2. ~RemoveDisconnected(r)
    BY <2>1 DEF RemoveDisconnected, Undisturbed, Sane, SaneTables
  <2>3. blocking' = blocking
    BY <1>4, <2>2 DEF RouterStep, RecentExpires, LoseParent, AnnounceId, AdoptRouter, tableVars
  <2>4. QED
    BY <2>1, <2>3 DEF Undisturbed
<1>5. QED
  BY <1>1, <1>2, <1>3, <1>4 DEF Next

LEMMA ApartStep ==
  TypeOK /\ TypeOK' /\ LinksAreThere /\ ConfirmationFirst /\ Sane /\ TargetedApart /\ [Next]_vars
      => TargetedApart'
<1> SUFFICES ASSUME TypeOK, TypeOK', LinksAreThere, ConfirmationFirst, Sane, TargetedApart, [Next]_vars,
                    NEW e \in Endpoints, Undisturbed(e)'
             PROVE  CopiesPart(e)'
  BY DEF TargetedApart
<1>1. Undisturbed(e) /\ CopiesPart(e)
  BY WasUndisturbed DEF TargetedApart
<1>2. CASE UNCHANGED vars
  <2>1. PartFor(Places(e), at[e], chan, idx, got[e], e)
    BY <1>1, PartNow
  <2>2. chan' = chan /\ idx' = idx /\ got' = got /\ at' = at /\ nodes' = nodes
    BY <1>2 DEF vars, tableVars
  <2>3. Places(e)' = Places(e)
    BY <2>2 DEF Places
  <2>4. PartFor(Places(e)', at'[e], chan', idx', got'[e], e)
    BY <2>1, <2>2, <2>3
  <2>5. QED
    BY <2>4, PartThen
<1>3. ASSUME NEW l \in Links, Fetch(l) PROVE CopiesPart(e)'
  BY <1>1, <1>3, FetchPart
<1>4. ASSUME NEW f \in Endpoints, EndpointStep(f) PROVE CopiesPart(e)'
  BY <1>1, <1>4, EndpointPart
<1>5. ASSUME NEW r \in Routers, RouterStep(r) PROVE CopiesPart(e)'
  BY <1>1, <1>5, RouterPart
<1>6. QED
  BY <1>2, <1>3, <1>4, <1>5 DEF Next

LEMMA InitApart == Init => Sane /\ TargetedApart
<1> SUFFICES ASSUME Init PROVE Sane /\ TargetedApart
  OBVIOUS
<1>1. \A l \in Links : chan[l] = <<>> /\ Len(chan[l]) = 0
  BY EmptySeq DEF Init
<1>2. \A l \in Links : 1 .. Len(chan[l]) = {}
  BY <1>1
<1>3. Sane
  <2>1. SaneQueues
    BY <1>2 DEF SaneQueues
  <2>2. SaneTables
    BY NoneIsNoRouter DEF Init, SaneTables, Children
  <2>3. PostedOnly
    BY <1>2 DEF Init, PostedOnly, CopiesIn
  <2>4. QED
    BY <2>1, <2>2, <2>3 DEF Sane
<1>4. ASSUME NEW e \in Endpoints PROVE CopiesPart(e)
  <2> DEFINE P == Places(e)
  <2>1. at[e] \in Routers /\ nodes = [r \in Routers |-> Children(r) \cup {f \in Endpoints : at[f] = r}]
    BY RoutingAssumption DEF Init
  <2>2. P = {at[e]}
    BY <2>1, NoneIsNoRouter DEF Places, Children
  <2>3. \A r \in Routers : idx[r][e] = None
    BY DEF Init
  <2>4. \A l \in Links : Alive(chan[l], e) = {}
    BY <1>2 DEF Alive
  <2>5. ASSUME NEW r \in Routers, NEW n \in Hops(r) PROVE Clear(chan, idx, P, e, Onto(r, n))
    <3>1. ASSUME NEW k \in RouterLinks PROVE k \in Links /\ k[2] \in Routers /\ Sender(k) \in Routers
      BY LinkEnds, NoneIsNoRouter DEF RouterLinks, Sender
    <3>2. QED
      BY <2>3, <2>4, <3>1, NoneIsNoRouter DEF Clear, OnWay
  <2>6. ASSUME NEW r \in Routers PROVE idx[r][e] = None /\ idx[r][e] # e /\ idx[r][e] \notin Hops(r)
    BY <2>3, NoneIsNoRouter, HopFacts
  <2>7. KnowsTheWay(chan, idx, P, e)
    BY <2>4, <2>5, <2>6 DEF KnowsTheWay
  <2>8. ASSUME NEW m \in Data PROVE Copies(chan, m) = {} /\ got[e][m] = 0
    BY <1>2 DEF Init, Copies, CopiesIn
  <2>9. ASSUME NEW m \in Data, NEW W, NEW h PROVE Apart(P, Copies(chan, m), W, h)
    BY <2>8 DEF Apart
  <2>10. QED
    BY <2>2, <2>7, <2>8, <2>9 DEF CopiesPart
<1>5. QED
  BY <1>3, <1>4 DEF TargetedApart

(* The inductive invariant behind TargetedOnce: what is on the links and in*)
(* the tables is sane, and the copies of a message for one endpoint keep   *)
(* apart, each on its own way to where the endpoint is or was (_route_     *)
(* targeted_message, _update_index).                                       *)
THEOREM TargetedStaysApart == Spec => [](Sane /\ TargetedApart)
<1> DEFINE I == IInv /\ Sane /\ TargetedApart
<1>1. Init => I
  BY InitIInv, InitApart
<1>2. I /\ [Next]_vars => I'
  <2> SUFFICES ASSUME IInv, Sane, TargetedApart, [Next]_vars PROVE I'
    OBVIOUS
  <2>1. IInv'
    BY StepIInv
  <2>2. Sane'
    BY SaneStep DEF IInv
  <2>3. TargetedApart'
    BY <2>1, ApartStep DEF IInv
  <2>4. QED
    BY <2>1, <2>2, <2>3
<1>3. QED
  BY <1>1, <1>2, PTL DEF Spec

(* A message for one endpoint reaches it once at most over one connection, *)
(* in every tree of routers, while nobody says bye-bye, the endpoint blocks*)
(* nothing and is known at two routers at most: although routers that do   *)
(* not know the way send the message in all directions.                    *)
THEOREM TargetedComesOnce == Spec => []TargetedOnce
<1>1. TargetedApart => TargetedOnce
  BY DEF TargetedApart, CopiesPart, TargetedOnce
<1>2. QED
  BY <1>1, TargetedStaysApart, PTL
=============================================================================
