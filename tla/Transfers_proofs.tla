--------------------------- MODULE Transfers_proofs ---------------------------
(***************************************************************************)
(* Proofs about the transfer of blobs, for blobs of any size, fragments of *)
(* any size, any number of blobs and targets, and any number of messages   *)
(* that are lost or overtake each other: nothing of a blob is forgotten    *)
(* between its sender and its targets, what a stream is given is what the  *)
(* bookkeeping says, a stream ends once, and a blob for one target is      *)
(* delivered once.  And about the streaming of a resource, for any number  *)
(* of servers that come, go and fall silent: a request that is bound to a  *)
(* server awaits a blob from it, and as long as it has not lost a server   *)
(* its stream is whole and ends once.                                      *)
(***************************************************************************)
EXTENDS Resources, SequenceTheorems, WellFoundedInduction, TLAPS

-----------------------------------------------------------------------------
(* Sets of offsets.                                                        *)

LEMMA LeastIsIn ==
  ASSUME NEW S \in SUBSET Nat, S # {}
  PROVE  Least(S) \in S /\ \A y \in S : Least(S) <= y
<1>1. PICK x \in S : \A y \in S : ~(<<y, x>> \in OpToRel(<, Nat))
  BY NatLessThanWellFounded, WFMin
<1>2. OpToRel(<, Nat) = {ss \in Nat \X Nat : ss[1] < ss[2]}
  BY DEF OpToRel
<1>3. ASSUME NEW y \in S PROVE x <= y
  <2>1. ~(y < x)
    BY <1>1, <1>2
  <2>2. QED
    BY <2>1
<1>4. QED
  BY <1>3 DEF Least

LEMMA GreatestIsIn ==
  ASSUME NEW N \in Nat, NEW S \in SUBSET (0 .. N), S # {}
  PROVE  Greatest(S) \in S /\ \A y \in S : Greatest(S) >= y
<1> DEFINE T == {N - x : x \in S}
<1>0. \A y \in S : y \in Nat /\ y <= N /\ N - y \in Nat
  OBVIOUS
<1>1. T \in SUBSET Nat /\ T # {}
  BY <1>0
<1>2. PICK z \in T : \A y \in T : z <= y
  <2> HIDE DEF T
  <2>1. QED
    BY <1>1, LeastIsIn
<1>3. PICK x \in S : z = N - x
  BY <1>2
<1>4. ASSUME NEW y \in S PROVE x >= y
  <2>1. N - y \in T /\ x \in Int /\ y \in Int
    BY <1>0
  <2>2. z <= N - y
    BY <1>2, <2>1
  <2>3. QED
    BY <1>3, <2>1, <2>2
<1>5. QED
  BY <1>4 DEF Greatest

LEMMA OffsetFacts ==
  /\ Size \in Nat /\ Size > 0 /\ Ask \in Nat /\ Ask > 0
  /\ \A o : o \in Offset <=> o \in Nat /\ o < Size
  /\ \A a, b \in Int : \A o : o \in Span(a, b) <=> o \in Int /\ a <= o /\ o < b
  BY BlobsAssumption DEF Offset, Span

(* Each offset of a set is in one of its parts.                            *)
LEMMA InAPart ==
  ASSUME NEW S \in SUBSET Offset, NEW o \in S
  PROVE  \E p \in Parts(S) : p[1] <= o /\ o < p[2]
<1> USE BlobsAssumption
<1> DEFINE L == {x \in 0 .. o : Span(x, o + 1) \subseteq S}
           G == {y \in 1 .. Size : o < y /\ Span(o, y) \subseteq S}
           x == Least(L)
           y == Greatest(G)
<1>1. o \in Nat /\ o < Size /\ Size \in Nat
  BY DEF Offset
<1>2. o \in L /\ o + 1 \in G
  BY <1>1 DEF Span
<1>3. L \in SUBSET Nat /\ G \in SUBSET (0 .. Size)
  BY <1>1
<1>4. x \in L /\ \A z \in L : x <= z
  <2> HIDE DEF L
  <2>1. QED
    BY <1>2, <1>3, LeastIsIn
<1>5. y \in G /\ \A z \in G : y >= z
  <2> HIDE DEF G
  <2>1. QED
    BY <1>1, <1>2, <1>3, GreatestIsIn
<1> HIDE DEF x, y
<1>6. x - 1 \notin S
  <2>1. SUFFICES ASSUME x - 1 \in S PROVE FALSE
    OBVIOUS
  <2>2. x \in 0 .. o /\ Span(x, o + 1) \subseteq S /\ x - 1 \in Offset
    BY <1>4, <2>1
  <2>3. x - 1 \in 0 .. o /\ Span(x - 1, o + 1) \subseteq S
    BY <1>1, <2>1, <2>2 DEF Span, Offset
  <2>4. QED
    BY <1>4, <2>2, <2>3
<1>7. y \notin S
  <2>1. SUFFICES ASSUME y \in S PROVE FALSE
    OBVIOUS
  <2>2. y \in 1 .. Size /\ o < y /\ Span(o, y) \subseteq S /\ y \in Offset
    BY <1>5, <2>1
  <2>3. y + 1 \in 1 .. Size /\ Span(o, y + 1) \subseteq S
    BY <1>1, <2>1, <2>2 DEF Span, Offset
  <2>4. QED
    BY <1>1, <1>5, <2>2, <2>3
<1>8. x <= o /\ o < y /\ x \in Offset /\ y \in 1 .. Size /\ Span(x, y) \subseteq S
  <2>1. x \in 0 .. o /\ Span(x, o + 1) \subseteq S /\ y \in 1 .. Size /\ o < y /\ Span(o, y) \subseteq S
    BY <1>4, <1>5
  <2>2. QED
    BY <1>1, <2>1 DEF Span, Offset
<1>9. <<x, y>> \in Parts(S)
  <2>1. <<x, y>> \in Kept
    BY <1>1, <1>8 DEF Kept
  <2>2. QED
    BY <1>6, <1>7, <1>8, <2>1 DEF Parts
<1>10. QED
  BY <1>8, <1>9

LEMMA PartFacts ==
  ASSUME NEW S \in SUBSET Offset, NEW p \in Parts(S)
  PROVE  /\ p \in Kept /\ p[1] \in Offset /\ p[2] \in 1 .. Size /\ p[1] < p[2]
         /\ p = <<p[1], p[2]>>
         /\ p[1] \in S /\ p[2] \notin S
         /\ \A o \in Span(p[1], p[2]) : o \in S
  BY BlobsAssumption DEF Parts, Kept, Span, Offset

(* The first of some parts, and the last one of all.                       *)
LEMMA FirstOfParts ==
  ASSUME NEW S \in SUBSET Offset, NEW N \in SUBSET Parts(S), N # {}
  PROVE  \E p \in N : \A q \in N : p[1] <= q[1]
<1> DEFINE T == {p[1] : p \in N}
<1>1. T \in SUBSET Nat /\ T # {}
  BY PartFacts DEF Offset
<1>2. PICK x \in T : \A y \in T : x <= y
  <2> HIDE DEF T
  <2>1. QED
    BY <1>1, LeastIsIn
<1>3. QED
  BY <1>2

LEMMA BackIsLast ==
  ASSUME NEW S \in SUBSET Offset, S # {}
  PROVE  Back(S) \in Parts(S) /\ \A q \in Parts(S) : q[1] <= Back(S)[1]
<1> DEFINE T == {p[1] : p \in Parts(S)}
<1>1. T \in SUBSET (0 .. Size) /\ T # {} /\ Size \in Nat
  BY PartFacts, InAPart, BlobsAssumption DEF Offset
<1>2. PICK x \in T : \A y \in T : x >= y
  <2> HIDE DEF T
  <2>1. QED
    BY <1>1, GreatestIsIn
<1>3. PICK p \in Parts(S) : p[1] = x
  BY <1>2
<1>4. \A q \in Parts(S) : q[1] <= p[1]
  <2>1. \A q \in Parts(S) : q[1] \in T /\ q[1] \in Nat
    BY PartFacts DEF Offset
  <2>2. QED
    BY <1>2, <1>3, <2>1
<1>5. QED
  BY <1>4 DEF Back

(* The first gap of what is not all done.                                  *)
LEMMA FirstGapIsFree ==
  ASSUME NEW S \in SUBSET Offset, S # Offset
  PROVE  LET gap == FirstGap(S)
         IN  /\ gap[1] \in Offset \ S /\ gap[2] \in 1 .. Size /\ gap[1] < gap[2]
             /\ \A o \in Offset : o < gap[1] => o \in S
             /\ Span(gap[1], gap[2]) \cap S = {}
<1> DEFINE F == Offset \ S
           bgn == Least(F)
           E == {Size} \cup {o \in S : o > bgn}
           end == Least(E)
<1>1. F \in SUBSET Nat /\ F # {}
  BY OffsetFacts
<1>2. bgn \in F /\ \A y \in F : bgn <= y
  <2> HIDE DEF F
  <2>1. QED
    BY <1>1, LeastIsIn
<1>3. E \in SUBSET Nat /\ E # {}
  BY OffsetFacts
<1>4. end \in E /\ \A y \in E : end <= y
  <2> HIDE DEF E
  <2>1. QED
    BY <1>3, LeastIsIn
<1> HIDE DEF bgn, end
<1>5. bgn \in Offset /\ bgn \notin S /\ bgn \in Nat /\ \A o \in Offset : o < bgn => o \in S
  <2>1. bgn \in F /\ bgn \in Nat
    BY <1>1, <1>2
  <2>2. ASSUME NEW o \in Offset, o < bgn, o \notin S PROVE FALSE
    <3>1. o \in F /\ o \in Nat
      BY <1>1, <2>2
    <3>2. bgn <= o
      BY <1>2, <3>1
    <3>3. QED
      BY <2>1, <2>2, <3>1, <3>2
  <2>3. QED
    BY <2>1, <2>2
<1>6. end \in 1 .. Size /\ bgn < end /\ \A o \in S : o > bgn => end <= o
  <2>1. end = Size \/ (end \in S /\ end > bgn)
    BY <1>4
  <2>2. \A o \in S : o > bgn => end <= o
    BY <1>4
  <2>0. bgn < Size /\ (end \in S => end \in Nat /\ end < Size)
    BY <1>5, OffsetFacts
  <2>3. bgn < end /\ end <= Size /\ end \in Nat
    BY <1>5, <2>0, <2>1, OffsetFacts
  <2>4. QED
    BY <1>5, <2>2, <2>3, OffsetFacts
<1>7. FirstGap(S) = <<bgn, IF end < bgn + Ask THEN end ELSE bgn + Ask>>
  BY DEF FirstGap, bgn, end
<1> DEFINE gend == IF end < bgn + Ask THEN end ELSE bgn + Ask
<1>8. gend \in 1 .. Size /\ bgn < gend /\ gend <= end
  BY <1>5, <1>6, OffsetFacts
<1>9. ASSUME NEW o \in Span(bgn, gend) PROVE o \notin S
  <2>1. o \in Int /\ bgn <= o /\ o < end
    BY <1>5, <1>6, <1>8 DEF Span
  <2>2. o = bgn \/ o > bgn
    BY <1>5, <2>1
  <2>3. QED
    BY <1>5, <1>6, <2>1, <2>2
<1>10. QED
  BY <1>5, <1>7, <1>8, <1>9
-----------------------------------------------------------------------------
(* What is stored of a fragment.                                           *)

LEMMA OneOrTwo ==
  ASSUME NEW h, NEW t
  PROVE  /\ <<>> \o <<>> = <<>> /\ <<h>> \o <<>> = <<h>> /\ <<>> \o <<t>> = <<t>>
         /\ <<h>> \o <<t>> = <<h, t>>
<1> DEFINE T == {h, t}
<1>1. <<>> \in Seq(T) /\ <<h>> \in Seq(T) /\ <<t>> \in Seq(T) /\ <<h, t>> \in Seq(T)
  OBVIOUS
<1>2. \A u \in Seq(T) : <<>> \o u = u /\ u \o <<>> = u
  BY ConcatEmptySeq
<1>3. <<h>> \o <<t>> \in Seq(T) /\ Len(<<h>> \o <<t>>) = 2
      /\ (<<h>> \o <<t>>)[1] = h /\ (<<h>> \o <<t>>)[2] = t
  BY <1>1, ConcatProperties
<1> DEFINE u == <<h>> \o <<t>>
           v == <<h, t>>
<1>4. u = v
  <2>1. u \in Seq(T) /\ v \in Seq(T) /\ Len(u) = 2 /\ Len(v) = 2
        /\ u[1] = v[1] /\ u[2] = v[2]
    BY <1>1, <1>3
  <2> HIDE DEF u, v, T
  <2>2. \A i \in 1 .. Len(u) : u[i] = v[i]
    BY <2>1
  <2>3. QED
    BY <2>1, <2>2, SeqEqual
<1>5. <<>> \o <<>> = <<>> /\ <<h>> \o <<>> = <<h>> /\ <<>> \o <<t>> = <<t>>
  <2> HIDE DEF T
  <2>1. QED
    BY <1>1, <1>2
<1>6. QED
  BY <1>4, <1>5

(* The parts that are handed to a stream are ranges of offsets.            *)
LEMMA StoresFacts ==
  ASSUME NEW S \in SUBSET Offset, NEW bgn \in Offset, NEW end \in 1 .. Size, bgn < end
  PROVE  /\ \/ Stores(S, bgn, end) = <<>>
            \/ \E p \in Kept : Stores(S, bgn, end) = <<p>>
            \/ \E p, q \in Kept : Stores(S, bgn, end) = <<p, q>>
         /\ Span(bgn, end) \subseteq S => Stores(S, bgn, end) = <<>>
         /\ Span(bgn, end) \cap S = {} => Stores(S, bgn, end) = <<<<bgn, end>>>>
<1> DEFINE near == {p \in Parts(S) : p[2] >= bgn}
           first == CHOOSE p \in near : \A q \in near : p[1] <= q[1]
           head == <<bgn, IF end < first[1] THEN end ELSE first[1]>>
           tail == <<first[2], end>>
           unlessEmpty(r) == IF r[1] < r[2] THEN <<r>> ELSE <<>>
<1>1. /\ bgn \in Nat /\ end \in Nat /\ end <= Size /\ <<bgn, end>> \in Kept
      /\ \A o \in Span(bgn, end) : o \in Offset
      /\ bgn \in Span(bgn, end)
  BY OffsetFacts DEF Kept
<1>2. CASE near = {}
  <2>1. Stores(S, bgn, end) = <<<<bgn, end>>>>
    BY <1>2 DEF Stores
  <2>2. bgn \notin S
    <3>1. SUFFICES ASSUME bgn \in S PROVE FALSE
      OBVIOUS
    <3>2. PICK p \in Parts(S) : p[1] <= bgn /\ bgn < p[2]
      BY <3>1, InAPart
    <3>3. p \in near
      BY <1>1, <3>2, PartFacts
    <3>4. QED
      BY <1>2, <3>3
  <2>3. QED
    BY <1>1, <2>1, <2>2
<1>3. CASE near # {}
  <2>1. first \in near /\ \A q \in near : first[1] <= q[1]
    <3>1. near \in SUBSET Parts(S)
      OBVIOUS
    <3> HIDE DEF near
    <3>2. \E p \in near : \A q \in near : p[1] <= q[1]
      BY <1>3, <3>1, FirstOfParts
    <3>3. QED
      BY <3>2
  <2>2. Stores(S, bgn, end) = unlessEmpty(head) \o unlessEmpty(tail)
    BY <1>3 DEF Stores
  <2> HIDE DEF first
  <2>3. /\ first[1] \in Nat /\ first[2] \in Nat /\ first[2] >= bgn /\ first[1] < first[2]
        /\ first[1] < Size /\ first[2] <= Size
        /\ first[1] \in S /\ first[2] \notin S
        /\ \A o \in Span(first[1], first[2]) : o \in S
    BY <2>1, PartFacts, OffsetFacts
  <2>4. /\ head[1] < head[2] => head \in Kept
        /\ tail[1] < tail[2] => tail \in Kept
    BY <1>1, <2>3, OffsetFacts DEF Kept
  <2>5. /\ unlessEmpty(head) = IF head[1] < head[2] THEN <<head>> ELSE <<>>
        /\ unlessEmpty(tail) = IF tail[1] < tail[2] THEN <<tail>> ELSE <<>>
    OBVIOUS
  <2>6. Stores(S, bgn, end) = IF head[1] < head[2]
                              THEN IF tail[1] < tail[2] THEN <<head, tail>> ELSE <<head>>
                              ELSE IF tail[1] < tail[2] THEN <<tail>> ELSE <<>>
    <3> HIDE DEF head, tail, unlessEmpty
    <3>1. QED
      BY <2>2, <2>5, OneOrTwo
  <2>7. ASSUME Span(bgn, end) \subseteq S PROVE ~(head[1] < head[2]) /\ ~(tail[1] < tail[2])
    <3>1. PICK p \in Parts(S) : p[1] <= bgn /\ bgn < p[2]
      BY <1>1, <2>7, InAPart
    <3>2. p \in near /\ p[1] \in Nat
      BY <1>1, <3>1, PartFacts, OffsetFacts
    <3>3. first[1] <= bgn
      BY <1>1, <2>1, <2>3, <3>1, <3>2
    <3>4. first[2] >= end
      BY <1>1, <2>3, <2>7, OffsetFacts
    <3>5. QED
      BY <1>1, <2>3, <3>3, <3>4
  <2>8. ASSUME Span(bgn, end) \cap S = {}
        PROVE  \/ ~(head[1] < head[2]) /\ tail[1] < tail[2] /\ tail = <<bgn, end>>
               \/ head[1] < head[2] /\ ~(tail[1] < tail[2]) /\ head = <<bgn, end>>
    <3>1. first[1] \notin Span(bgn, end) /\ bgn \notin S
      BY <1>1, <2>3, <2>8
    <3>2. CASE first[1] <= bgn
      <4>1. first[2] = bgn
        BY <1>1, <2>3, <3>1, <3>2, OffsetFacts
      <4>2. QED
        BY <1>1, <2>3, <3>2, <4>1
    <3>3. CASE first[1] > bgn
      <4>1. first[1] >= end
        BY <1>1, <2>3, <3>1, <3>3, OffsetFacts
      <4>2. (IF end < first[1] THEN end ELSE first[1]) = end
        BY <1>1, <2>3, <4>1
      <4>3. QED
        BY <1>1, <2>3, <4>1, <4>2
    <3>4. QED
      BY <1>1, <2>3, <3>2, <3>3
  <2> HIDE DEF head, tail, unlessEmpty
  <2>9. \/ Stores(S, bgn, end) = <<>>
        \/ \E p \in Kept : Stores(S, bgn, end) = <<p>>
        \/ \E p, q \in Kept : Stores(S, bgn, end) = <<p, q>>
    BY <2>4, <2>6
  <2>10. Span(bgn, end) \subseteq S => Stores(S, bgn, end) = <<>>
    BY <2>6, <2>7
  <2>11. Span(bgn, end) \cap S = {} => Stores(S, bgn, end) = <<<<bgn, end>>>>
    BY <2>6, <2>8
  <2>12. QED
    BY <2>9, <2>10, <2>11
<1>4. QED
  BY <1>2, <1>3

Stream == [at : 0 .. Size, kept : SUBSET Kept, finished : 0 .. 2, cancelled : 0 .. 2]

(* A stream stays one.                                                     *)
LEMMA StoreFragmentFacts ==
  ASSUME NEW s \in Stream, NEW p \in Kept
  PROVE  /\ StoreFragment(s, p) \in Stream
         /\ StoreFragment(s, p).finished = s.finished
         /\ StoreFragment(s, p).cancelled = s.cancelled
         /\ StoreFragment(s, p).kept \subseteq s.kept \cup {p}
<1> DEFINE before(k) == {j \in s.kept : j[1] < k[1]}
           follows(k) == k[1] = Greatest({p[2]} \cup {j[2] : j \in before(k)})
           joined == {k \in s.kept : follows(k) /\ \A j \in before(k) : follows(j)}
           ends == {p[2]} \cup {k[2] : k \in joined}
<1>1. s.kept \subseteq Kept /\ joined \subseteq s.kept
  BY DEF Stream
<1>0. Size \in Nat /\ \A k \in Kept : k[2] \in 0 .. Size
  BY OffsetFacts DEF Kept
<1>2. ends \in SUBSET (0 .. Size) /\ ends # {} /\ Size \in Nat
  BY <1>0, <1>1
<1> HIDE DEF joined
<1>3. Greatest(ends) \in 0 .. Size
  <2> HIDE DEF ends
  <2>1. QED
    BY <1>2, GreatestIsIn
<1>4. StoreFragment(s, p) =
         IF p[1] # s.at THEN [s EXCEPT !.kept = {k \in @ : k[1] # p[1]} \cup {p}]
         ELSE [s EXCEPT !.at = Greatest(ends), !.kept = @ \ joined]
  BY DEF StoreFragment, joined
<1> HIDE DEF ends
<1>5. CASE p[1] # s.at
  BY <1>1, <1>4, <1>5 DEF Stream
<1>6. CASE p[1] = s.at
  BY <1>1, <1>3, <1>4, <1>6 DEF Stream
<1>7. QED
  BY <1>5, <1>6

LEMMA StoreFacts ==
  ASSUME NEW s \in Stream, NEW S \in SUBSET Offset, NEW bgn \in Offset, NEW end \in 1 .. Size,
         bgn < end
  PROVE  LET r == Store(s, Stores(S, bgn, end))
         IN  r \in Stream /\ r.finished = s.finished /\ r.cancelled = s.cancelled
<1> DEFINE ps == Stores(S, bgn, end)
<1>1. \/ ps = <<>>
      \/ \E p \in Kept : ps = <<p>>
      \/ \E p, q \in Kept : ps = <<p, q>>
  BY StoresFacts
<1> HIDE DEF ps
<1>2. CASE ps = <<>>
  BY <1>2 DEF Store, ps
<1>3. ASSUME NEW p \in Kept, ps = <<p>> PROVE Store(s, ps) = StoreFragment(s, p)
  BY <1>3 DEF Store
<1>4. ASSUME NEW p \in Kept, NEW q \in Kept, ps = <<p, q>>
      PROVE  Store(s, ps) = StoreFragment(StoreFragment(s, p), q)
  BY <1>4 DEF Store
<1>5. QED
  BY <1>1, <1>2, <1>3, <1>4, StoreFragmentFacts DEF ps

-----------------------------------------------------------------------------
(* Blocks of n offsets.                                                    *)

LEMMA BlockFacts ==
  ASSUME NEW n \in 1 .. Size
  PROVE  /\ Starts(n) \subseteq Offset /\ 0 \in Starts(n)
         /\ \A o \in Starts(n) : /\ o \in Nat /\ End(n, o) \in 1 .. Size /\ o < End(n, o)
                                 /\ End(n, o) = Size \/ End(n, o) \in Starts(n)
         /\ \A a, b \in Starts(n) : a < b => End(n, a) <= b
         /\ \A o \in Offset : \E a \in Starts(n) : a <= o /\ o < End(n, a)
<1>0. n \in Nat /\ n >= 1 /\ Size \in Nat /\ Size > 0
  BY OffsetFacts
<1>1. Starts(n) \subseteq Offset /\ 0 \in Starts(n)
  <2>1. 0 = 0 * n /\ 0 \in 0 .. Size /\ 0 \in Offset
    BY <1>0, OffsetFacts
  <2>2. QED
    BY <2>1 DEF Starts
<1>2. ASSUME NEW o \in Starts(n)
      PROVE  /\ o \in Nat /\ End(n, o) \in 1 .. Size /\ o < End(n, o)
             /\ End(n, o) = Size \/ End(n, o) \in Starts(n)
  <2>1. o \in Nat /\ o < Size
    BY <1>1, OffsetFacts
  <2>2. PICK k \in 0 .. Size : o = k * n
    BY DEF Starts
  <2>3. ASSUME o + n < Size PROVE o + n \in Starts(n)
    <3>1. k \in Nat /\ (k + 1) * n = o + n
      BY <1>0, <2>2
    <3>2. (k + 1) * (n - 1) \in Nat /\ (k + 1) * (n - 1) = (k + 1) * n - (k + 1)
      BY <1>0, <3>1
    <3>3. k + 1 \in 0 .. Size
      BY <1>0, <2>1, <2>3, <3>1, <3>2
    <3>4. o + n \in Offset
      BY <1>0, <2>1, <2>3, OffsetFacts
    <3>5. QED
      BY <3>1, <3>3, <3>4 DEF Starts
  <2>4. QED
    BY <1>0, <2>1, <2>3 DEF End
<1>3. ASSUME NEW a \in Starts(n), NEW b \in Starts(n), a < b PROVE End(n, a) <= b
  <2>1. PICK j \in 0 .. Size : a = j * n
    BY DEF Starts
  <2>2. PICK k \in 0 .. Size : b = k * n
    BY DEF Starts
  <2>3. j \in Nat /\ k \in Nat
    BY <1>0
  <2>4. j < k
    <3>1. SUFFICES ASSUME j - k \in Nat PROVE FALSE
      BY <2>3
    <3>2. (j - k) * n \in Nat /\ (j - k) * n = j * n - k * n
      BY <1>0, <2>3, <3>1
    <3>3. j * n \in Nat /\ k * n \in Nat
      BY <1>0, <2>3
    <3>4. QED
      BY <1>3, <2>1, <2>2, <3>2, <3>3
  <2>5. k - j - 1 \in Nat
    BY <2>3, <2>4
  <2>6. (k - j - 1) * n \in Nat /\ (k - j - 1) * n = k * n - j * n - n
    BY <1>0, <2>3, <2>5
  <2>7. j * n \in Nat /\ k * n \in Nat
    BY <1>0, <2>3
  <2>8. a + n <= b
    BY <1>0, <2>1, <2>2, <2>6, <2>7
  <2>9. QED
    BY <1>0, <2>1, <2>2, <2>7, <2>8 DEF End
<1>4. ASSUME NEW o \in Offset PROVE \E a \in Starts(n) : a <= o /\ o < End(n, a)
  <2> DEFINE T == {x \in Starts(n) : x <= o}
  <2>1. o \in Nat /\ o < Size
    BY OffsetFacts
  <2>2. T \in SUBSET (0 .. Size) /\ T # {}
    <3>1. 0 \in T
      BY <1>1, <2>1
    <3>2. \A x \in T : x \in 0 .. Size
      BY <1>0, <1>1, OffsetFacts
    <3>3. QED
      BY <3>1, <3>2
  <2>3. PICK a \in T : \A x \in T : a >= x
    <3> HIDE DEF T
    <3>1. QED
      BY <1>0, <2>2, GreatestIsIn
  <2>4. a \in Starts(n) /\ a \in Nat /\ a <= o
    BY <1>2
  <2>5. o < End(n, a)
    <3>1. SUFFICES ASSUME End(n, a) <= o PROVE FALSE
      BY <1>2, <2>1, <2>4
    <3>2. End(n, a) \in Starts(n) /\ End(n, a) > a
      BY <1>0, <1>2, <2>1, <2>4, <3>1
    <3>3. End(n, a) \in T
      BY <3>1, <3>2
    <3>4. QED
      BY <1>2, <2>3, <2>4, <3>2, <3>3
  <2>6. QED
    BY <2>4, <2>5
<1>5. QED
  BY <1>1, <1>2, <1>3, <1>4

(* A block is within a set of blocks or apart from it.                     *)
LEMMA BlockIn ==
  ASSUME NEW n \in 1 .. Size, NEW S \in SUBSET Offset, OfBlocks(n, S),
         NEW a \in Starts(n), NEW o \in S, a <= o, o < End(n, a)
  PROVE  Span(a, End(n, a)) \subseteq S /\ a \in S
<1>1. o \in Nat /\ a \in Nat /\ End(n, a) \in Nat /\ a < End(n, a)
  BY BlockFacts, OffsetFacts
<1>2. o \in Span(a, End(n, a)) /\ a \in Span(a, End(n, a))
  BY <1>1, OffsetFacts
<1>3. QED
  BY <1>2 DEF OfBlocks

(* Sets of blocks, with a block more.                                      *)
LEMMA OneBlockMore ==
  ASSUME NEW n \in 1 .. Size, NEW S \in SUBSET Offset, OfBlocks(n, S), NEW a \in Starts(n)
  PROVE  OfBlocks(n, Span(a, End(n, a)) \cup S)
<1> DEFINE A == Span(a, End(n, a))
<1>1. SUFFICES ASSUME NEW b \in Starts(n)
               PROVE  \/ Span(b, End(n, b)) \subseteq A \cup S
                      \/ Span(b, End(n, b)) \cap (A \cup S) = {}
  BY DEF OfBlocks
<1>2. a \in Nat /\ b \in Nat /\ End(n, a) \in Nat /\ End(n, b) \in Nat
  BY BlockFacts
<1>3. a = b \/ Span(b, End(n, b)) \cap A = {}
  <2>1. (a < b => End(n, a) <= b) /\ (b < a => End(n, b) <= a)
    BY BlockFacts
  <2>2. ASSUME a # b, NEW x \in Span(b, End(n, b)), x \in A PROVE FALSE
    <3>1. x \in Int /\ a <= x /\ x < End(n, a) /\ b <= x /\ x < End(n, b)
      BY <1>2, <2>2, OffsetFacts
    <3>2. QED
      BY <1>2, <2>1, <2>2, <3>1
  <2>3. QED
    BY <2>2
<1>4. Span(b, End(n, b)) \subseteq S \/ Span(b, End(n, b)) \cap S = {}
  BY DEF OfBlocks
<1>5. QED
  BY <1>3, <1>4

(* What a target has done of a blob is what its stream has and keeps.      *)
HasAll(s, S) ==
  /\ S = Span(0, s.at) \cup UNION {Span(k[1], k[2]) : k \in s.kept}
  /\ \A k \in s.kept : k[1] > s.at
BlockAt(n, p) == p[1] \in Starts(n) /\ p[2] = End(n, p[1])

LEMMA FirstKept ==
  ASSUME NEW N \in SUBSET Kept, N # {}
  PROVE  \E p \in N : \A q \in N : p[1] <= q[1]
<1> DEFINE T == {p[1] : p \in N}
<1>0. \A p \in N : p[1] \in Nat
  BY OffsetFacts DEF Kept
<1>1. T \in SUBSET Nat /\ T # {}
  BY <1>0
<1>2. PICK x \in T : \A y \in T : x <= y
  <2> HIDE DEF T
  <2>1. QED
    BY <1>1, LeastIsIn
<1>3. QED
  BY <1>2

LEMMA HasAllIn ==
  ASSUME NEW s \in Stream, NEW S
  PROVE  HasAll(s, S) <=>
            /\ \A x : x \in S <=> \/ x \in Nat /\ x < s.at
                                 \/ \E k \in s.kept : x \in Int /\ k[1] <= x /\ x < k[2]
            /\ \A k \in s.kept : k[1] > s.at
<1>1. s.at \in Nat /\ \A k \in s.kept : k[1] \in Nat /\ k[2] \in Nat
  BY OffsetFacts DEF Stream, Kept
<1>2. \A x : x \in Span(0, s.at) <=> x \in Nat /\ x < s.at
  BY <1>1 DEF Span
<1>3. \A k \in s.kept : \A x : x \in Span(k[1], k[2]) <=> x \in Int /\ k[1] <= x /\ x < k[2]
  BY <1>1 DEF Span
<1>4. \A x : x \in UNION {Span(k[1], k[2]) : k \in s.kept}
               <=> \E k \in s.kept : x \in Span(k[1], k[2])
  OBVIOUS
<1>5. (S = Span(0, s.at) \cup UNION {Span(k[1], k[2]) : k \in s.kept})
        <=> \A x : x \in S <=> x \in Span(0, s.at) \cup UNION {Span(k[1], k[2]) : k \in s.kept}
  OBVIOUS
<1>6. QED
  BY <1>2, <1>3, <1>4, <1>5 DEF HasAll

(* A block that is new is kept, or appended with the kept ones that follow *)
(* it: the stream has and keeps just what is done.                         *)
LEMMA StreamTakesBlock ==
  ASSUME NEW n \in 1 .. Size, NEW s \in Stream, NEW S \in SUBSET Offset, HasAll(s, S),
         \A k \in s.kept : BlockAt(n, k),
         NEW p \in Kept, BlockAt(n, p), Span(p[1], p[2]) \cap S = {}
  PROVE  HasAll(StoreFragment(s, p), Span(p[1], p[2]) \cup S)
<1> DEFINE before(k) == {j \in s.kept : j[1] < k[1]}
           follows(k) == k[1] = Greatest({p[2]} \cup {j[2] : j \in before(k)})
           joined == {k \in s.kept : follows(k) /\ \A j \in before(k) : follows(j)}
           ends == {p[2]} \cup {k[2] : k \in joined}
           r == StoreFragment(s, p)
           D == Span(p[1], p[2]) \cup S
<1>0. /\ Size \in Nat /\ s.at \in Nat /\ s.at <= Size
      /\ p[1] \in Nat /\ p[2] \in Nat /\ p[1] < p[2] /\ p[2] <= Size
      /\ \A k \in s.kept : /\ k \in Kept /\ k = <<k[1], k[2]>> /\ k[1] \in Nat /\ k[2] \in Nat
                           /\ k[1] < k[2] /\ k[2] <= Size
  BY OffsetFacts DEF Stream, Kept
<1>1. /\ \A x : x \in S <=> \/ x \in Nat /\ x < s.at
                            \/ \E k \in s.kept : x \in Int /\ k[1] <= x /\ x < k[2]
      /\ \A k \in s.kept : k[1] > s.at
  BY HasAllIn
<1>2. /\ \A x : x \in Span(p[1], p[2]) <=> x \in Int /\ p[1] <= x /\ x < p[2]
      /\ p[1] \in Span(p[1], p[2])
  BY <1>0, OffsetFacts
<1>3. p[1] >= s.at /\ \A k \in s.kept : k[1] # p[1]
  <2>1. p[1] \notin S
    BY <1>2
  <2>2. QED
    BY <1>0, <1>1, <2>1
<1>4. \A j, k \in s.kept : /\ j[1] < k[1] => j[2] <= k[1]
                           /\ j[1] = k[1] => j = k
  <2>1. SUFFICES ASSUME NEW j \in s.kept, NEW k \in s.kept
                 PROVE  /\ j[1] < k[1] => j[2] <= k[1]
                        /\ j[1] = k[1] => j = k
    OBVIOUS
  <2>2. j[1] \in Starts(n) /\ k[1] \in Starts(n) /\ j[2] = End(n, j[1]) /\ k[2] = End(n, k[1])
    BY DEF BlockAt
  <2>3. j = <<j[1], j[2]>> /\ k = <<k[1], k[2]>>
    BY <1>0
  <2>4. QED
    BY <2>2, <2>3, BlockFacts
<1>5. \A k \in s.kept : p[1] < k[1] => p[2] <= k[1]
  BY <1>0, BlockFacts DEF BlockAt
<1>6. r \in Stream
  BY StoreFragmentFacts
<1>7. StoreFragment(s, p) =
         IF p[1] # s.at THEN [s EXCEPT !.kept = {k \in @ : k[1] # p[1]} \cup {p}]
         ELSE [s EXCEPT !.at = Greatest(ends), !.kept = @ \ joined]
  BY DEF StoreFragment
<1> HIDE DEF r, ends
<1>8. CASE p[1] # s.at
  <2>1. r.at = s.at /\ r.kept = s.kept \cup {p}
    BY <1>3, <1>7, <1>8 DEF Stream, r
  <2>2. \A k \in r.kept : k[1] > r.at
    BY <1>0, <1>1, <1>3, <1>8, <2>1
  <2>3. \A x : x \in D <=> \/ x \in Nat /\ x < r.at
                           \/ \E k \in r.kept : x \in Int /\ k[1] <= x /\ x < k[2]
    BY <1>1, <1>2, <2>1
  <2>4. QED
    <3> HIDE DEF D
    <3>1. HasAll(r, D)
      BY <1>6, <2>2, <2>3, HasAllIn
    <3>2. QED
      BY <3>1 DEF r, D
<1>9. CASE p[1] = s.at
  <2> DEFINE at == Greatest(ends)
  <2>1. r.at = at /\ r.kept = s.kept \ joined /\ joined \subseteq s.kept
    BY <1>7, <1>9 DEF Stream, r
  <2>2. ends \in SUBSET (0 .. Size) /\ ends # {}
    <3>1. \A k \in joined : k \in s.kept
      OBVIOUS
    <3> HIDE DEF joined
    <3>2. QED
      BY <1>0, <3>1 DEF ends
  <2>3. at \in ends /\ \A y \in ends : at >= y
    BY <1>0, <2>2, GreatestIsIn
  <2>4. /\ at = p[2] \/ \E k \in joined : at = k[2]
        /\ at \in Nat /\ at >= p[2] /\ \A k \in joined : at >= k[2]
    <3>0. \A k \in joined : k[2] \in Nat
      BY <1>0
    <3> HIDE DEF joined
    <3>1. p[2] \in ends /\ \A k \in joined : k[2] \in ends
      BY DEF ends
    <3>2. at = p[2] \/ \E k \in joined : at = k[2]
      BY <2>3 DEF ends
    <3>3. at \in Nat
      BY <1>0, <3>0, <3>2
    <3> HIDE DEF at
    <3>4. QED
      BY <2>3, <3>1, <3>2, <3>3
  <2>5. ASSUME NEW k \in s.kept
        PROVE  LET G == Greatest({p[2]} \cup {j[2] : j \in before(k)})
               IN  /\ G = p[2] \/ \E j \in before(k) : G = j[2]
                   /\ G >= p[2] /\ \A j \in before(k) : G >= j[2]
    <3> DEFINE E == {p[2]} \cup {j[2] : j \in before(k)}
    <3>1. E \in SUBSET (0 .. Size) /\ E # {}
      BY <1>0
    <3>2. Greatest(E) \in E /\ \A y \in E : Greatest(E) >= y
      <4> HIDE DEF E
      <4>1. QED
        BY <1>0, <3>1, GreatestIsIn
    <3>3. QED
      BY <3>2
  <2> HIDE DEF at
  <2>6. \A k \in joined : k \in s.kept /\ follows(k) /\ \A j \in before(k) : j \in joined
    <3>1. ASSUME NEW k \in joined, NEW j \in before(k) PROVE j \in joined
      <4>1. follows(j) /\ j \in s.kept /\ j[1] < k[1]
        OBVIOUS
      <4>2. \A i \in before(j) : i \in before(k)
        <5>1. ASSUME NEW i \in s.kept, i[1] < j[1] PROVE i[1] < k[1]
          BY <1>0, <4>1, <5>1
        <5>2. QED
          BY <5>1
      <4>3. \A i \in before(j) : follows(i)
        BY <4>2
      <4>4. QED
        BY <4>1, <4>3
    <3>2. QED
      BY <3>1
  <2>7. ASSUME NEW x \in Nat, x < at PROVE x \in D
    <3>1. SUFFICES ASSUME x \notin D PROVE FALSE
      OBVIOUS
    <3>2. x \notin S /\ ~(p[1] <= x /\ x < p[2])
      BY <1>2, <3>1
    <3>3. x >= p[2] /\ \A k \in s.kept : x < k[1] \/ x >= k[2]
      BY <1>0, <1>1, <1>9, <3>2
    <3> DEFINE J == {j \in joined : x < j[1]}
    <3>4. J # {}
      <4>0. at # p[2]
        BY <2>7, <3>3, <1>0
      <4>1. PICK k \in joined : at = k[2]
        <5> HIDE DEF joined
        <5>1. QED
          BY <2>4, <4>0
      <4>2. k \in s.kept /\ x < k[2]
        BY <2>6, <2>7, <4>1
      <4>3. k \in J
        BY <1>0, <3>3, <4>2
      <4>4. QED
        BY <4>3
    <3>5. PICK m \in J : \A q \in J : m[1] <= q[1]
      <4>1. J \in SUBSET Kept
        BY <1>0, <2>6
      <4> HIDE DEF J
      <4>2. QED
        BY <3>4, <4>1, FirstKept
    <3>6. m \in joined /\ m \in s.kept /\ x < m[1] /\ follows(m)
      BY <2>6
    <3>7. m[1] = p[2] \/ \E j \in before(m) : m[1] = j[2]
      <4> HIDE DEF joined, J
      <4>1. QED
        BY <2>5, <3>6
    <3>8. PICK j \in before(m) : m[1] = j[2]
      <4>1. m[1] # p[2]
        BY <1>0, <3>3, <3>6
      <4> HIDE DEF joined, J
      <4>2. QED
        BY <3>7, <4>1
    <3>9. j \in joined /\ j \in s.kept /\ j[1] < m[1]
      BY <2>6, <3>6
    <3>10. x < j[1]
      BY <1>0, <3>3, <3>6, <3>8, <3>9
    <3>11. j \in J
      BY <3>9, <3>10
    <3>12. m[1] <= j[1] /\ m[1] \in Nat /\ j[1] \in Nat
      <4> HIDE DEF joined, J, before
      <4>1. QED
        BY <1>0, <3>5, <3>6, <3>9, <3>11
    <3>13. QED
      BY <3>9, <3>12
  <2>8. ASSUME NEW k \in s.kept \ joined PROVE k[1] > at
    <3>1. SUFFICES ASSUME k[1] <= at PROVE FALSE
      BY <1>0, <2>4
    <3> DEFINE J == s.kept \ joined
    <3>2. PICK m \in J : \A q \in J : m[1] <= q[1]
      <4>1. J \in SUBSET Kept /\ J # {}
        BY <1>0
      <4> HIDE DEF J
      <4>2. QED
        BY <4>1, FirstKept
    <3>3. m \in s.kept /\ m \notin joined /\ m[1] <= at
      BY <1>0, <2>4, <3>1, <3>2
    <3>4. \A j \in before(m) : j \in joined
      <4>1. ASSUME NEW j \in s.kept, j[1] < m[1], j \notin joined PROVE FALSE
        <5>1. j \in J
          BY <4>1
        <5>2. QED
          BY <1>0, <3>2, <3>3, <4>1, <5>1
      <4>2. QED
        BY <4>1
    <3>5. \A j \in before(m) : follows(j)
      <4> HIDE DEF joined, follows
      <4>1. \A j \in joined : follows(j)
        BY <2>6
      <4>2. QED
        BY <3>4, <4>1
    <3>6. ~follows(m)
      BY <3>3, <3>5
    <3>7. m[1] >= p[2] /\ \A j \in before(m) : m[1] >= j[2]
      <4>1. m[1] > p[1] /\ m[1] \in Nat
        BY <1>0, <1>1, <1>9, <3>3
      <4>2. m[1] >= p[2]
        BY <1>0, <1>5, <3>3, <4>1
      <4>3. \A j \in before(m) : m[1] >= j[2]
        BY <1>0, <1>4, <3>3
      <4>4. QED
        BY <4>2, <4>3
    <3> DEFINE G == Greatest({p[2]} \cup {j[2] : j \in before(m)})
    <3>8. m[1] > G /\ G \in Nat /\ G >= p[2] /\ \A j \in before(m) : G >= j[2]
      <4>1. m[1] # G
        BY <3>6
      <4>2. G = p[2] \/ \E j \in before(m) : G = j[2]
        BY <2>5, <3>3
      <4>3. G >= p[2] /\ \A j \in before(m) : G >= j[2]
        BY <2>5, <3>3
      <4>4. \A j \in before(m) : j[2] \in Nat
        BY <1>0
      <4> HIDE DEF G
      <4>5. QED
        BY <1>0, <3>3, <3>7, <4>1, <4>2, <4>3, <4>4
    <3> HIDE DEF G
    <3>9. PICK i \in joined : at = i[2]
      <4>1. at # p[2]
        BY <1>0, <2>4, <3>3, <3>8
      <4> HIDE DEF joined
      <4>2. QED
        BY <2>4, <4>1
    <3>10. i \in s.kept /\ i # m
      BY <2>6, <3>3
    <3>11. CASE i[1] < m[1]
      <4>1. i \in before(m)
        BY <3>10, <3>11
      <4>2. QED
        BY <1>0, <3>3, <3>8, <3>9, <3>10, <4>1
    <3>12. CASE m[1] < i[1]
      <4>1. m \in before(i)
        BY <3>3, <3>12
      <4>2. QED
        BY <2>6, <3>3, <4>1
    <3>13. QED
      BY <1>0, <1>4, <3>3, <3>10, <3>11, <3>12
  <2>9. ASSUME NEW x \in D
        PROVE  \/ x \in Nat /\ x < at
               \/ \E k \in s.kept \ joined : x \in Int /\ k[1] <= x /\ x < k[2]
    <3>1. CASE x \in Span(p[1], p[2])
      BY <1>0, <1>2, <2>4, <3>1
    <3>2. CASE x \in Nat /\ x < s.at
      BY <1>0, <1>9, <2>4, <3>2
    <3>3. ASSUME NEW k \in s.kept, x \in Int, k[1] <= x, x < k[2]
          PROVE  \/ x \in Nat /\ x < at
                 \/ \E i \in s.kept \ joined : x \in Int /\ i[1] <= x /\ x < i[2]
      <4>1. CASE k \in joined
        <5> HIDE DEF joined
        <5>1. QED
          BY <1>0, <2>4, <3>3, <4>1
      <4>2. CASE k \notin joined
        <5> HIDE DEF joined
        <5>1. QED
          BY <3>3, <4>2
      <4>3. QED
        BY <4>1, <4>2
    <3>4. x \in Span(p[1], p[2]) \/ x \in S
      OBVIOUS
    <3> HIDE DEF joined
    <3>5. QED
      BY <1>1, <3>1, <3>2, <3>3, <3>4
  <2>10. ASSUME NEW k \in s.kept \ joined, NEW x \in Int, k[1] <= x, x < k[2] PROVE x \in D
    <3>1. k \in s.kept
      OBVIOUS
    <3>2. QED
      BY <1>1, <2>10, <3>1
  <2>11. HasAll(r, D)
    <3> HIDE DEF D, joined
    <3>1. \A x : x \in D <=> \/ x \in Nat /\ x < r.at
                             \/ \E k \in r.kept : x \in Int /\ k[1] <= x /\ x < k[2]
      BY <2>1, <2>7, <2>9, <2>10
    <3>2. \A k \in r.kept : k[1] > r.at
      BY <2>1, <2>8
    <3>3. QED
      BY <1>6, <3>1, <3>2, HasAllIn
  <2>12. QED
    BY <2>11 DEF r
<1>10. QED
  BY <1>8, <1>9

-----------------------------------------------------------------------------
(* What the steps do.                                                      *)

LEMMA PlanChanges ==
  ASSUME NEW p \in PlanType, IsPatient(p), NEW q,
         \/ q = p
         \/ p.rushes > 0 /\ q = [p EXCEPT !.rushes = @ - 1]
         \/ p.losses > 0 /\ q = [p EXCEPT !.losses = @ - 1]
  PROVE  /\ q \in PlanType /\ IsPatient(q)
         /\ q.to = p.to /\ q.pieces = p.pieces /\ q.calm = p.calm
         /\ q.expires = p.expires /\ q.expected = p.expected
<1>1. CASE q = p
  BY <1>1
<1>2. CASE p.rushes > 0 /\ q = [p EXCEPT !.rushes = @ - 1]
  <2>1. p.rushes \in Nat /\ p.rushes - 1 \in Nat
    BY <1>2 DEF PlanType
  <2>2. q \in PlanType /\ ~p.calm /\ q.calm = p.calm
    BY <1>2, <2>1 DEF PlanType, IsPatient
  <2>3. QED
    BY <1>2, <2>2 DEF PlanType, IsPatient
<1>3. CASE p.losses > 0 /\ q = [p EXCEPT !.losses = @ - 1]
  <2>1. p.losses \in Nat /\ p.losses - 1 \in Nat
    BY <1>3 DEF PlanType
  <2>2. QED
    BY <1>3, <2>1 DEF PlanType, IsPatient
<1>4. QED
  BY <1>1, <1>2, <1>3

(* The scenario stays the same but for its bounds, of which a calm one     *)
(* spends no rush.                                                         *)
LEMMA PlanSteps ==
  ASSUME TypeOK, [Next]_vars
  PROVE  /\ plan' \in PlanType /\ IsPatient(plan)'
         /\ plan'.to = plan.to /\ plan'.pieces = plan.pieces /\ plan'.calm = plan.calm
         /\ plan'.expires = plan.expires /\ plan'.expected = plan.expected
<1>1. plan \in PlanType /\ IsPatient(plan)
  BY DEF TypeOK
<1>2. \/ plan' = plan
      \/ plan.rushes > 0 /\ plan' = [plan EXCEPT !.rushes = @ - 1]
      \/ plan.losses > 0 /\ plan' = [plan EXCEPT !.losses = @ - 1]
  BY DEF Next, vars, Push, SendFragment, LingerOut, Expire, AskForGap, HandleComplete, TimeOut,
         ProcessIncoming, ProcessResend, Lose, Timely, Rush
<1>3. IsPatient(plan)' = IsPatient(plan')
  BY DEF IsPatient
<1>4. QED
  BY <1>1, <1>2, <1>3, PlanChanges

LEMMA CalmIsTimely ==
  ASSUME TypeOK, plan.calm, NEW mature \in BOOLEAN, Timely(mature)
  PROVE  mature /\ UNCHANGED plan
<1>1. plan.rushes = 0
  BY DEF TypeOK, PlanType, IsPatient
<1>2. QED
  BY <1>1 DEF Timely, Rush

LEMMA SendEffect ==
  ASSUME TypeOK, NEW b \in Blob, SendFragment(b)
  PROVE  \E bgn \in Offset, end \in 1 .. Size :
           /\ bgn < end /\ outgoing[b] = "sending"
           /\ bgn \in todo[b] /\ bgn - 1 \notin todo[b]
           /\ \A p \in Parts(todo[b]) : p[1] <= bgn
           /\ todo' = [todo EXCEPT ![b] = @ \ Span(bgn, end)]
           /\ fragments \subseteq fragments'
           /\ \A m \in fragments' \ fragments :
                 /\ m \in Fragment /\ m.to \in plan.to
                 /\ m.blob = b /\ m.bgn = bgn /\ m.end = end
           /\ \A m, k \in fragments' \ fragments : m.to = k.to => m = k
           /\ \A t \in plan.to : \E m \in fragments' :
                 m.to = t /\ m.blob = b /\ m.bgn = bgn /\ m.end = end
           /\ \A n \in 1 .. Size : plan.pieces = {n} => end = End(n, bgn)
           /\ UNCHANGED <<outgoing, incoming, sink, delivered, quit, requests, lost, plan>>
<1>1. PICK n \in plan.pieces :
        LET bgn == Back(todo[b])[1]
            end == IF bgn + n < Size THEN bgn + n ELSE Size
        IN  /\ \A t \in plan.to : Copy(t, b, bgn, end) # {}
            /\ todo' = [todo EXCEPT ![b] = @ \ Span(bgn, end)]
            /\ fragments' = fragments \cup Sent(b, bgn, end)
  BY DEF SendFragment
<1> DEFINE bgn == Back(todo[b])[1]
           end == IF bgn + n < Size THEN bgn + n ELSE Size
<1>2. todo[b] \in SUBSET Offset /\ todo[b] # {} /\ plan.to \subseteq Target /\ n \in 1 .. Size
  BY DEF SendFragment, TypeOK, PlanType
<1>3. /\ Back(todo[b]) \in Parts(todo[b])
      /\ \A p \in Parts(todo[b]) : p[1] <= bgn
  BY <1>2, BackIsLast
<1>4. bgn \in Offset /\ bgn \in todo[b] /\ bgn - 1 \notin todo[b]
  BY <1>2, <1>3, PartFacts DEF Parts
<1>5. end \in 1 .. Size /\ bgn < end /\ end = End(n, bgn)
  BY <1>2, <1>4, OffsetFacts DEF End
<1> HIDE DEF bgn, end
<1> DEFINE F(t) == [to |-> t, blob |-> b, bgn |-> bgn, end |-> end,
                    copy |-> Least(Copy(t, b, bgn, end))]
<1>6. ASSUME NEW t \in plan.to PROVE F(t) \in Fragment
  <2>1. Copy(t, b, bgn, end) \in SUBSET Nat /\ Copy(t, b, bgn, end) # {}
        /\ Copy(t, b, bgn, end) \subseteq 1 .. Copies
    BY <1>1, BlobsAssumption DEF Copy, bgn, end
  <2>2. Least(Copy(t, b, bgn, end)) \in Copy(t, b, bgn, end)
    BY <2>1, LeastIsIn
  <2>3. QED
    BY <1>2, <1>4, <1>5, <2>1, <2>2 DEF Fragment
<1>7. fragments' = fragments \cup {F(t) : t \in plan.to}
  BY <1>1 DEF Sent, bgn, end
<1>8. \A t : F(t).to = t /\ F(t).blob = b /\ F(t).bgn = bgn /\ F(t).end = end
  OBVIOUS
<1> HIDE DEF F
<1>9. \A m \in fragments' \ fragments :
          /\ m \in Fragment /\ m.to \in plan.to /\ m = F(m.to)
          /\ m.blob = b /\ m.bgn = bgn /\ m.end = end
  BY <1>6, <1>7, <1>8
<1>10. \A t \in plan.to : F(t) \in fragments'
  BY <1>7
<1>11. \A k \in 1 .. Size : plan.pieces = {k} => end = End(k, bgn)
  BY <1>5
<1>12. todo' = [todo EXCEPT ![b] = @ \ Span(bgn, end)]
  BY <1>1 DEF bgn, end
<1>13. fragments \subseteq fragments'
  BY <1>7
<1>14. outgoing[b] = "sending" /\ UNCHANGED <<outgoing, incoming, sink, delivered, quit, requests, lost, plan>>
  BY DEF SendFragment, targetVars
<1>15. \A m, k \in fragments' \ fragments : m.to = k.to => m = k
  BY <1>9
<1>16. \A t \in plan.to : \E m \in fragments' :
                 m.to = t /\ m.blob = b /\ m.bgn = bgn /\ m.end = end
  BY <1>8, <1>10
<1> USE <1>4, <1>5
<1> WITNESS bgn \in Offset, end \in 1 .. Size
<1>17. QED
  BY <1>3, <1>9, <1>11, <1>12, <1>13, <1>14, <1>15, <1>16

LEMMA AskEffect ==
  ASSUME TypeOK, NEW t \in Target, NEW b \in Blob, AskForGap(t, b)
  PROVE  \E bgn \in Offset, end \in 1 .. Size :
           /\ bgn < end /\ incoming[t][b] # None /\ incoming[t][b].done # {}
           /\ bgn \notin incoming[t][b].done
           /\ \A o \in Offset : o < bgn => o \in incoming[t][b].done
           /\ Span(bgn, end) \cap incoming[t][b].done = {}
           /\ requests' = requests \cup {[blob |-> b, bgn |-> bgn, end |-> end]}
           /\ Timely(todo[b] = {} /\ ~Flying(t, b) /\ ~Asking(b))
           /\ UNCHANGED <<outgoing, todo, incoming, sink, delivered, quit, fragments, lost>>
<1> DEFINE S == incoming[t][b].done
           gap == FirstGap(S)
<1>1. incoming[t][b] # None /\ S # {} /\ S # Offset
  BY DEF AskForGap, Begun, Complete
<1>2. S \in SUBSET Offset
  BY <1>1 DEF TypeOK, Incoming
<1>3. requests' = requests \cup {[blob |-> b, bgn |-> gap[1], end |-> gap[2]]}
  BY DEF AskForGap
<1>4. /\ Timely(todo[b] = {} /\ ~Flying(t, b) /\ ~Asking(b))
      /\ UNCHANGED <<outgoing, todo, incoming, sink, delivered, quit, fragments, lost>>
  BY DEF AskForGap, senderVars, targetVars
<1>5. /\ gap[1] \in Offset \ S /\ gap[2] \in 1 .. Size /\ gap[1] < gap[2]
      /\ \A o \in Offset : o < gap[1] => o \in S
      /\ Span(gap[1], gap[2]) \cap S = {}
  BY <1>1, <1>2, FirstGapIsFree
<1> HIDE DEF gap
<1>6. QED
  BY <1>1, <1>3, <1>4, <1>5

(* A fragment as it comes.                                                 *)
LEMMA IncomingEffect ==
  ASSUME TypeOK, NEW m \in fragments, ProcessIncoming(m)
  PROVE  LET e == incoming[m.to][m.blob]
             S == Done(m.to, m.blob)
             i == [done |-> Span(m.bgn, m.end) \cup S, expected |-> Awaits(m.to, m.blob)]
         IN  /\ m \in Fragment /\ m.to \in Target /\ m.blob \in Blob
             /\ m.bgn \in Offset /\ m.end \in 1 .. Size /\ m.bgn < m.end
             /\ <<m.bgn, m.end>> \in Kept
             /\ S \in SUBSET Offset /\ i \in Incoming /\ i # None
             /\ incoming' = [incoming EXCEPT ![m.to][m.blob] = i]
             /\ sink' = IF Awaits(m.to, m.blob)
                        THEN [sink EXCEPT ![m.to][SinkOf[m.blob]] =
                                Store(@, Stores(S, m.bgn, m.end))]
                        ELSE sink
             /\ fragments' = fragments \ {m}
             /\ UNCHANGED <<outgoing, todo, delivered, quit, requests, lost, plan>>
<1> DEFINE e == incoming[m.to][m.blob]
           S == Done(m.to, m.blob)
           i == [done |-> Span(m.bgn, m.end) \cup S, expected |-> Awaits(m.to, m.blob)]
<1>1. /\ m \in Fragment /\ m.to \in Target /\ m.blob \in Blob
      /\ m.bgn \in Offset /\ m.end \in 1 .. Size /\ m.bgn < m.end
  BY DEF TypeOK, Fragment
<1>2. e \in Incoming \cup {None}
  BY <1>1 DEF TypeOK
<1>3. S \in SUBSET Offset /\ Awaits(m.to, m.blob) \in BOOLEAN
  BY <1>2 DEF Done, Incoming, Awaits
<1>4. Span(m.bgn, m.end) \in SUBSET Offset
  BY <1>1, OffsetFacts
<1>5. i \in Incoming
  BY <1>3, <1>4 DEF Incoming
<1>6. i # None
  BY <1>5, NoneAssumption
<1>7. /\ incoming' = [incoming EXCEPT ![m.to][m.blob] =
              [done |-> Span(m.bgn, m.end) \cup (IF e = None THEN {} ELSE e.done),
               expected |-> e # None /\ e.expected]]
      /\ sink' = IF e = None \/ ~e.expected THEN sink
                 ELSE [sink EXCEPT ![m.to][SinkOf[m.blob]] =
                          Store(@, Stores(e.done, m.bgn, m.end))]
      /\ fragments' = fragments \ {m}
      /\ UNCHANGED <<outgoing, todo, delivered, quit, requests, lost, plan>>
  BY DEF ProcessIncoming, senderVars
<1>8. incoming' = [incoming EXCEPT ![m.to][m.blob] = i]
  BY <1>7 DEF Done, Awaits
<1>9. Awaits(m.to, m.blob) => S = e.done /\ ~(e = None \/ ~e.expected)
  BY DEF Done, Awaits
<1>10. ~Awaits(m.to, m.blob) => (e = None \/ ~e.expected)
  BY DEF Awaits
<1>11. sink' = IF Awaits(m.to, m.blob)
               THEN [sink EXCEPT ![m.to][SinkOf[m.blob]] = Store(@, Stores(S, m.bgn, m.end))]
               ELSE sink
  <2> HIDE DEF S, e, i
  <2>1. CASE Awaits(m.to, m.blob)
    BY <1>7, <1>9, <2>1 DEF e
  <2>2. CASE ~Awaits(m.to, m.blob)
    BY <1>7, <1>10, <2>2 DEF e
  <2>3. QED
    BY <2>1, <2>2
<1>12. <<m.bgn, m.end>> \in Kept
  BY <1>1 DEF Kept
<1> HIDE DEF S, e, i
<1>13. QED
  BY <1>1, <1>3, <1>5, <1>6, <1>7, <1>8, <1>11, <1>12 DEF S, i

-----------------------------------------------------------------------------
(* The types.                                                              *)

LEMMA SinkTypes ==
  ASSUME TypeOK
  PROVE  /\ SinkOf \in [Blob -> Sink]
         /\ sink \in [Target -> [Sink -> Stream]]
         /\ incoming \in [Target -> [Blob -> Incoming \cup {None}]]
         /\ delivered \in [Target -> [Blob -> 0 .. 2]]
         /\ None \notin Incoming
  BY BlobsAssumption, NoneAssumption DEF TypeOK, Stream

LEMMA StreamEnds ==
  ASSUME NEW s \in Stream
  PROVE  /\ s.finished \in 0 .. 2 /\ s.cancelled \in 0 .. 2
         /\ [s EXCEPT !.finished = More(@)] \in Stream
         /\ [s EXCEPT !.cancelled = More(@)] \in Stream
  BY DEF Stream, More

LEMMA InitTypes ==
  Init => TypeOK
<1>1. SUFFICES ASSUME Init PROVE TypeOK
  OBVIOUS
<1>2. plan \in PlanType /\ IsPatient(plan)
  <2>1. plan \in Scenarios
    BY <1>1 DEF Init
  <2>2. QED
    BY <2>1, BlobsAssumption
<1>3. Expected \in Incoming
  BY DEF Expected, Incoming
<1>4. incoming \in [Target -> [Blob -> Incoming \cup {None}]]
  <2>1. incoming = [t \in Target |-> [b \in Blob |->
                        IF plan.expected /\ t \in plan.to THEN Expected ELSE None]]
    BY <1>1 DEF Init
  <2>2. QED
    BY <1>3, <2>1
<1>5. [at |-> 0, kept |-> {}, finished |-> 0, cancelled |-> 0] \in Stream
  BY OffsetFacts DEF Stream
<1>6. sink \in [Target -> [Sink -> Stream]]
  <2>1. sink = [t \in Target |-> [s \in Sink |->
                    [at |-> 0, kept |-> {}, finished |-> 0, cancelled |-> 0]]]
    BY <1>1 DEF Init
  <2>2. QED
    BY <1>5, <2>1
<1>7. QED
  BY <1>1, <1>2, <1>4, <1>6 DEF Init, TypeOK, Stream

LEMMA NextTypes ==
  ASSUME TypeOK, [Next]_vars
  PROVE  TypeOK'
<1> USE DEF TypeOK
<1>0. plan' \in PlanType /\ IsPatient(plan)'
  BY PlanSteps
<1>a. sink \in [Target -> [Sink -> Stream]] /\ SinkOf \in [Blob -> Sink]
  BY SinkTypes
<1>b. sink' \in [Target -> [Sink -> Stream]] /\ outgoing' = outgoing /\ todo' = todo
      /\ incoming' \in [Target -> [Blob -> Incoming \cup {None}]]
      /\ delivered' \in [Target -> [Blob -> 0 .. 2]] /\ quit' \subseteq Target \X Blob
      /\ UNCHANGED <<fragments, requests, lost>> => TypeOK'
  BY <1>0 DEF Stream
<1>1. ASSUME NEW b \in Blob, Push(b) PROVE TypeOK'
  BY <1>0, <1>1 DEF Push, targetVars, netVars
<1>2. ASSUME NEW b \in Blob, SendFragment(b) PROVE TypeOK'
  <2>1. PICK bgn \in Offset, end \in 1 .. Size :
           /\ todo' = [todo EXCEPT ![b] = @ \ Span(bgn, end)]
           /\ \A m \in fragments' \ fragments : m \in Fragment
           /\ UNCHANGED <<outgoing, incoming, sink, delivered, quit, requests, lost, plan>>
    BY <1>2, SendEffect
  <2>2. todo' \in [Blob -> SUBSET Offset] /\ fragments' \subseteq Fragment
    BY <2>1
  <2>3. QED
    BY <1>0, <2>1, <2>2
<1>3. ASSUME NEW b \in Blob, LingerOut(b) PROVE TypeOK'
  BY <1>0, <1>3 DEF LingerOut, targetVars, netVars
<1>4. ASSUME NEW b \in Blob, Expire(b) PROVE TypeOK'
  BY <1>0, <1>4 DEF Expire, targetVars, netVars
<1>5. ASSUME NEW t \in Target, NEW b \in Blob, AskForGap(t, b) PROVE TypeOK'
  <2>1. PICK bgn \in Offset, end \in 1 .. Size :
           /\ bgn < end
           /\ requests' = requests \cup {[blob |-> b, bgn |-> bgn, end |-> end]}
           /\ UNCHANGED <<outgoing, todo, incoming, sink, delivered, quit, fragments, lost>>
    BY <1>5, AskEffect
  <2>2. requests' \subseteq Request
    BY <2>1 DEF Request
  <2>3. QED
    BY <1>0, <2>1, <2>2
<1>6. ASSUME NEW t \in Target, NEW b \in Blob, HandleComplete(t, b) PROVE TypeOK'
  <2>1. incoming' \in [Target -> [Blob -> Incoming \cup {None}]]
    BY <1>6 DEF HandleComplete
  <2>2. delivered' \in [Target -> [Blob -> 0 .. 2]]
    BY <1>6 DEF HandleComplete, More
  <2>3. sink' \in [Target -> [Sink -> Stream]]
    <3>1. sink[t][SinkOf[b]] \in Stream
      BY <1>a
    <3>2. [sink[t][SinkOf[b]] EXCEPT !.finished = More(@)] \in Stream
      BY <3>1, StreamEnds
    <3>3. QED
      BY <1>6, <1>a, <3>2 DEF HandleComplete
  <2>4. QED
    BY <1>6, <1>b, <2>1, <2>2, <2>3 DEF HandleComplete, senderVars, netVars
<1>7. ASSUME NEW t \in Target, NEW b \in Blob, TimeOut(t, b) PROVE TypeOK'
  <2>1. incoming' \in [Target -> [Blob -> Incoming \cup {None}]]
    BY <1>7 DEF TimeOut, CancelIncoming
  <2>2. sink' \in [Target -> [Sink -> Stream]]
    <3>1. sink[t][SinkOf[b]] \in Stream
      BY <1>a
    <3>2. [sink[t][SinkOf[b]] EXCEPT !.cancelled = More(@)] \in Stream
      BY <3>1, StreamEnds
    <3>3. QED
      BY <1>7, <1>a, <3>2 DEF TimeOut, CancelIncoming
  <2>3. quit' \subseteq Target \X Blob
    BY <1>7 DEF TimeOut, CancelIncoming
  <2>4. QED
    BY <1>7, <1>b, <2>1, <2>2, <2>3 DEF TimeOut, CancelIncoming, senderVars, netVars
<1>8. ASSUME NEW m \in fragments, ProcessIncoming(m) PROVE TypeOK'
  <2> DEFINE S == Done(m.to, m.blob)
             i == [done |-> Span(m.bgn, m.end) \cup S, expected |-> Awaits(m.to, m.blob)]
  <2>1. /\ m.to \in Target /\ m.blob \in Blob
        /\ m.bgn \in Offset /\ m.end \in 1 .. Size /\ m.bgn < m.end
        /\ S \in SUBSET Offset /\ i \in Incoming
        /\ incoming' = [incoming EXCEPT ![m.to][m.blob] = i]
        /\ sink' = IF Awaits(m.to, m.blob)
                   THEN [sink EXCEPT ![m.to][SinkOf[m.blob]] =
                                Store(@, Stores(S, m.bgn, m.end))]
                   ELSE sink
        /\ fragments' = fragments \ {m}
        /\ UNCHANGED <<outgoing, todo, delivered, quit, requests, lost, plan>>
    BY <1>8, IncomingEffect
  <2> HIDE DEF i, S
  <2>2. incoming' \in [Target -> [Blob -> Incoming \cup {None}]]
    BY <2>1
  <2>3. sink[m.to][SinkOf[m.blob]] \in Stream
    BY <1>a, <2>1
  <2>4. Store(sink[m.to][SinkOf[m.blob]], Stores(S, m.bgn, m.end)) \in Stream
    BY <2>1, <2>3, StoreFacts
  <2>5. sink' \in [Target -> [Sink -> Stream]]
    BY <1>a, <2>1, <2>4
  <2>6. QED
    BY <1>0, <2>1, <2>2, <2>5 DEF Stream
<1>9. ASSUME NEW r \in requests, ProcessResend(r) PROVE TypeOK'
  <2>1. r.blob \in Blob /\ r.bgn \in Offset /\ r.end \in 1 .. Size
    BY DEF Request
  <2>2. MergeResendRequest(todo[r.blob], r.bgn, r.end) \in SUBSET Offset
    BY <2>1, OffsetFacts DEF MergeResendRequest
  <2>3. QED
    BY <1>0, <1>9, <2>1, <2>2 DEF ProcessResend, targetVars
<1>10. ASSUME Lose PROVE TypeOK'
  <2>1. UNCHANGED <<outgoing, todo, incoming, sink, delivered, quit>>
    BY <1>10 DEF Lose, senderVars, targetVars
  <2>2. ASSUME NEW m \in fragments, fragments' = fragments \ {m}, requests' = requests,
               lost' = lost \cup {<<m.to, m.blob, o>> : o \in Span(m.bgn, m.end)}
        PROVE  TypeOK'
    <3>1. m.to \in Target /\ m.blob \in Blob /\ Span(m.bgn, m.end) \subseteq Offset
      <4>1. m \in Fragment
        OBVIOUS
      <4> HIDE DEF TypeOK
      <4>2. QED
        BY <4>1, OffsetFacts DEF Fragment
    <3>2. lost' \subseteq Target \X Blob \X Offset
      BY <2>2, <3>1
    <3>3. QED
      BY <1>0, <2>1, <2>2, <3>2
  <2>3. ASSUME NEW r \in requests, requests' = requests \ {r}, UNCHANGED <<fragments, lost>>
        PROVE  TypeOK'
    BY <1>0, <2>1, <2>3
  <2>4. QED
    BY <1>10, <2>2, <2>3 DEF Lose
<1>11. CASE UNCHANGED vars
  BY <1>0, <1>11 DEF vars, senderVars, targetVars, netVars
<1>12. QED
  BY <1>1, <1>2, <1>3, <1>4, <1>5, <1>6, <1>7, <1>8, <1>9, <1>10, <1>11 DEF Next

-----------------------------------------------------------------------------
(* Nothing is forgotten.                                                   *)

Carries(m, t, b, o) == m.to = t /\ m.blob = b /\ o \in Span(m.bgn, m.end)
Accounted(b, t, o) ==
  \/ o \in todo[b]
  \/ \E m \in fragments : Carries(m, t, b, o)
  \/ incoming[t][b] # None /\ o \in incoming[t][b].done
  \/ delivered[t][b] > 0
  \/ <<t, b>> \in quit \/ <<t, b, o>> \in lost

LEMMA NextForgetsNothing ==
  ASSUME TypeOK, NothingIsForgotten, [Next]_vars
  PROVE  NothingIsForgotten'
<1>1. plan'.to = plan.to /\ plan.to \subseteq Target
  BY PlanSteps DEF TypeOK, PlanType
<1>2. SUFFICES ASSUME NEW b \in Blob, NEW t \in plan.to, NEW o \in Offset,
                      outgoing'[b] = "sending"
               PROVE  Accounted(b, t, o)'
  <2>1. NothingIsForgotten' <=> \A b \in Blob, t \in plan'.to : \A o \in Offset :
            outgoing'[b] = "sending" => Accounted(b, t, o)'
    BY DEF NothingIsForgotten, Accounted, Carries
  <2>2. QED
    BY <1>1, <2>1
<1>3. t \in Target
  BY <1>1
<1>4. outgoing[b] = "sending" => Accounted(b, t, o)
  BY DEF NothingIsForgotten, Accounted, Carries
<1>a. Accounted(b, t, o) /\ UNCHANGED <<todo, fragments, incoming, delivered, quit, lost>>
        => Accounted(b, t, o)'
  BY DEF Accounted
<1>5. ASSUME NEW c \in Blob, Push(c) PROVE Accounted(b, t, o)'
  <2>1. outgoing[c] = "new" /\ outgoing' = [outgoing EXCEPT ![c] = "sending"]
        /\ todo' = [todo EXCEPT ![c] = Offset]
        /\ UNCHANGED <<incoming, sink, delivered, quit, fragments, requests, lost>>
    BY <1>5 DEF Push, targetVars, netVars
  <2>2. CASE c = b
    BY <2>1, <2>2 DEF Accounted, TypeOK
  <2>3. CASE c # b
    <3>1. outgoing[b] = "sending" /\ todo'[b] = todo[b]
      BY <1>2, <2>1, <2>3 DEF TypeOK
    <3>2. QED
      BY <1>4, <2>1, <3>1 DEF Accounted
  <2>4. QED
    BY <2>2, <2>3
<1>6. ASSUME NEW c \in Blob, SendFragment(c) PROVE Accounted(b, t, o)'
  <2>1. PICK bgn \in Offset, end \in 1 .. Size :
           /\ todo' = [todo EXCEPT ![c] = @ \ Span(bgn, end)]
           /\ fragments \subseteq fragments'
           /\ \A u \in plan.to : \E m \in fragments' :
                 m.to = u /\ m.blob = c /\ m.bgn = bgn /\ m.end = end
           /\ UNCHANGED <<outgoing, incoming, sink, delivered, quit, requests, lost, plan>>
    BY <1>6, SendEffect
  <2>2. Accounted(b, t, o)
    BY <1>2, <1>4, <2>1
  <2>3. CASE o \in todo[b] /\ ~(o \in todo'[b])
    <3>1. c = b /\ o \in Span(bgn, end)
      BY <2>1, <2>3 DEF TypeOK
    <3>2. \E m \in fragments' : Carries(m, t, b, o)
      BY <2>1, <3>1 DEF Carries
    <3>3. QED
      BY <3>2 DEF Accounted, Carries
  <2>4. CASE ~(o \in todo[b] /\ ~(o \in todo'[b]))
    BY <2>1, <2>2, <2>4 DEF Accounted, Carries
  <2>5. QED
    BY <2>3, <2>4
<1>7. ASSUME NEW c \in Blob, LingerOut(c) PROVE Accounted(b, t, o)'
  <2>1. outgoing[b] = "sending"
    BY <1>2, <1>7 DEF LingerOut, TypeOK
  <2>2. QED
    BY <1>4, <1>7, <1>a, <2>1 DEF LingerOut, targetVars, netVars
<1>8. ASSUME NEW c \in Blob, Expire(c) PROVE Accounted(b, t, o)'
  <2>1. outgoing[b] = "sending" /\ todo'[b] = todo[b]
    BY <1>2, <1>8 DEF Expire, TypeOK
  <2>2. QED
    BY <1>4, <1>8, <2>1 DEF Expire, targetVars, netVars, Accounted
<1>9. ASSUME NEW u \in Target, NEW c \in Blob, AskForGap(u, c) PROVE Accounted(b, t, o)'
  BY <1>2, <1>4, <1>9, <1>a DEF AskForGap, senderVars, targetVars
<1>10. ASSUME NEW u \in Target, NEW c \in Blob, HandleComplete(u, c) PROVE Accounted(b, t, o)'
  <2>1. /\ incoming' = [incoming EXCEPT ![u][c] = None]
        /\ delivered' = [delivered EXCEPT ![u][c] = More(@)]
        /\ UNCHANGED <<outgoing, todo, quit, fragments, requests, lost>>
    BY <1>10 DEF HandleComplete, senderVars, netVars
  <2>2. Accounted(b, t, o)
    BY <1>2, <1>4, <2>1
  <2>3. CASE u = t /\ c = b
    <3>1. delivered[t][b] \in 0 .. 2
      BY <1>3, SinkTypes
    <3>2. delivered'[t][b] > 0
      BY <1>3, <2>1, <2>3, <3>1, SinkTypes DEF More
    <3>3. QED
      BY <3>2 DEF Accounted
  <2>4. CASE ~(u = t /\ c = b)
    <3>1. incoming'[t][b] = incoming[t][b] /\ delivered'[t][b] = delivered[t][b]
      BY <1>3, <2>1, <2>4, SinkTypes
    <3>2. QED
      BY <2>1, <2>2, <3>1 DEF Accounted, Carries
  <2>5. QED
    BY <2>3, <2>4
<1>11. ASSUME NEW u \in Target, NEW c \in Blob, TimeOut(u, c) PROVE Accounted(b, t, o)'
  <2>1. /\ incoming' = [incoming EXCEPT ![u][c] = None]
        /\ quit' = quit \cup {<<u, c>>}
        /\ UNCHANGED <<outgoing, todo, delivered, fragments, requests, lost>>
    BY <1>11 DEF TimeOut, CancelIncoming, senderVars, netVars
  <2>2. Accounted(b, t, o)
    BY <1>2, <1>4, <2>1
  <2>3. CASE u = t /\ c = b
    BY <2>1, <2>3 DEF Accounted
  <2>4. CASE ~(u = t /\ c = b)
    <3>1. incoming'[t][b] = incoming[t][b]
      BY <1>3, <2>1, <2>4, SinkTypes
    <3>2. QED
      BY <2>1, <2>2, <3>1 DEF Accounted, Carries
  <2>5. QED
    BY <2>3, <2>4
<1>12. ASSUME NEW m \in fragments, ProcessIncoming(m) PROVE Accounted(b, t, o)'
  <2> DEFINE i == [done |-> Span(m.bgn, m.end) \cup Done(m.to, m.blob),
                   expected |-> Awaits(m.to, m.blob)]
  <2>1. /\ m.to \in Target /\ m.blob \in Blob /\ i # None
        /\ incoming' = [incoming EXCEPT ![m.to][m.blob] = i]
        /\ fragments' = fragments \ {m}
        /\ UNCHANGED <<outgoing, todo, delivered, quit, requests, lost, plan>>
    BY <1>12, IncomingEffect
  <2>2. Accounted(b, t, o)
    BY <1>2, <1>4, <2>1
  <2>3. CASE m.to = t /\ m.blob = b
    <3>1. incoming'[t][b] = i
      BY <1>3, <2>1, <2>3, SinkTypes
    <3>2. CASE Carries(m, t, b, o)
      BY <2>1, <3>1, <3>2 DEF Accounted, Carries
    <3>3. CASE ~Carries(m, t, b, o)
      <4>1. incoming[t][b] # None /\ o \in incoming[t][b].done => o \in i.done
        BY <2>3 DEF Done
      <4>2. QED
        BY <2>1, <2>2, <3>1, <3>3, <4>1 DEF Accounted, Carries
    <3>4. QED
      BY <3>2, <3>3
  <2>4. CASE ~(m.to = t /\ m.blob = b)
    <3>1. incoming'[t][b] = incoming[t][b] /\ ~Carries(m, t, b, o)
      BY <1>3, <2>1, <2>4, SinkTypes DEF Carries
    <3>2. QED
      BY <2>1, <2>2, <3>1 DEF Accounted, Carries
  <2>5. QED
    BY <2>3, <2>4
<1>13. ASSUME NEW r \in requests, ProcessResend(r) PROVE Accounted(b, t, o)'
  <2>1. UNCHANGED <<outgoing, incoming, delivered, quit, fragments, lost>>
    BY <1>13 DEF ProcessResend, targetVars
  <2>2. o \in todo[b] => o \in todo'[b]
    BY <1>13 DEF ProcessResend, MergeResendRequest, TypeOK
  <2>3. QED
    BY <1>2, <1>4, <2>1, <2>2 DEF Accounted, Carries
<1>14. ASSUME Lose PROVE Accounted(b, t, o)'
  <2>1. UNCHANGED <<outgoing, todo, incoming, sink, delivered, quit>>
    BY <1>14 DEF Lose, senderVars, targetVars
  <2>2. Accounted(b, t, o)
    BY <1>2, <1>4, <2>1
  <2>3. ASSUME NEW m \in fragments, fragments' = fragments \ {m},
               lost' = lost \cup {<<m.to, m.blob, x>> : x \in Span(m.bgn, m.end)}
        PROVE  Accounted(b, t, o)'
    <3>1. CASE Carries(m, t, b, o)
      <4>1. <<t, b, o>> \in lost'
        BY <2>3, <3>1 DEF Carries
      <4>2. QED
        BY <4>1 DEF Accounted
    <3>2. CASE ~Carries(m, t, b, o)
      BY <2>1, <2>2, <2>3, <3>2 DEF Accounted, Carries
    <3>3. QED
      BY <3>1, <3>2
  <2>4. CASE UNCHANGED <<fragments, lost>>
    BY <1>a, <2>1, <2>2, <2>4
  <2>5. QED
    BY <1>14, <2>3, <2>4 DEF Lose
<1>15. CASE UNCHANGED vars
  BY <1>2, <1>4, <1>15, <1>a DEF vars, senderVars, targetVars, netVars
<1>16. QED
  BY <1>5, <1>6, <1>7, <1>8, <1>9, <1>10, <1>11, <1>12, <1>13, <1>14, <1>15 DEF Next

-----------------------------------------------------------------------------
(* A stream ends once, and while it is awaited it has not ended.           *)

Ended(t, s) == sink[t][s].finished + sink[t][s].cancelled

LEMMA NobodyNewAwaits ==
  ASSUME TypeOK, OneUser, StreamEndsOnce,
         \A t \in Target, b \in Blob : Awaits(t, b)' => Awaits(t, b),
         \A t \in Target, s \in Sink : Ended(t, s)' = Ended(t, s)
  PROVE  OneUser' /\ StreamEndsOnce'
<1>1. \A b \in Blob : SinkOf[b] \in Sink
  BY SinkTypes
<1>2. StreamEndsOnce'
  BY DEF StreamEndsOnce, Ended
<1>3. ASSUME NEW t \in Target, NEW b \in Blob, NEW c \in Blob, Awaits(t, b)', SinkOf[b] = SinkOf[c]
      PROVE  (Awaits(t, c)' => b = c) /\ Ended(t, SinkOf[b])' = 0
  BY <1>1, <1>3 DEF OneUser, Ended
<1>4. QED
  BY <1>2, <1>3 DEF OneUser, Ended

LEMMA StreamEndsWithItsBlob ==
  ASSUME TypeOK, OneUser, StreamEndsOnce, NEW u \in Target, NEW c \in Blob, NEW r,
         incoming' = [incoming EXCEPT ![u][c] = None],
         sink' = IF Awaits(u, c) THEN [sink EXCEPT ![u][SinkOf[c]] = r] ELSE sink,
         Awaits(u, c) => r.finished + r.cancelled = 1
  PROVE  OneUser' /\ StreamEndsOnce'
<1>1. \A b \in Blob : SinkOf[b] \in Sink
  BY SinkTypes
<1>2. ASSUME NEW t \in Target, NEW b \in Blob, Awaits(t, b)'
      PROVE  Awaits(t, b) /\ ~(t = u /\ b = c)
  <2>1. incoming'[t][b] # None /\ incoming'[t][b].expected
    BY <1>2 DEF Awaits
  <2>2. ~(t = u /\ b = c)
    BY <2>1, SinkTypes
  <2>3. incoming'[t][b] = incoming[t][b]
    BY <2>2, SinkTypes
  <2>4. QED
    BY <2>1, <2>2, <2>3 DEF Awaits
<1>3. CASE ~Awaits(u, c)
  <2>1. sink' = sink
    BY <1>3
  <2>2. QED
    BY <1>2, <2>1, NobodyNewAwaits DEF Ended
<1>4. CASE Awaits(u, c)
  <2>1. sink'[u][SinkOf[c]] = r
        /\ \A t \in Target, s \in Sink : ~(t = u /\ s = SinkOf[c]) => sink'[t][s] = sink[t][s]
    BY <1>1, <1>4, SinkTypes
  <2>2. StreamEndsOnce'
    <3>1. ASSUME NEW t \in Target, NEW s \in Sink
          PROVE  sink'[t][s].finished + sink'[t][s].cancelled <= 1
      <4>1. CASE t = u /\ s = SinkOf[c]
        BY <1>4, <2>1, <4>1
      <4>2. CASE ~(t = u /\ s = SinkOf[c])
        BY <2>1, <4>2 DEF StreamEndsOnce
      <4>3. QED
        BY <4>1, <4>2
    <3>2. QED
      BY <3>1 DEF StreamEndsOnce
  <2>3. ASSUME NEW t \in Target, NEW b \in Blob, NEW d \in Blob, Awaits(t, b)', SinkOf[b] = SinkOf[d]
        PROVE  /\ Awaits(t, d)' => b = d
               /\ sink'[t][SinkOf[b]].finished + sink'[t][SinkOf[b]].cancelled = 0
    <3>1. Awaits(t, b) /\ ~(t = u /\ b = c)
      BY <1>2, <2>3
    <3>2. ~(t = u /\ SinkOf[b] = SinkOf[c])
      BY <1>4, <3>1 DEF OneUser
    <3>3. sink'[t][SinkOf[b]] = sink[t][SinkOf[b]]
      BY <1>1, <2>1, <3>2
    <3>4. Awaits(t, d)' => Awaits(t, d)
      BY <1>2
    <3>5. QED
      BY <2>3, <3>1, <3>3, <3>4 DEF OneUser
  <2>4. QED
    BY <2>2, <2>3 DEF OneUser
<1>5. QED
  BY <1>3, <1>4

LEMMA NextEndsOnce ==
  ASSUME TypeOK, OneUser, StreamEndsOnce, [Next]_vars
  PROVE  OneUser' /\ StreamEndsOnce'
<1>0. UNCHANGED <<incoming, sink>> => OneUser' /\ StreamEndsOnce'
  <2>1. UNCHANGED <<incoming, sink>> =>
          /\ \A t \in Target, b \in Blob : Awaits(t, b)' => Awaits(t, b)
          /\ \A t \in Target, s \in Sink : Ended(t, s)' = Ended(t, s)
    BY DEF Awaits, Ended
  <2>2. QED
    BY <2>1, NobodyNewAwaits
<1>1. ASSUME NEW t \in Target, NEW b \in Blob
      PROVE  LET s == sink[t][SinkOf[b]]
             IN  /\ s \in Stream /\ SinkOf[b] \in Sink
                 /\ Awaits(t, b) => s.finished = 0 /\ s.cancelled = 0
  <2>1. sink[t][SinkOf[b]] \in Stream /\ SinkOf[b] \in Sink
    BY SinkTypes
  <2>2. Awaits(t, b) => sink[t][SinkOf[b]].finished + sink[t][SinkOf[b]].cancelled = 0
    BY DEF OneUser
  <2> DEFINE s == sink[t][SinkOf[b]]
  <2>3. s.finished \in 0 .. 2 /\ s.cancelled \in 0 .. 2
    BY <2>1, StreamEnds
  <2>4. Awaits(t, b) => s.finished + s.cancelled = 0
    BY <2>2
  <2>5. s \in Stream
    BY <2>1
  <2> HIDE DEF s
  <2>6. Awaits(t, b) => s.finished = 0 /\ s.cancelled = 0
    BY <2>3, <2>4
  <2>7. QED
    BY <2>1, <2>5, <2>6 DEF s
<1>2. ASSUME NEW t \in Target, NEW b \in Blob, HandleComplete(t, b) PROVE OneUser' /\ StreamEndsOnce'
  <2> DEFINE r == [sink[t][SinkOf[b]] EXCEPT !.finished = More(@)]
  <2>1. /\ incoming' = [incoming EXCEPT ![t][b] = None]
        /\ sink' = IF Awaits(t, b) THEN [sink EXCEPT ![t][SinkOf[b]] = r] ELSE sink
    BY <1>2 DEF HandleComplete, Complete, Awaits
  <2>2. Awaits(t, b) => r.finished + r.cancelled = 1
    BY <1>1 DEF More, Stream
  <2> HIDE DEF r
  <2>3. QED
    BY <2>1, <2>2, StreamEndsWithItsBlob
<1>3. ASSUME NEW t \in Target, NEW b \in Blob, TimeOut(t, b) PROVE OneUser' /\ StreamEndsOnce'
  <2> DEFINE r == [sink[t][SinkOf[b]] EXCEPT !.cancelled = More(@)]
  <2>1. /\ incoming' = [incoming EXCEPT ![t][b] = None]
        /\ sink' = IF Awaits(t, b) THEN [sink EXCEPT ![t][SinkOf[b]] = r] ELSE sink
    BY <1>3 DEF TimeOut, CancelIncoming, Awaits
  <2>2. Awaits(t, b) => r.finished + r.cancelled = 1
    BY <1>1 DEF More, Stream
  <2> HIDE DEF r
  <2>3. QED
    BY <2>1, <2>2, StreamEndsWithItsBlob
<1>4. ASSUME NEW m \in fragments, ProcessIncoming(m) PROVE OneUser' /\ StreamEndsOnce'
  <2> DEFINE S == Done(m.to, m.blob)
             i == [done |-> Span(m.bgn, m.end) \cup S, expected |-> Awaits(m.to, m.blob)]
  <2>1. /\ m.to \in Target /\ m.blob \in Blob
        /\ m.bgn \in Offset /\ m.end \in 1 .. Size /\ m.bgn < m.end /\ S \in SUBSET Offset
        /\ incoming' = [incoming EXCEPT ![m.to][m.blob] = i]
        /\ sink' = IF Awaits(m.to, m.blob)
                   THEN [sink EXCEPT ![m.to][SinkOf[m.blob]] = Store(@, Stores(S, m.bgn, m.end))]
                   ELSE sink
    BY <1>4, IncomingEffect
  <2>2. i.expected = Awaits(m.to, m.blob)
    OBVIOUS
  <2> HIDE DEF i, S
  <2>3. \A t \in Target, b \in Blob : Awaits(t, b)' => Awaits(t, b)
    <3>1. ASSUME NEW t \in Target, NEW b \in Blob, Awaits(t, b)' PROVE Awaits(t, b)
      <4>1. CASE t = m.to /\ b = m.blob
        <5>1. incoming'[t][b] = i
          BY <2>1, <4>1, SinkTypes
        <5>2. QED
          BY <2>2, <3>1, <4>1, <5>1 DEF Awaits
      <4>2. CASE ~(t = m.to /\ b = m.blob)
        <5>1. incoming'[t][b] = incoming[t][b]
          BY <2>1, <4>2, SinkTypes
        <5>2. QED
          BY <3>1, <5>1 DEF Awaits
      <4>3. QED
        BY <4>1, <4>2
    <3>2. QED
      BY <3>1
  <2> DEFINE s == sink[m.to][SinkOf[m.blob]]
             r == Store(s, Stores(S, m.bgn, m.end))
  <2>4. r.finished = s.finished /\ r.cancelled = s.cancelled /\ SinkOf[m.blob] \in Sink
    BY <1>1, <2>1, StoreFacts
  <2> HIDE DEF r
  <2>5. \A t \in Target, x \in Sink : Ended(t, x)' = Ended(t, x)
    <3>1. sink' = IF Awaits(m.to, m.blob) THEN [sink EXCEPT ![m.to][SinkOf[m.blob]] = r] ELSE sink
      BY <2>1 DEF r
    <3>2. ASSUME NEW t \in Target, NEW x \in Sink PROVE Ended(t, x)' = Ended(t, x)
      <4>1. CASE t = m.to /\ x = SinkOf[m.blob] /\ Awaits(m.to, m.blob)
        <5>1. sink'[t][x] = r /\ sink[t][x] = s
          BY <2>1, <2>4, <3>1, <4>1, SinkTypes
        <5>2. QED
          BY <2>4, <5>1 DEF Ended
      <4>2. CASE ~(t = m.to /\ x = SinkOf[m.blob] /\ Awaits(m.to, m.blob))
        <5>1. sink'[t][x] = sink[t][x]
          BY <2>1, <2>4, <3>1, <4>2, SinkTypes
        <5>2. QED
          BY <5>1 DEF Ended
      <4>3. QED
        BY <4>1, <4>2
    <3>3. QED
      BY <3>2
  <2>6. QED
    BY <2>3, <2>5, NobodyNewAwaits
<1>5. QED
  BY <1>0, <1>2, <1>3, <1>4
     DEF Next, vars, Push, SendFragment, LingerOut, Expire, AskForGap, ProcessResend, Lose,
         senderVars, targetVars

-----------------------------------------------------------------------------
(* Only whole blocks are sent and kept, where messages hold equally much.  *)

(* What is stored of a block is the block, or nothing.                     *)
LEMMA StoresOfBlock ==
  ASSUME NEW n \in 1 .. Size, NEW S \in SUBSET Offset, OfBlocks(n, S), NEW o \in Starts(n)
  PROVE  /\ <<o, End(n, o)>> \in Kept /\ o \in Offset /\ End(n, o) \in 1 .. Size /\ o < End(n, o)
         /\ \/ Span(o, End(n, o)) \subseteq S /\ Stores(S, o, End(n, o)) = <<>>
            \/ Span(o, End(n, o)) \cap S = {} /\ Stores(S, o, End(n, o)) = <<<<o, End(n, o)>>>>
<1>1. o \in Offset /\ End(n, o) \in 1 .. Size /\ o < End(n, o)
  BY BlockFacts
<1>2. <<o, End(n, o)>> \in Kept
  BY <1>1 DEF Kept
<1>3. Span(o, End(n, o)) \subseteq S \/ Span(o, End(n, o)) \cap S = {}
  BY DEF OfBlocks
<1>4. QED
  BY <1>1, <1>2, <1>3, StoresFacts

LEMMA NextKeepsBlocks ==
  ASSUME TypeOK, NEW n \in 1 .. Size, plan.pieces = {n}, OnlyBlocks(n), [Next]_vars
  PROVE  OnlyBlocks(n)'
<1> DEFINE Frags == \A m \in fragments : m.bgn \in Starts(n) /\ m.end = End(n, m.bgn)
           Reqs == \A r \in requests : r.bgn \in Starts(n)
           Todo == \A b \in Blob : \A o \in todo[b] : o \in Starts(n) \/ o - 1 \in todo[b]
           Inc == \A t \in Target, b \in Blob :
                    incoming[t][b] # None => OfBlocks(n, incoming[t][b].done)
           Kpt == \A t \in Target, s \in Sink : \A k \in sink[t][s].kept : BlockAt(n, k)
<1>1. Frags /\ Reqs /\ Todo /\ Inc /\ Kpt
  BY DEF OnlyBlocks, BlockAt
<1>2. Frags' /\ Reqs' /\ Todo' /\ Inc' /\ Kpt' => OnlyBlocks(n)'
  BY DEF OnlyBlocks, BlockAt, OfBlocks, Starts, End
<1>a. /\ UNCHANGED fragments => Frags'
      /\ UNCHANGED requests => Reqs'
      /\ UNCHANGED todo => Todo'
      /\ UNCHANGED incoming => Inc'
      /\ UNCHANGED sink => Kpt'
  BY <1>1
<1> HIDE DEF Frags, Reqs, Todo, Inc, Kpt
<1>3. ASSUME NEW c \in Blob, Push(c) PROVE OnlyBlocks(n)'
  <2>1. todo' = [todo EXCEPT ![c] = Offset]
        /\ UNCHANGED <<incoming, sink, fragments, requests>>
    BY <1>3 DEF Push, targetVars, netVars
  <2>2. \A o \in Offset : o \in Starts(n) \/ o - 1 \in Offset
    <3>1. 0 \in Starts(n)
      BY BlockFacts
    <3>2. ASSUME NEW o \in Offset, o # 0 PROVE o - 1 \in Offset
      BY <3>2, OffsetFacts
    <3>3. QED
      BY <3>1, <3>2
  <2>3. Todo'
    <3>1. \A b \in Blob : todo'[b] = IF b = c THEN Offset ELSE todo[b]
      BY <2>1 DEF TypeOK
    <3>2. QED
      BY <1>1, <2>2, <3>1 DEF Todo
  <2>4. QED
    BY <1>2, <1>a, <2>1, <2>3
<1>4. ASSUME NEW c \in Blob, SendFragment(c) PROVE OnlyBlocks(n)'
  <2>1. PICK bgn \in Offset, end \in 1 .. Size :
           /\ bgn < end /\ bgn \in todo[c] /\ bgn - 1 \notin todo[c]
           /\ todo' = [todo EXCEPT ![c] = @ \ Span(bgn, end)]
           /\ \A m \in fragments' \ fragments : m.bgn = bgn /\ m.end = end
           /\ \A k \in 1 .. Size : plan.pieces = {k} => end = End(k, bgn)
           /\ UNCHANGED <<outgoing, incoming, sink, delivered, quit, requests, lost, plan>>
    BY <1>4, SendEffect
  <2>2. bgn \in Starts(n) /\ end = End(n, bgn)
    BY <1>1, <2>1 DEF Todo
  <2>3. Frags'
    BY <1>1, <2>1, <2>2 DEF Frags
  <2>4. ASSUME NEW o \in todo[c] \ Span(bgn, end)
        PROVE  o \in Starts(n) \/ o - 1 \in todo[c] \ Span(bgn, end)
    <3>1. SUFFICES ASSUME o \notin Starts(n) PROVE o - 1 \in todo[c] \ Span(bgn, end)
      OBVIOUS
    <3>2. o - 1 \in todo[c]
      BY <1>1, <3>1 DEF Todo
    <3>3. o \in Offset /\ o \in Nat /\ bgn \in Nat /\ end \in Nat /\ o < Size
      BY <2>1, OffsetFacts DEF TypeOK
    <3>4. o # end
      BY <2>2, <3>1, <3>3, BlockFacts
    <3>5. o - 1 \notin Span(bgn, end)
      BY <2>4, <3>3, <3>4, OffsetFacts
    <3>6. QED
      BY <3>2, <3>5
  <2>5. Todo'
    <3>1. \A b \in Blob : todo'[b] = IF b = c THEN todo[c] \ Span(bgn, end) ELSE todo[b]
      BY <2>1 DEF TypeOK
    <3>2. QED
      BY <1>1, <2>4, <3>1 DEF Todo
  <2>6. QED
    BY <1>2, <1>a, <2>1, <2>3, <2>5
<1>5. ASSUME NEW c \in Blob, LingerOut(c) PROVE OnlyBlocks(n)'
  BY <1>2, <1>5, <1>a DEF LingerOut, targetVars, netVars
<1>6. ASSUME NEW c \in Blob, Expire(c) PROVE OnlyBlocks(n)'
  <2>1. todo' = [todo EXCEPT ![c] = {}]
        /\ UNCHANGED <<incoming, sink, fragments, requests>>
    BY <1>6 DEF Expire, targetVars, netVars
  <2>2. \A b \in Blob : todo'[b] = IF b = c THEN {} ELSE todo[b]
    BY <2>1 DEF TypeOK
  <2>3. Todo'
    BY <1>1, <2>2 DEF Todo
  <2>4. QED
    BY <1>2, <1>a, <2>1, <2>3
<1>7. ASSUME NEW t \in Target, NEW b \in Blob, AskForGap(t, b) PROVE OnlyBlocks(n)'
  <2> DEFINE S == incoming[t][b].done
  <2>1. PICK bgn \in Offset, end \in 1 .. Size :
           /\ bgn < end /\ incoming[t][b] # None
           /\ bgn \notin S /\ \A o \in Offset : o < bgn => o \in S
           /\ requests' = requests \cup {[blob |-> b, bgn |-> bgn, end |-> end]}
           /\ UNCHANGED <<outgoing, todo, incoming, sink, delivered, quit, fragments, lost>>
    BY <1>7, AskEffect
  <2>2. S \in SUBSET Offset /\ OfBlocks(n, S)
    BY <1>1, <2>1 DEF Inc, TypeOK, Incoming
  <2> HIDE DEF S
  <2>3. bgn \in Starts(n)
    <3>1. PICK a \in Starts(n) : a <= bgn /\ bgn < End(n, a)
      BY BlockFacts
    <3>2. a \in Offset /\ a \in Nat /\ bgn \in Nat /\ End(n, a) \in Nat
      BY BlockFacts, OffsetFacts
    <3>3. CASE a = bgn
      BY <3>3
    <3>4. CASE a < bgn
      <4>1. a \in S /\ a < End(n, a)
        BY <2>1, <3>2, <3>4, BlockFacts
      <4>2. Span(a, End(n, a)) \subseteq S
        BY <2>2, <3>2, <4>1, BlockIn
      <4>3. bgn \in Span(a, End(n, a))
        BY <3>1, <3>2, OffsetFacts
      <4>4. QED
        BY <2>1, <4>2, <4>3
    <3>5. QED
      BY <3>1, <3>2, <3>3, <3>4
  <2>4. Reqs'
    BY <1>1, <2>1, <2>3 DEF Reqs
  <2>5. QED
    BY <1>2, <1>a, <2>1, <2>4
<1>8. ASSUME NEW u \in Target, NEW c \in Blob, incoming' = [incoming EXCEPT ![u][c] = None] PROVE Inc'
  <2>1. ASSUME NEW t \in Target, NEW b \in Blob, incoming'[t][b] # None
        PROVE  incoming'[t][b] = incoming[t][b]
    BY <1>8, <2>1, SinkTypes
  <2>2. QED
    BY <1>1, <2>1 DEF Inc
<1>9. ASSUME NEW t \in Target, NEW b \in Blob, HandleComplete(t, b) PROVE OnlyBlocks(n)'
  <2>1. UNCHANGED <<todo, fragments, requests>> /\ Inc'
    BY <1>8, <1>9 DEF HandleComplete, senderVars, netVars
  <2>2. \A u \in Target, s \in Sink : sink'[u][s].kept = sink[u][s].kept
    BY <1>9, SinkTypes DEF HandleComplete, Stream
  <2>3. Kpt'
    BY <1>1, <2>2 DEF Kpt
  <2>4. QED
    BY <1>2, <1>a, <2>1, <2>3
<1>10. ASSUME NEW t \in Target, NEW b \in Blob, TimeOut(t, b) PROVE OnlyBlocks(n)'
  <2>1. UNCHANGED <<todo, fragments, requests>> /\ Inc'
    BY <1>8, <1>10 DEF TimeOut, CancelIncoming, senderVars, netVars
  <2>2. \A u \in Target, s \in Sink : sink'[u][s].kept = sink[u][s].kept
    BY <1>10, SinkTypes DEF TimeOut, CancelIncoming, Stream
  <2>3. Kpt'
    BY <1>1, <2>2 DEF Kpt
  <2>4. QED
    BY <1>2, <1>a, <2>1, <2>3
<1>11. ASSUME NEW m \in fragments, ProcessIncoming(m) PROVE OnlyBlocks(n)'
  <2> DEFINE S == Done(m.to, m.blob)
             i == [done |-> Span(m.bgn, m.end) \cup S, expected |-> Awaits(m.to, m.blob)]
             s == sink[m.to][SinkOf[m.blob]]
             r == Store(s, Stores(S, m.bgn, m.end))
  <2>1. /\ m.to \in Target /\ m.blob \in Blob /\ S \in SUBSET Offset
        /\ incoming' = [incoming EXCEPT ![m.to][m.blob] = i]
        /\ sink' = IF Awaits(m.to, m.blob) THEN [sink EXCEPT ![m.to][SinkOf[m.blob]] = r] ELSE sink
        /\ fragments' = fragments \ {m}
        /\ UNCHANGED <<outgoing, todo, delivered, quit, requests, lost, plan>>
    BY <1>11, IncomingEffect
  <2>2. m.bgn \in Starts(n) /\ m.end = End(n, m.bgn)
    BY <1>1 DEF Frags
  <2>3. OfBlocks(n, S)
    <3>1. OfBlocks(n, {})
      BY DEF OfBlocks
    <3>2. QED
      BY <1>1, <2>1, <3>1 DEF Done, Inc
  <2>4. OfBlocks(n, i.done)
    BY <2>1, <2>2, <2>3, OneBlockMore
  <2>5. \A k \in r.kept : k \in s.kept \/ BlockAt(n, k)
    <3>1. Stores(S, m.bgn, m.end) = <<>> \/
            /\ Stores(S, m.bgn, m.end) = <<<<m.bgn, m.end>>>>
            /\ <<m.bgn, m.end>> \in Kept
      BY <2>1, <2>2, <2>3, StoresOfBlock
    <3>2. s \in Stream
      BY <2>1, SinkTypes
    <3> HIDE DEF s
    <3>3. CASE Stores(S, m.bgn, m.end) = <<>>
      BY <3>3 DEF Store
    <3>4. CASE Stores(S, m.bgn, m.end) = <<<<m.bgn, m.end>>>> /\ <<m.bgn, m.end>> \in Kept
      <4>1. r = StoreFragment(s, <<m.bgn, m.end>>)
        BY <3>4 DEF Store
      <4>2. r.kept \subseteq s.kept \cup {<<m.bgn, m.end>>}
        BY <3>2, <3>4, <4>1, StoreFragmentFacts
      <4>3. BlockAt(n, <<m.bgn, m.end>>)
        BY <2>2 DEF BlockAt
      <4>4. QED
        BY <4>2, <4>3
    <3>5. QED
      BY <3>1, <3>3, <3>4
  <2> HIDE DEF S, i, r
  <2>6. Frags'
    BY <1>1, <2>1 DEF Frags
  <2>7. Inc'
    <3>1. \A t \in Target, b \in Blob :
            incoming'[t][b] = IF t = m.to /\ b = m.blob THEN i ELSE incoming[t][b]
      BY <2>1, SinkTypes
    <3>2. QED
      BY <1>1, <2>4, <3>1 DEF Inc
  <2>8. Kpt'
    <3>1. \A t \in Target, x \in Sink : \A k \in sink'[t][x].kept :
             k \in sink[t][x].kept \/ BlockAt(n, k)
      <4>1. \A t \in Target, x \in Sink : sink'[t][x] = sink[t][x] \/ (sink'[t][x] = r /\ sink[t][x] = s)
        BY <2>1, SinkTypes
      <4> HIDE DEF s
      <4>2. QED
        BY <2>5, <4>1
    <3>2. QED
      BY <1>1, <3>1 DEF Kpt
  <2>9. QED
    BY <1>2, <1>a, <2>1, <2>6, <2>7, <2>8
<1>12. ASSUME NEW r \in requests, ProcessResend(r) PROVE OnlyBlocks(n)'
  <2>1. UNCHANGED <<incoming, sink, fragments>> /\ requests' \subseteq requests
        /\ todo' = IF outgoing[r.blob] = "sending"
                   THEN [todo EXCEPT ![r.blob] = @ \cup Span(r.bgn, r.end)] ELSE todo
    BY <1>12 DEF ProcessResend, targetVars, MergeResendRequest
  <2>2. r.blob \in Blob /\ r.bgn \in Nat /\ r.end \in Nat /\ r.bgn \in Starts(n)
    BY <1>1, OffsetFacts DEF TypeOK, Request, Reqs
  <2>3. \A o \in Span(r.bgn, r.end) : o \in Starts(n) \/ o - 1 \in Span(r.bgn, r.end)
    <3>1. ASSUME NEW o \in Span(r.bgn, r.end), o # r.bgn PROVE o - 1 \in Span(r.bgn, r.end)
      BY <2>2, <3>1, OffsetFacts
    <3>2. QED
      BY <2>2, <3>1
  <2>4. Todo'
    <3>1. \A b \in Blob : todo'[b] = todo[b] \/ todo'[b] = todo[b] \cup Span(r.bgn, r.end)
      BY <2>1, <2>2 DEF TypeOK
    <3>2. QED
      BY <1>1, <2>3, <3>1 DEF Todo
  <2>5. Reqs'
    BY <1>1, <2>1 DEF Reqs
  <2>6. QED
    BY <1>2, <1>a, <2>1, <2>4, <2>5
<1>13. ASSUME Lose PROVE OnlyBlocks(n)'
  <2>1. UNCHANGED <<todo, incoming, sink>> /\ fragments' \subseteq fragments /\ requests' \subseteq requests
    BY <1>13 DEF Lose, senderVars, targetVars
  <2>2. Frags' /\ Reqs'
    BY <1>1, <2>1 DEF Frags, Reqs
  <2>3. QED
    BY <1>2, <1>a, <2>1, <2>2
<1>14. CASE UNCHANGED vars
  BY <1>2, <1>14, <1>a DEF vars, senderVars, targetVars, netVars
<1>15. QED
  BY <1>3, <1>4, <1>5, <1>6, <1>7, <1>9, <1>10, <1>11, <1>12, <1>13, <1>14 DEF Next

-----------------------------------------------------------------------------
(* The bookkeeping of an expected blob and its stream agree.               *)

WholeStreams ==
  \A t \in Target, b \in Blob :
    LET s == sink[t][SinkOf[b]]
    IN  /\ Awaits(t, b) => HasAll(s, incoming[t][b].done)
        /\ s.finished > 0 => s.at = Size /\ s.kept = {}

(* A stream that has got and keeps all offsets has got them.               *)
LEMMA AllIsAppended ==
  ASSUME NEW s \in Stream, HasAll(s, Offset)
  PROVE  s.at = Size /\ s.kept = {}
<1>1. /\ \A x : x \in Offset <=> \/ x \in Nat /\ x < s.at
                                 \/ \E k \in s.kept : x \in Int /\ k[1] <= x /\ x < k[2]
      /\ \A k \in s.kept : k[1] > s.at
  BY HasAllIn
<1>2. /\ s.at \in Nat /\ s.at <= Size /\ Size \in Nat
      /\ \A k \in s.kept : k[1] \in Nat /\ k[1] < Size
  BY OffsetFacts DEF Stream, Kept
<1>3. s.at = Size
  <2>1. SUFFICES ASSUME s.at < Size PROVE FALSE
    BY <1>2
  <2>2. s.at \in Offset
    BY <1>2, <2>1, OffsetFacts
  <2>3. PICK k \in s.kept : k[1] <= s.at
    BY <1>1, <1>2, <2>2
  <2>4. QED
    BY <1>1, <1>2, <2>3
<1>4. QED
  BY <1>1, <1>2, <1>3

LEMMA AwaitedIsNotFinished ==
  ASSUME TypeOK, OneUser
  PROVE  /\ \A b \in Blob : SinkOf[b] \in Sink
         /\ \A t \in Target, b \in Blob : /\ sink[t][SinkOf[b]] \in Stream
                                          /\ Awaits(t, b) => sink[t][SinkOf[b]].finished = 0
<1>1. \A t \in Target, b \in Blob : SinkOf[b] \in Sink /\ sink[t][SinkOf[b]] \in Stream
  BY SinkTypes
<1>2. ASSUME NEW t \in Target, NEW b \in Blob, Awaits(t, b) PROVE sink[t][SinkOf[b]].finished = 0
  <2> DEFINE s == sink[t][SinkOf[b]]
  <2>1. s.finished \in 0 .. 2 /\ s.cancelled \in 0 .. 2
    BY <1>1, StreamEnds
  <2>2. s.finished + s.cancelled = 0
    BY <1>2 DEF OneUser
  <2> HIDE DEF s
  <2>3. s.finished = 0
    BY <2>1, <2>2
  <2>4. QED
    BY <2>3 DEF s
<1>3. QED
  BY <1>1, <1>2, SinkTypes

(* A stream that ends, or none, when an entry is taken away.               *)
LEMMA WholeWithoutEntry ==
  ASSUME TypeOK, OneUser, WholeStreams, NEW u \in Target, NEW c \in Blob, NEW r,
         incoming' = [incoming EXCEPT ![u][c] = None],
         sink' = IF Awaits(u, c) THEN [sink EXCEPT ![u][SinkOf[c]] = r] ELSE sink,
         Awaits(u, c) => (r.finished > 0 => r.at = Size /\ r.kept = {})
  PROVE  WholeStreams'
<1>1. ASSUME NEW t \in Target, NEW b \in Blob, Awaits(t, b)'
      PROVE  /\ Awaits(t, b) /\ ~(t = u /\ b = c)
             /\ incoming'[t][b] = incoming[t][b]
  <2>1. incoming'[t][b] # None /\ incoming'[t][b].expected
    BY <1>1 DEF Awaits
  <2>2. ~(t = u /\ b = c)
    BY <2>1, SinkTypes
  <2>3. incoming'[t][b] = incoming[t][b]
    BY <2>2, SinkTypes
  <2>4. QED
    BY <2>1, <2>2, <2>3 DEF Awaits
<1>2. SUFFICES ASSUME NEW t \in Target, NEW b \in Blob
               PROVE  LET s == sink'[t][SinkOf[b]]
                      IN  /\ Awaits(t, b)' => HasAll(s, incoming'[t][b].done)
                          /\ s.finished > 0 => s.at = Size /\ s.kept = {}
  BY DEF WholeStreams, HasAll
<1>3. CASE t = u /\ SinkOf[b] = SinkOf[c] /\ Awaits(u, c)
  <2>1. ~Awaits(t, b)'
    BY <1>1, <1>3 DEF OneUser
  <2>2. sink'[t][SinkOf[b]] = r
    BY AwaitedIsNotFinished, <1>3, SinkTypes
  <2>3. QED
    BY <1>3, <2>1, <2>2
<1>4. CASE ~(t = u /\ SinkOf[b] = SinkOf[c] /\ Awaits(u, c))
  <2>1. sink'[t][SinkOf[b]] = sink[t][SinkOf[b]]
    BY AwaitedIsNotFinished, <1>4, SinkTypes
  <2>2. QED
    BY <1>1, <2>1 DEF WholeStreams
<1>5. QED
  BY <1>3, <1>4

LEMMA NextIsWhole ==
  ASSUME TypeOK, OneUser, NEW n \in 1 .. Size, plan.pieces = {n}, OnlyBlocks(n), WholeStreams,
         [Next]_vars
  PROVE  WholeStreams'
<1>0. UNCHANGED <<incoming, sink>> => WholeStreams'
  BY DEF WholeStreams, Awaits, HasAll
<1>a. /\ \A b \in Blob : SinkOf[b] \in Sink
      /\ \A t \in Target, b \in Blob : /\ sink[t][SinkOf[b]] \in Stream
                                       /\ Awaits(t, b) => sink[t][SinkOf[b]].finished = 0
  BY AwaitedIsNotFinished
<1>2. ASSUME NEW t \in Target, NEW b \in Blob, HandleComplete(t, b) PROVE WholeStreams'
  <2> DEFINE s == sink[t][SinkOf[b]]
             r == [s EXCEPT !.finished = More(@)]
  <2>1. /\ incoming' = [incoming EXCEPT ![t][b] = None]
        /\ sink' = IF Awaits(t, b) THEN [sink EXCEPT ![t][SinkOf[b]] = r] ELSE sink
        /\ Awaits(t, b) => incoming[t][b].done = Offset
    BY <1>2 DEF HandleComplete, Complete, Awaits
  <2>2. ASSUME Awaits(t, b) PROVE r.at = Size /\ r.kept = {}
    <3>1. s \in Stream /\ HasAll(s, Offset)
      BY <1>a, <2>1, <2>2 DEF WholeStreams
    <3>2. s.at = Size /\ s.kept = {}
      BY <3>1, AllIsAppended
    <3>3. QED
      BY <3>1, <3>2 DEF Stream
  <2> HIDE DEF r
  <2>3. QED
    BY <2>1, <2>2, WholeWithoutEntry
<1>3. ASSUME NEW t \in Target, NEW b \in Blob, TimeOut(t, b) PROVE WholeStreams'
  <2> DEFINE s == sink[t][SinkOf[b]]
             r == [s EXCEPT !.cancelled = More(@)]
  <2>1. /\ incoming' = [incoming EXCEPT ![t][b] = None]
        /\ sink' = IF Awaits(t, b) THEN [sink EXCEPT ![t][SinkOf[b]] = r] ELSE sink
    BY <1>3 DEF TimeOut, CancelIncoming, Awaits
  <2>2. Awaits(t, b) => r.finished = 0
    BY <1>a DEF Stream
  <2> HIDE DEF r
  <2>3. Awaits(t, b) => (r.finished > 0 => r.at = Size /\ r.kept = {})
    BY <2>2
  <2>4. QED
    BY <2>1, <2>3, WholeWithoutEntry
<1>4. ASSUME NEW m \in fragments, ProcessIncoming(m) PROVE WholeStreams'
  <2> DEFINE u == m.to
             c == m.blob
             A == Span(m.bgn, m.end)
             S == Done(u, c)
             i == [done |-> A \cup S, expected |-> Awaits(u, c)]
             s == sink[u][SinkOf[c]]
             r == Store(s, Stores(S, m.bgn, m.end))
  <2>1. /\ u \in Target /\ c \in Blob /\ S \in SUBSET Offset
        /\ m.bgn \in Offset /\ m.end \in 1 .. Size /\ m.bgn < m.end
        /\ incoming' = [incoming EXCEPT ![u][c] = i]
        /\ sink' = IF Awaits(u, c) THEN [sink EXCEPT ![u][SinkOf[c]] = r] ELSE sink
    BY <1>4, IncomingEffect
  <2>2. m.bgn \in Starts(n) /\ m.end = End(n, m.bgn)
    BY DEF OnlyBlocks
  <2>3. OfBlocks(n, S)
    <3>1. OfBlocks(n, {})
      BY DEF OfBlocks
    <3>2. QED
      BY <2>1, <3>1 DEF Done, OnlyBlocks
  <2>4. s \in Stream
    BY <1>a, <2>1
  <2>5. r.finished = s.finished
    BY <2>1, <2>4, StoreFacts
  <2>6. ASSUME Awaits(u, c) PROVE HasAll(r, A \cup S)
    <3>1. HasAll(s, S)
      BY <2>1, <2>6 DEF WholeStreams, Done, Awaits
    <3>2. \A k \in s.kept : BlockAt(n, k)
      BY <1>a, <2>1 DEF OnlyBlocks, BlockAt
    <3> DEFINE p == <<m.bgn, m.end>>
    <3>3. \/ A \subseteq S /\ Stores(S, m.bgn, m.end) = <<>>
          \/ A \cap S = {} /\ Stores(S, m.bgn, m.end) = <<p>> /\ p \in Kept
      BY <2>1, <2>2, <2>3, StoresOfBlock
    <3> HIDE DEF s, S
    <3>4. CASE A \subseteq S /\ Stores(S, m.bgn, m.end) = <<>>
      <4>1. r = s /\ A \cup S = S
        BY <3>4 DEF Store
      <4>2. QED
        BY <3>1, <4>1
    <3>5. CASE A \cap S = {} /\ Stores(S, m.bgn, m.end) = <<p>> /\ p \in Kept
      <4>1. r = StoreFragment(s, p)
        BY <3>5 DEF Store
      <4>2. BlockAt(n, p) /\ p[1] = m.bgn /\ p[2] = m.end
        BY <2>2 DEF BlockAt
      <4> HIDE DEF r, p
      <4>3. HasAll(StoreFragment(s, p), Span(p[1], p[2]) \cup S)
        BY <2>1, <2>4, <3>1, <3>2, <3>5, <4>2, StreamTakesBlock
      <4>4. QED
        BY <4>1, <4>2, <4>3
    <3>6. QED
      BY <3>3, <3>4, <3>5
  <2>7. i.done = A \cup S /\ i.expected = Awaits(u, c)
    OBVIOUS
  <2>8. i # None
    BY <1>4, IncomingEffect
  <2> HIDE DEF i, r, A, S, u, c, s
  <2>9. SUFFICES ASSUME NEW t \in Target, NEW b \in Blob
                 PROVE  /\ Awaits(t, b)' => HasAll(sink'[t][SinkOf[b]], incoming'[t][b].done)
                        /\ sink'[t][SinkOf[b]].finished > 0 =>
                              sink'[t][SinkOf[b]].at = Size /\ sink'[t][SinkOf[b]].kept = {}
    BY DEF WholeStreams, HasAll
  <2>10. CASE t = u /\ b = c
    <3>1. incoming'[t][b] = i
      BY <2>1, <2>10, SinkTypes
    <3>2. CASE Awaits(u, c)
      <4>1. sink'[t][SinkOf[b]] = r
        BY <1>a, <2>1, <2>10, <3>2, SinkTypes
      <4>2. r.finished = 0
        BY <1>a, <2>1, <2>5, <3>2 DEF s
      <4>3. HasAll(sink'[t][SinkOf[b]], incoming'[t][b].done)
        BY <2>6, <2>7, <3>1, <3>2, <4>1
      <4>4. ~(sink'[t][SinkOf[b]].finished > 0)
        BY <4>1, <4>2
      <4>5. QED
        BY <4>3, <4>4
    <3>3. CASE ~Awaits(u, c)
      <4>1. ~Awaits(t, b)'
        BY <2>7, <3>1, <3>3 DEF Awaits
      <4>2. sink' = sink
        BY <2>1, <3>3
      <4>3. QED
        BY <4>1, <4>2 DEF WholeStreams
    <3>4. QED
      BY <3>2, <3>3
  <2>11. CASE ~(t = u /\ b = c)
    <3>1. incoming'[t][b] = incoming[t][b]
      BY <2>1, <2>11, SinkTypes
    <3>2. Awaits(t, b)' => Awaits(t, b)
      BY <3>1 DEF Awaits
    <3>3. CASE Awaits(u, c) /\ t = u /\ SinkOf[b] = SinkOf[c]
      <4>1. ~Awaits(t, b)
        BY <2>1, <2>11, <3>3 DEF OneUser
      <4>2. sink'[t][SinkOf[b]] = r
        BY <1>a, <2>1, <3>3, SinkTypes
      <4>3. r.finished = 0
        BY <1>a, <2>1, <2>5, <3>3 DEF s
      <4>4. QED
        BY <3>2, <4>1, <4>2, <4>3
    <3>4. CASE ~(Awaits(u, c) /\ t = u /\ SinkOf[b] = SinkOf[c])
      <4>1. sink'[t][SinkOf[b]] = sink[t][SinkOf[b]]
        BY <1>a, <2>1, <3>4, SinkTypes
      <4>2. QED
        BY <3>1, <3>2, <4>1 DEF WholeStreams
    <3>5. QED
      BY <3>3, <3>4
  <2>12. QED
    BY <2>10, <2>11
<1>5. QED
  BY <1>0, <1>2, <1>3, <1>4
     DEF Next, vars, Push, SendFragment, LingerOut, Expire, AskForGap, ProcessResend, Lose,
         senderVars, targetVars

-----------------------------------------------------------------------------
(* A blob for one target is sent in rounds.                                *)

AskedFor(b) == {r \in requests : r.blob = b}
Quiet(u, b) == delivered[u][b] = 0 /\ FlyingTo(u, b) = {} /\ Done(u, b) = {}

(* The parts of GapByGap.                                                  *)
TodoIsLast(t, b) == todo[b] \cap Done(t, b) = {} /\ \A i, j \in todo[b] : Span(i, j) \subseteq todo[b]
FlightIsNew(t, b) ==
  \A m \in FlyingTo(t, b) :
     /\ m.bgn \notin Done(t, b) /\ \A o \in todo[b] : m.end <= o
     /\ \A k \in FlyingTo(t, b) : m = k \/ m.end <= k.bgn \/ k.end <= m.bgn
AskedAlone(t, b) ==
  \A r \in AskedFor(b) :
     /\ todo[b] = {} /\ FlyingTo(t, b) = {} /\ outgoing[b] # "new"
     /\ Span(r.bgn, r.end) \cap Done(t, b) = {}
     /\ \A q \in AskedFor(b) : q = r
SenderIsUp(t, b) ==
  /\ outgoing[b] # "sending" => todo[b] = {}
  /\ outgoing[b] = "new" => Done(t, b) = {} /\ FlyingTo(t, b) = {}
NothingMore(t, b) ==
  delivered[t][b] > 0 =>
     /\ delivered[t][b] = 1 /\ incoming[t][b] = None
     /\ outgoing[b] # "new" /\ todo[b] = {} /\ FlyingTo(t, b) = {} /\ AskedFor(b) = {}

LEMMA GapByGapParts ==
  ASSUME NEW t, NEW b
  PROVE  /\ GapByGap(t, b) <=> /\ TodoIsLast(t, b) /\ FlightIsNew(t, b) /\ AskedAlone(t, b)
                               /\ SenderIsUp(t, b) /\ NothingMore(t, b)
         /\ GapByGap(t, b)' <=> /\ TodoIsLast(t, b)' /\ FlightIsNew(t, b)' /\ AskedAlone(t, b)'
                                /\ SenderIsUp(t, b)' /\ NothingMore(t, b)'
<1>1. GapByGap(t, b) <=> /\ TodoIsLast(t, b) /\ FlightIsNew(t, b) /\ AskedAlone(t, b)
                         /\ SenderIsUp(t, b) /\ NothingMore(t, b)
  <2> HIDE DEF Done, FlyingTo
  <2>1. (~Asking(b) <=> AskedFor(b) = {})
        /\ (\A r : r \in AskedFor(b) <=> r \in requests /\ r.blob = b)
    BY DEF Asking, AskedFor
  <2> HIDE DEF AskedFor, Asking
  <2>2. AskedAlone(t, b) <=>
          \A r \in requests : r.blob = b =>
            /\ todo[b] = {} /\ FlyingTo(t, b) = {} /\ outgoing[b] # "new"
            /\ Span(r.bgn, r.end) \cap Done(t, b) = {}
            /\ \A q \in requests : q.blob = b => q = r
    BY <2>1 DEF AskedAlone
  <2>3. QED
    BY <2>1, <2>2 DEF GapByGap, TodoIsLast, FlightIsNew, SenderIsUp, NothingMore
<1>2. QED
  BY <1>1, PTL

LEMMA SameRound ==
  ASSUME NEW t, NEW b, GapByGap(t, b),
         todo'[b] = todo[b], outgoing'[b] = outgoing[b], incoming'[t][b] = incoming[t][b],
         delivered'[t][b] = delivered[t][b],
         FlyingTo(t, b)' \subseteq FlyingTo(t, b), AskedFor(b)' \subseteq AskedFor(b)
  PROVE  GapByGap(t, b)'
<1>1. Done(t, b)' = Done(t, b)
  BY DEF Done
<1>2. /\ TodoIsLast(t, b) /\ FlightIsNew(t, b) /\ AskedAlone(t, b)
      /\ SenderIsUp(t, b) /\ NothingMore(t, b)
  BY GapByGapParts
<1>3. FlightIsNew(t, b)'
  BY <1>1, <1>2 DEF FlightIsNew
<1>4. AskedAlone(t, b)'
  BY <1>1, <1>2 DEF AskedAlone
<1>5. TodoIsLast(t, b)' /\ SenderIsUp(t, b)' /\ NothingMore(t, b)'
  BY <1>1, <1>2 DEF TodoIsLast, SenderIsUp, NothingMore
<1>6. QED
  BY <1>3, <1>4, <1>5, GapByGapParts

LEMMA NextRound ==
  ASSUME TypeOK, [Next]_vars, NEW t \in Target, plan.calm, plan.to = {t},
         \A b \in Blob : GapByGap(t, b) /\ \A u \in Target \ {t} : Quiet(u, b)
  PROVE  \A b \in Blob : GapByGap(t, b)' /\ \A u \in Target \ {t} : Quiet(u, b)'
<1>a. SUFFICES ASSUME NEW b \in Blob
               PROVE  GapByGap(t, b)' /\ \A u \in Target \ {t} : Quiet(u, b)'
  OBVIOUS
<1>b. GapByGap(t, b) /\ \A u \in Target \ {t} : Quiet(u, b)
  OBVIOUS
<1>c. /\ TodoIsLast(t, b) /\ FlightIsNew(t, b) /\ AskedAlone(t, b)
      /\ SenderIsUp(t, b) /\ NothingMore(t, b)
  BY <1>b, GapByGapParts
<1>d. /\ todo[b] \in SUBSET Offset /\ Done(t, b) \in SUBSET Offset
      /\ delivered[t][b] \in 0 .. 2
      /\ \A m \in fragments : /\ m \in Fragment /\ m.bgn \in Offset /\ m.end \in 1 .. Size /\ m.bgn < m.end
                              /\ m.to \in Target /\ m.blob \in Blob
      /\ \A r \in requests : /\ r.blob \in Blob /\ r.bgn \in Offset /\ r.end \in 1 .. Size /\ r.bgn < r.end
  <2>1. todo[b] \in SUBSET Offset /\ fragments \subseteq Fragment /\ requests \subseteq Request
    BY DEF TypeOK
  <2>2. incoming[t][b] \in Incoming \cup {None} /\ delivered[t][b] \in 0 .. 2
    BY SinkTypes
  <2>3. Done(t, b) \in SUBSET Offset
    BY <2>2 DEF Done, Incoming
  <2>4. QED
    BY <2>1, <2>2, <2>3 DEF Fragment, Request
<1>e. \A u \in Target : /\ UNCHANGED fragments => UNCHANGED FlyingTo(u, b)
                        /\ UNCHANGED requests => UNCHANGED AskedFor(b)
                        /\ UNCHANGED <<fragments, delivered, incoming>> =>
                              (Quiet(u, b) => Quiet(u, b)')
  BY DEF FlyingTo, AskedFor, Quiet, Done
<1>f. UNCHANGED <<outgoing, todo, incoming, delivered>> /\ fragments' \subseteq fragments
      /\ requests' \subseteq requests => GapByGap(t, b)' /\ \A u \in Target \ {t} : Quiet(u, b)'
  <2>1. SUFFICES ASSUME UNCHANGED <<outgoing, todo, incoming, delivered>>,
                        fragments' \subseteq fragments, requests' \subseteq requests
                 PROVE  GapByGap(t, b)' /\ \A u \in Target \ {t} : Quiet(u, b)'
    OBVIOUS
  <2>2. \A u : FlyingTo(u, b)' \subseteq FlyingTo(u, b) /\ Done(u, b)' = Done(u, b)
    BY <2>1 DEF FlyingTo, Done
  <2>3. AskedFor(b)' \subseteq AskedFor(b)
    BY <2>1 DEF AskedFor
  <2>4. GapByGap(t, b)'
    BY <1>b, <2>1, <2>2, <2>3, SameRound
  <2>5. QED
    BY <1>b, <2>1, <2>2, <2>4 DEF Quiet
<1> DEFINE Goal == GapByGap(t, b)' /\ \A u \in Target \ {t} : Quiet(u, b)'
<1>1. ASSUME NEW c \in Blob, Push(c) PROVE Goal
  <2>1. outgoing[c] = "new" /\ outgoing' = [outgoing EXCEPT ![c] = "sending"]
        /\ todo' = [todo EXCEPT ![c] = Offset]
        /\ UNCHANGED <<incoming, delivered, fragments, requests>>
    BY <1>1 DEF Push, targetVars, netVars
  <2>2. \A u : FlyingTo(u, b)' = FlyingTo(u, b) /\ Done(u, b)' = Done(u, b)
    BY <2>1 DEF FlyingTo, Done
  <2>3. AskedFor(b)' = AskedFor(b)
    BY <2>1 DEF AskedFor
  <2>4. \A u \in Target \ {t} : Quiet(u, b)'
    BY <1>b, <2>1, <2>2 DEF Quiet
  <2>5. CASE c # b
    <3>1. outgoing'[b] = outgoing[b] /\ todo'[b] = todo[b]
      BY <2>1, <2>5 DEF TypeOK
    <3>2. QED
      BY <1>b, <2>1, <2>2, <2>3, <2>4, <3>1, SameRound
  <2>6. CASE c = b
    <3>1. Done(t, b) = {} /\ FlyingTo(t, b) = {} /\ AskedFor(b) = {} /\ ~(delivered[t][b] > 0)
      BY <1>c, <2>1, <2>6 DEF SenderIsUp, AskedAlone, NothingMore
    <3>2. todo'[b] = Offset /\ outgoing'[b] = "sending"
      BY <2>1, <2>6 DEF TypeOK
    <3>3. \A i, j \in Offset : Span(i, j) \subseteq Offset
      BY OffsetFacts
    <3>4. TodoIsLast(t, b)' /\ FlightIsNew(t, b)' /\ AskedAlone(t, b)'
      BY <2>2, <2>3, <3>1, <3>2, <3>3 DEF TodoIsLast, FlightIsNew, AskedAlone
    <3>5. SenderIsUp(t, b)' /\ NothingMore(t, b)'
      BY <2>1, <3>1, <3>2 DEF SenderIsUp, NothingMore
    <3>6. QED
      BY <2>4, <3>4, <3>5, GapByGapParts
  <2>7. QED
    BY <2>5, <2>6
<1>2. ASSUME NEW c \in Blob, SendFragment(c) PROVE Goal
  <2>1. PICK bgn \in Offset, end \in 1 .. Size :
           /\ bgn < end /\ outgoing[c] = "sending"
           /\ bgn \in todo[c] /\ bgn - 1 \notin todo[c]
           /\ todo' = [todo EXCEPT ![c] = @ \ Span(bgn, end)]
           /\ fragments \subseteq fragments'
           /\ \A m \in fragments' \ fragments :
                 m.to \in plan.to /\ m.blob = c /\ m.bgn = bgn /\ m.end = end
           /\ \A m, k \in fragments' \ fragments : m.to = k.to => m = k
           /\ UNCHANGED <<outgoing, incoming, sink, delivered, quit, requests, lost, plan>>
    BY <1>2, SendEffect
  <2>2. AskedFor(b)' = AskedFor(b) /\ \A u : Done(u, b)' = Done(u, b)
    BY <2>1 DEF AskedFor, Done
  <2>3. \A u : \A m \in FlyingTo(u, b)' :
                  \/ m \in FlyingTo(u, b)
                  \/ u = t /\ c = b /\ m \in fragments' \ fragments /\ m.to = t /\ m.bgn = bgn /\ m.end = end
    BY <2>1 DEF FlyingTo
  <2>4. \A u \in Target \ {t} : Quiet(u, b)'
    <3>1. \A u \in Target \ {t} : FlyingTo(u, b)' = {}
      BY <1>b, <2>3 DEF Quiet
    <3>2. QED
      BY <1>b, <2>1, <2>2, <3>1 DEF Quiet
  <2>5. CASE c # b
    <3>1. todo'[b] = todo[b] /\ FlyingTo(t, b)' \subseteq FlyingTo(t, b)
      BY <2>1, <2>3, <2>5 DEF TypeOK
    <3>2. QED
      BY <1>b, <2>1, <2>2, <2>4, <3>1, SameRound
  <2>6. CASE c = b
    <3>1. todo'[b] = todo[b] \ Span(bgn, end) /\ todo[b] # {} /\ bgn \in Nat /\ end \in Nat
      BY <2>1, <2>6, OffsetFacts DEF TypeOK
    <3>2. AskedFor(b) = {} /\ ~(delivered[t][b] > 0)
      BY <1>c, <3>1 DEF AskedAlone, NothingMore
    <3>3. \A o \in todo[b] : o \in Nat /\ bgn <= o
      <4>1. ASSUME NEW o \in todo[b], o < bgn PROVE FALSE
        <5>1. o \in Nat
          BY <1>d, OffsetFacts
        <5>2. Span(o, bgn) \subseteq todo[b]
          BY <1>c, <2>1, <2>6 DEF TodoIsLast
        <5>3. bgn - 1 \in Span(o, bgn)
          BY <3>1, <4>1, <5>1, OffsetFacts
        <5>4. QED
          BY <2>1, <2>6, <5>2, <5>3
      <4>2. \A o \in todo[b] : o \in Nat
        BY <1>d, OffsetFacts
      <4>3. QED
        BY <3>1, <4>1, <4>2
    <3>4. \A o \in todo'[b] : o \in todo[b] /\ o \in Nat /\ end <= o
      <4>1. ASSUME NEW o \in todo[b], o \notin Span(bgn, end) PROVE end <= o
        BY <3>1, <3>3, <4>1, OffsetFacts
      <4>2. QED
        BY <3>1, <3>3, <4>1
    <3>5. TodoIsLast(t, b)'
      <4>1. todo'[b] \cap Done(t, b)' = {}
        BY <1>c, <2>2, <3>4 DEF TodoIsLast
      <4>2. ASSUME NEW i \in todo'[b], NEW j \in todo'[b], NEW x \in Span(i, j) PROVE x \in todo'[b]
        <5>1. x \in todo[b]
          BY <1>c, <3>4, <4>2 DEF TodoIsLast
        <5>2. i \in Nat /\ j \in Nat /\ end <= i
          BY <3>4
        <5>3. x \in Int /\ i <= x
          BY <4>2, <5>2, OffsetFacts
        <5>4. x \notin Span(bgn, end)
          BY <3>1, <5>2, <5>3, OffsetFacts
        <5>5. QED
          BY <3>1, <5>1, <5>4
      <4>3. QED
        BY <4>1, <4>2 DEF TodoIsLast
    <3>6. FlightIsNew(t, b)'
      <4>1. ASSUME NEW m \in FlyingTo(t, b)'
            PROVE  m.bgn \notin Done(t, b) /\ \A o \in todo'[b] : m.end <= o
        <5>1. CASE m \in FlyingTo(t, b)
          BY <1>c, <3>4, <5>1 DEF FlightIsNew
        <5>2. CASE m.bgn = bgn /\ m.end = end
          BY <1>c, <2>1, <2>6, <3>4, <5>2 DEF TodoIsLast
        <5>3. QED
          BY <2>3, <5>1, <5>2
      <4>2. ASSUME NEW m \in FlyingTo(t, b)', NEW k \in FlyingTo(t, b)'
            PROVE  m = k \/ m.end <= k.bgn \/ k.end <= m.bgn
        <5>1. \A x \in FlyingTo(t, b) : x.end <= bgn
          BY <1>c, <2>1, <2>6 DEF FlightIsNew
        <5>2. CASE m \in FlyingTo(t, b) /\ k \in FlyingTo(t, b)
          BY <1>c, <5>2 DEF FlightIsNew
        <5>3. CASE m \in FlyingTo(t, b) /\ k \notin FlyingTo(t, b)
          BY <2>3, <5>1, <5>3
        <5>4. CASE m \notin FlyingTo(t, b) /\ k \in FlyingTo(t, b)
          BY <2>3, <5>1, <5>4
        <5>5. CASE m \notin FlyingTo(t, b) /\ k \notin FlyingTo(t, b)
          BY <2>1, <2>3, <5>5
        <5>6. QED
          BY <5>2, <5>3, <5>4, <5>5
      <4>3. QED
        BY <2>2, <4>1, <4>2 DEF FlightIsNew
    <3>7. AskedAlone(t, b)' /\ NothingMore(t, b)'
      BY <2>1, <2>2, <3>2 DEF AskedAlone, NothingMore
    <3>8. SenderIsUp(t, b)'
      BY <2>1, <2>6 DEF SenderIsUp
    <3>9. QED
      BY <2>4, <3>5, <3>6, <3>7, <3>8, GapByGapParts
  <2>7. QED
    BY <2>5, <2>6
<1>3. ASSUME NEW c \in Blob, LingerOut(c) PROVE Goal
  <2>1. outgoing[c] = "sending" /\ todo[c] = {} /\ outgoing' = [outgoing EXCEPT ![c] = "gone"]
        /\ UNCHANGED <<todo, incoming, delivered, fragments, requests>>
    BY <1>3 DEF LingerOut, targetVars, netVars
  <2>2. \A u : FlyingTo(u, b)' = FlyingTo(u, b) /\ Done(u, b)' = Done(u, b)
    BY <2>1 DEF FlyingTo, Done
  <2>3. AskedFor(b)' = AskedFor(b)
    BY <2>1 DEF AskedFor
  <2>4. \A u \in Target \ {t} : Quiet(u, b)'
    BY <1>b, <2>1, <2>2 DEF Quiet
  <2>5. CASE c # b
    <3>1. outgoing'[b] = outgoing[b]
      BY <2>1, <2>5 DEF TypeOK
    <3>2. QED
      BY <1>b, <2>1, <2>2, <2>3, <2>4, <3>1, SameRound
  <2>6. CASE c = b
    <3>1. outgoing'[b] = "gone"
      BY <2>1, <2>6 DEF TypeOK
    <3>2. TodoIsLast(t, b)' /\ FlightIsNew(t, b)'
      BY <1>c, <2>1, <2>2 DEF TodoIsLast, FlightIsNew
    <3>3. AskedAlone(t, b)' /\ SenderIsUp(t, b)' /\ NothingMore(t, b)'
      BY <1>c, <2>1, <2>2, <2>3, <2>6, <3>1 DEF AskedAlone, SenderIsUp, NothingMore
    <3>4. QED
      BY <2>4, <3>2, <3>3, GapByGapParts
  <2>7. QED
    BY <2>5, <2>6
<1>4. ASSUME NEW c \in Blob, Expire(c) PROVE Goal
  BY <1>4 DEF Expire, TypeOK, IsPatient
<1>5. ASSUME NEW u \in Target, NEW c \in Blob, AskForGap(u, c) PROVE Goal
  <2>1. PICK bgn \in Offset, end \in 1 .. Size :
           /\ bgn < end /\ incoming[u][c] # None /\ incoming[u][c].done # {}
           /\ Span(bgn, end) \cap incoming[u][c].done = {}
           /\ requests' = requests \cup {[blob |-> c, bgn |-> bgn, end |-> end]}
           /\ Timely(todo[c] = {} /\ ~Flying(u, c) /\ ~Asking(c))
           /\ UNCHANGED <<outgoing, todo, incoming, sink, delivered, quit, fragments, lost>>
    BY <1>5, AskEffect
  <2>2. Done(u, c) # {} /\ Done(u, c) = incoming[u][c].done
    BY <2>1 DEF Done
  <2>3. u = t
    BY <2>2 DEF Quiet
  <2>4. todo[c] = {} /\ ~Flying(u, c) /\ ~Asking(c)
    <3>1. (todo[c] = {} /\ ~Flying(u, c) /\ ~Asking(c)) \in BOOLEAN
      OBVIOUS
    <3>2. QED
      BY <2>1, <3>1, CalmIsTimely
  <2>5. \A v : FlyingTo(v, b)' = FlyingTo(v, b) /\ Done(v, b)' = Done(v, b)
    BY <2>1 DEF FlyingTo, Done
  <2>6. \A v \in Target \ {t} : Quiet(v, b)'
    BY <1>b, <2>1, <2>5 DEF Quiet
  <2>7. CASE c # b
    <3>1. AskedFor(b)' = AskedFor(b)
      BY <2>1, <2>7 DEF AskedFor
    <3>2. QED
      BY <1>b, <2>1, <2>5, <2>6, <3>1, SameRound
  <2>8. CASE c = b
    <3> DEFINE r == [blob |-> c, bgn |-> bgn, end |-> end]
    <3>1. AskedFor(b)' = {r} /\ r.bgn = bgn /\ r.end = end
      BY <2>1, <2>4, <2>8 DEF AskedFor, Asking
    <3>2. todo[b] = {} /\ FlyingTo(t, b) = {}
      BY <2>3, <2>4, <2>8 DEF Flying, FlyingTo
    <3>3. outgoing[b] # "new"
      BY <1>c, <2>2, <2>3, <2>8 DEF SenderIsUp
    <3>4. ~(delivered[t][b] > 0)
      BY <1>c, <2>1, <2>3, <2>8 DEF NothingMore
    <3> HIDE DEF r
    <3>5. AskedAlone(t, b)'
      BY <2>1, <2>2, <2>3, <2>5, <2>8, <3>1, <3>2, <3>3 DEF AskedAlone
    <3>6. NothingMore(t, b)'
      BY <2>1, <3>4 DEF NothingMore
    <3>7. TodoIsLast(t, b)' /\ FlightIsNew(t, b)' /\ SenderIsUp(t, b)'
      BY <1>c, <2>1, <2>5 DEF TodoIsLast, FlightIsNew, SenderIsUp
    <3>8. QED
      BY <2>6, <3>5, <3>6, <3>7, GapByGapParts
  <2>9. QED
    BY <2>7, <2>8
<1>6. ASSUME NEW u \in Target, NEW c \in Blob, HandleComplete(u, c) PROVE Goal
  <2>1. /\ incoming[u][c] # None /\ incoming[u][c].done = Offset
        /\ incoming' = [incoming EXCEPT ![u][c] = None]
        /\ delivered' = [delivered EXCEPT ![u][c] = More(@)]
        /\ UNCHANGED <<outgoing, todo, quit, fragments, requests, lost>>
    BY <1>6 DEF HandleComplete, Complete, senderVars, netVars
  <2>2. Done(u, c) = Offset /\ 0 \in Offset
    BY <2>1, OffsetFacts DEF Done
  <2>3. u = t
    BY <2>2 DEF Quiet
  <2>4. AskedFor(b)' = AskedFor(b) /\ \A v : FlyingTo(v, b)' = FlyingTo(v, b)
    BY <2>1 DEF FlyingTo, AskedFor
  <2>5. \A v \in Target \ {t} : incoming'[v][b] = incoming[v][b] /\ delivered'[v][b] = delivered[v][b]
    BY <2>1, <2>3, SinkTypes
  <2>6. \A v \in Target \ {t} : Quiet(v, b)'
    BY <1>b, <2>4, <2>5 DEF Quiet, Done
  <2>7. CASE c # b
    <3>1. incoming'[t][b] = incoming[t][b] /\ delivered'[t][b] = delivered[t][b]
      BY <2>1, <2>7, SinkTypes
    <3>2. QED
      BY <1>b, <2>1, <2>4, <2>6, <3>1, SameRound
  <2>8. CASE c = b
    <3>1. todo[b] = {}
      BY <1>c, <1>d, <2>2, <2>3, <2>8 DEF TodoIsLast
    <3>2. FlyingTo(t, b) = {}
      BY <1>c, <1>d, <2>2, <2>3, <2>8 DEF FlightIsNew, FlyingTo
    <3>3. AskedFor(b) = {}
      <4>1. ASSUME NEW r \in AskedFor(b) PROVE FALSE
        <5>1. r.bgn \in Offset /\ r.bgn \in Nat /\ r.end \in Nat /\ r.bgn < r.end
          BY <1>d, OffsetFacts DEF AskedFor
        <5>2. r.bgn \in Span(r.bgn, r.end)
          BY <5>1, OffsetFacts
        <5>3. QED
          BY <1>c, <2>2, <2>3, <2>8, <5>1, <5>2 DEF AskedAlone
      <4>2. QED
        BY <4>1
    <3>4. outgoing[b] # "new" /\ delivered[t][b] = 0
      BY <1>c, <1>d, <2>1, <2>2, <2>3, <2>8 DEF SenderIsUp, NothingMore
    <3>5. incoming'[t][b] = None /\ delivered'[t][b] = 1 /\ Done(t, b)' = {}
      BY <2>1, <2>3, <2>8, <3>4, SinkTypes DEF More, Done
    <3>6. TodoIsLast(t, b)' /\ FlightIsNew(t, b)' /\ AskedAlone(t, b)'
      BY <2>1, <2>4, <3>1, <3>2, <3>3 DEF TodoIsLast, FlightIsNew, AskedAlone
    <3>7. SenderIsUp(t, b)' /\ NothingMore(t, b)'
      BY <2>1, <2>4, <3>1, <3>2, <3>3, <3>4, <3>5 DEF SenderIsUp, NothingMore
    <3>8. QED
      BY <2>6, <3>6, <3>7, GapByGapParts
  <2>9. QED
    BY <2>7, <2>8
<1>7. ASSUME NEW u \in Target, NEW c \in Blob, TimeOut(u, c) PROVE Goal
  <2>1. /\ incoming[u][c] # None
        /\ incoming' = [incoming EXCEPT ![u][c] = None]
        /\ Timely(outgoing[c] \in {"gone", "expired"} /\ ~Flying(u, c))
        /\ UNCHANGED <<outgoing, todo, delivered, fragments, requests>>
    BY <1>7 DEF TimeOut, CancelIncoming, senderVars, netVars
  <2>2. outgoing[c] \in {"gone", "expired"} /\ ~Flying(u, c)
    <3>1. (outgoing[c] \in {"gone", "expired"} /\ ~Flying(u, c)) \in BOOLEAN
      OBVIOUS
    <3>2. QED
      BY <2>1, <3>1, CalmIsTimely
  <2>3. AskedFor(b)' = AskedFor(b) /\ \A v : FlyingTo(v, b)' = FlyingTo(v, b)
    BY <2>1 DEF FlyingTo, AskedFor
  <2>4. \A v \in Target : incoming'[v][b] = IF v = u /\ b = c THEN None ELSE incoming[v][b]
    BY <2>1, SinkTypes
  <2>5. \A v \in Target : Done(v, b)' = IF v = u /\ b = c THEN {} ELSE Done(v, b)
    BY <2>4 DEF Done
  <2>6. \A v \in Target \ {t} : Quiet(v, b)'
    BY <1>b, <2>1, <2>3, <2>5 DEF Quiet
  <2>7. CASE ~(u = t /\ c = b)
    BY <1>b, <2>1, <2>3, <2>4, <2>6, <2>7, SameRound
  <2>8. CASE u = t /\ c = b
    <3>1. todo[b] = {} /\ FlyingTo(t, b) = {} /\ outgoing[b] # "new"
      BY <1>c, <2>2, <2>8 DEF SenderIsUp, Flying, FlyingTo
    <3>2. incoming'[t][b] = None /\ Done(t, b)' = {}
      BY <2>4, <2>5, <2>8
    <3>3. TodoIsLast(t, b)' /\ FlightIsNew(t, b)' /\ AskedAlone(t, b)'
      BY <1>c, <2>1, <2>3, <3>1, <3>2 DEF TodoIsLast, FlightIsNew, AskedAlone
    <3>4. SenderIsUp(t, b)' /\ NothingMore(t, b)'
      BY <1>c, <2>1, <2>3, <3>1, <3>2 DEF SenderIsUp, NothingMore
    <3>5. QED
      BY <2>6, <3>3, <3>4, GapByGapParts
  <2>9. QED
    BY <2>7, <2>8
<1>8. ASSUME NEW m \in fragments, ProcessIncoming(m) PROVE Goal
  <2> DEFINE i == [done |-> Span(m.bgn, m.end) \cup Done(m.to, m.blob),
                   expected |-> Awaits(m.to, m.blob)]
  <2>1. /\ m.to \in Target /\ m.blob \in Blob /\ i # None
        /\ incoming' = [incoming EXCEPT ![m.to][m.blob] = i]
        /\ fragments' = fragments \ {m}
        /\ UNCHANGED <<outgoing, todo, delivered, quit, requests, lost, plan>>
    BY <1>8, IncomingEffect
  <2>2. m \in FlyingTo(m.to, m.blob) /\ i.done = Span(m.bgn, m.end) \cup Done(m.to, m.blob)
    BY DEF FlyingTo
  <2> HIDE DEF i
  <2>3. m.to = t
    BY <2>1, <2>2 DEF Quiet
  <2>4. AskedFor(b)' = AskedFor(b) /\ \A v : FlyingTo(v, b)' = FlyingTo(v, b) \ {m}
    BY <2>1 DEF FlyingTo, AskedFor
  <2>5. \A v \in Target : incoming'[v][b] = IF v = t /\ b = m.blob THEN i ELSE incoming[v][b]
    BY <2>1, <2>3, SinkTypes
  <2>6. \A v \in Target \ {t} : Quiet(v, b)'
    BY <1>b, <2>1, <2>4, <2>5 DEF Quiet, Done
  <2>7. CASE m.blob # b
    BY <1>b, <2>1, <2>4, <2>5, <2>6, <2>7, SameRound
  <2>8. CASE m.blob = b
    <3>1. Done(t, b)' = Span(m.bgn, m.end) \cup Done(t, b)
      BY <2>1, <2>2, <2>3, <2>5, <2>8 DEF Done
    <3>2. m \in FlyingTo(t, b)
      BY <2>2, <2>3, <2>8
    <3>3. AskedFor(b) = {} /\ outgoing[b] # "new" /\ ~(delivered[t][b] > 0)
      BY <1>c, <3>2 DEF AskedAlone, SenderIsUp, NothingMore
    <3>4. m.bgn \in Nat /\ m.end \in Nat /\ m.bgn < m.end
      BY <1>d, OffsetFacts
    <3>5. TodoIsLast(t, b)'
      <4>1. ASSUME NEW o \in todo[b], o \in Span(m.bgn, m.end) PROVE FALSE
        <5>1. m.end <= o /\ o \in Int /\ o < m.end
          BY <1>c, <3>2, <3>4, <4>1, OffsetFacts DEF FlightIsNew
        <5>2. QED
          BY <3>4, <5>1
      <4>2. QED
        BY <1>c, <2>1, <3>1, <4>1 DEF TodoIsLast
    <3>6. FlightIsNew(t, b)'
      <4>1. ASSUME NEW k \in FlyingTo(t, b), k # m PROVE k.bgn \notin Span(m.bgn, m.end)
        <5>1. k.end <= m.bgn \/ m.end <= k.bgn
          BY <1>c, <3>2, <4>1 DEF FlightIsNew
        <5>2. k.bgn \in Nat /\ k.end \in Nat /\ k.bgn < k.end
          BY <1>d, OffsetFacts DEF FlyingTo
        <5>3. QED
          BY <3>4, <5>1, <5>2, OffsetFacts
      <4>2. \A k \in FlyingTo(t, b)' : k \in FlyingTo(t, b) /\ k # m
        BY <2>4
      <4>3. \A k \in FlyingTo(t, b)' : k.bgn \notin Done(t, b)'
        BY <1>c, <3>1, <4>1, <4>2 DEF FlightIsNew
      <4>4. QED
        BY <1>c, <2>1, <4>2, <4>3 DEF FlightIsNew
    <3>7. AskedAlone(t, b)' /\ NothingMore(t, b)'
      BY <2>1, <2>4, <3>3 DEF AskedAlone, NothingMore
    <3>8. SenderIsUp(t, b)'
      BY <1>c, <2>1, <3>3 DEF SenderIsUp
    <3>9. QED
      BY <2>6, <3>5, <3>6, <3>7, <3>8, GapByGapParts
  <2>9. QED
    BY <2>7, <2>8
<1>9. ASSUME NEW r \in requests, ProcessResend(r) PROVE Goal
  <2>1. /\ UNCHANGED <<outgoing, incoming, delivered, fragments>> /\ requests' = requests \ {r}
        /\ todo' = IF outgoing[r.blob] = "sending"
                   THEN [todo EXCEPT ![r.blob] = @ \cup Span(r.bgn, r.end)] ELSE todo
    BY <1>9 DEF ProcessResend, targetVars, MergeResendRequest
  <2>2. \A v : FlyingTo(v, b)' = FlyingTo(v, b) /\ Done(v, b)' = Done(v, b)
    BY <2>1 DEF FlyingTo, Done
  <2>3. AskedFor(b)' = AskedFor(b) \ {r}
    BY <2>1 DEF AskedFor
  <2>4. \A u \in Target \ {t} : Quiet(u, b)'
    BY <1>b, <2>1, <2>2 DEF Quiet
  <2>5. CASE ~(r.blob = b /\ outgoing[b] = "sending")
    <3>1. todo'[b] = todo[b]
      BY <1>d, <2>1, <2>5 DEF TypeOK
    <3>2. QED
      BY <1>b, <2>1, <2>2, <2>3, <2>4, <3>1, SameRound
  <2>6. CASE r.blob = b /\ outgoing[b] = "sending"
    <3>1. r \in AskedFor(b)
      BY <2>6 DEF AskedFor
    <3>2. todo[b] = {} /\ FlyingTo(t, b) = {} /\ Span(r.bgn, r.end) \cap Done(t, b) = {}
          /\ AskedFor(b) \ {r} = {} /\ ~(delivered[t][b] > 0)
      BY <1>c, <3>1 DEF AskedAlone, NothingMore
    <3>3. todo'[b] = Span(r.bgn, r.end)
      BY <2>1, <2>6, <3>2 DEF TypeOK
    <3>4. r.bgn \in Nat /\ r.end \in Nat
      BY <1>d, OffsetFacts
    <3>5. \A j, k \in Span(r.bgn, r.end) : Span(j, k) \subseteq Span(r.bgn, r.end)
      <4>1. ASSUME NEW j \in Span(r.bgn, r.end), NEW k \in Span(r.bgn, r.end), NEW x \in Span(j, k)
            PROVE  x \in Span(r.bgn, r.end)
        <5>1. j \in Int /\ k \in Int /\ r.bgn <= j /\ k < r.end
          BY <3>4, OffsetFacts
        <5>2. x \in Int /\ j <= x /\ x < k
          BY <5>1, OffsetFacts
        <5>3. QED
          BY <3>4, <5>1, <5>2, OffsetFacts
      <4>2. QED
        BY <4>1
    <3>6. TodoIsLast(t, b)' /\ FlightIsNew(t, b)'
      BY <2>2, <3>2, <3>3, <3>5 DEF TodoIsLast, FlightIsNew
    <3>7. AskedAlone(t, b)' /\ SenderIsUp(t, b)' /\ NothingMore(t, b)'
      BY <2>1, <2>3, <2>6, <3>2 DEF AskedAlone, SenderIsUp, NothingMore
    <3>8. QED
      BY <2>4, <3>6, <3>7, GapByGapParts
  <2>7. QED
    BY <2>5, <2>6
<1>10. ASSUME Lose PROVE Goal
  BY <1>10, <1>f DEF Lose, senderVars, targetVars
<1>11. CASE UNCHANGED vars
  BY <1>11, <1>f DEF vars, senderVars, targetVars, netVars
<1>12. QED
  BY <1>1, <1>2, <1>3, <1>4, <1>5, <1>6, <1>7, <1>8, <1>9, <1>10, <1>11 DEF Next

-----------------------------------------------------------------------------
(* The invariant.                                                          *)

LEMMA StreamIsWholeParts ==
  /\ StreamIsWhole <=> (OneSize => WholeStreams)
  /\ StreamIsWhole' <=> (OneSize' => WholeStreams')
<1>1. StreamIsWhole <=> (OneSize => WholeStreams)
  BY DEF StreamIsWhole, WholeStreams, Awaits, HasAll
<1>2. QED
  BY <1>1, PTL

LEMMA InitInvariant ==
  Init => IInv
<1>1. SUFFICES ASSUME Init PROVE IInv
  OBVIOUS
<1>2. TypeOK
  BY <1>1, InitTypes
<1>3. /\ \A b \in Blob : outgoing[b] = "new" /\ todo[b] = {}
      /\ \A t \in Target, b \in Blob :
            /\ delivered[t][b] = 0
            /\ incoming[t][b] = IF plan.expected /\ t \in plan.to THEN Expected ELSE None
      /\ \A t \in Target, s \in Sink :
            sink[t][s] = [at |-> 0, kept |-> {}, finished |-> 0, cancelled |-> 0]
      /\ fragments = {} /\ requests = {} /\ plan \in Scenarios
  BY <1>1 DEF Init
<1>4. \A t \in Target, b \in Blob : /\ Done(t, b) = {}
                                    /\ incoming[t][b] # None => incoming[t][b].done = {}
                                    /\ Awaits(t, b) => plan.expected
  BY <1>3 DEF Done, Awaits, Expected
<1>5. \A t \in Target, s \in Sink :
        sink[t][s].at = 0 /\ sink[t][s].kept = {} /\ sink[t][s].finished = 0 /\ sink[t][s].cancelled = 0
  BY <1>3
<1>6. \A b \in Blob : SinkOf[b] \in Sink
  BY BlobsAssumption
<1>7. NothingIsForgotten
  BY <1>2, <1>3 DEF NothingIsForgotten
<1>8. StreamEndsOnce
  BY <1>5 DEF StreamEndsOnce
<1>9. OneUser
  BY <1>3, <1>4, <1>5, <1>6, SinksAssumption DEF OneUser
<1>10. BlocksAreWhole
  <2>1. ASSUME NEW n \in 1 .. Size PROVE OnlyBlocks(n)
    BY <1>3, <1>4, <1>5 DEF OnlyBlocks, OfBlocks
  <2>2. QED
    BY <2>1 DEF BlocksAreWhole
<1>11. WholeStreams
  <2>1. ASSUME NEW t \in Target, NEW b \in Blob, Awaits(t, b)
        PROVE  HasAll(sink[t][SinkOf[b]], incoming[t][b].done)
    <3> DEFINE s == sink[t][SinkOf[b]]
    <3>1. incoming[t][b].done = {} /\ s.at = 0 /\ s.kept = {}
      BY <1>4, <1>5, <1>6, <2>1 DEF Awaits
    <3>2. Span(0, 0) = {}
      BY OffsetFacts
    <3> HIDE DEF s
    <3>3. HasAll(s, {})
      BY <3>1, <3>2 DEF HasAll
    <3>4. QED
      BY <3>1, <3>3 DEF s
  <2>2. ASSUME NEW t \in Target, NEW b \in Blob PROVE ~(sink[t][SinkOf[b]].finished > 0)
    BY <1>5, <1>6
  <2>3. QED
    BY <2>1, <2>2 DEF WholeStreams
<1>12. RoundsToOne
  <2>1. ASSUME NEW t \in Target, NEW b \in Blob
        PROVE  GapByGap(t, b) /\ delivered[t][b] = 0 /\ FlyingTo(t, b) = {} /\ Done(t, b) = {}
    <3>1. delivered[t][b] = 0 /\ FlyingTo(t, b) = {} /\ Done(t, b) = {}
      BY <1>3, <1>4 DEF FlyingTo
    <3>2. todo[b] = {} /\ outgoing[b] = "new" /\ requests = {}
      BY <1>3
    <3>3. GapByGap(t, b)
      BY <3>1, <3>2 DEF GapByGap
    <3>4. QED
      BY <3>1, <3>3
  <2>2. QED
    BY <2>1 DEF RoundsToOne
<1>13. QED
  BY <1>2, <1>7, <1>8, <1>9, <1>10, <1>11, <1>12, StreamIsWholeParts DEF IInv

LEMMA NextInvariant ==
  ASSUME IInv, [Next]_vars
  PROVE  IInv'
<1> USE DEF IInv
<1>1. TypeOK'
  BY NextTypes
<1>2. NothingIsForgotten'
  BY NextForgetsNothing
<1>3. OneUser' /\ StreamEndsOnce'
  BY NextEndsOnce
<1>4. plan'.to = plan.to /\ plan'.pieces = plan.pieces /\ plan'.calm = plan.calm
  BY PlanSteps
<1>5. BlocksAreWhole'
  <2>1. ASSUME NEW n \in 1 .. Size, plan'.pieces = {n} PROVE OnlyBlocks(n)'
    BY <1>4, <2>1, NextKeepsBlocks DEF BlocksAreWhole
  <2>2. BlocksAreWhole' <=> \A n \in 1 .. Size : plan'.pieces = {n} => OnlyBlocks(n)'
    BY DEF BlocksAreWhole
  <2>3. QED
    BY <2>1, <2>2
<1>6. StreamIsWhole'
  <2>1. SUFFICES ASSUME OneSize' PROVE WholeStreams'
    BY StreamIsWholeParts
  <2>2. PICK n \in 1 .. Size : plan.pieces = {n}
    BY <1>4, <2>1 DEF OneSize
  <2>3. OnlyBlocks(n) /\ WholeStreams
    BY <2>2, StreamIsWholeParts DEF BlocksAreWhole, OneSize
  <2>4. QED
    BY <2>2, <2>3, NextIsWhole
<1>7. RoundsToOne'
  <2>1. RoundsToOne' <=> \A t \in Target : plan'.calm /\ plan'.to = {t} =>
            \A b \in Blob : GapByGap(t, b)' /\ \A u \in Target \ {t} : Quiet(u, b)'
    BY DEF RoundsToOne, Quiet, Calm
  <2>2. RoundsToOne <=> \A t \in Target : plan.calm /\ plan.to = {t} =>
            \A b \in Blob : GapByGap(t, b) /\ \A u \in Target \ {t} : Quiet(u, b)
    BY DEF RoundsToOne, Quiet, Calm
  <2>3. ASSUME NEW t \in Target, plan'.calm, plan'.to = {t}
        PROVE  \A b \in Blob : GapByGap(t, b)' /\ \A u \in Target \ {t} : Quiet(u, b)'
    BY <1>4, <2>2, <2>3, NextRound
  <2>4. QED
    BY <2>1, <2>3
<1>8. QED
  BY <1>1, <1>2, <1>3, <1>5, <1>6, <1>7

(* The types, what is on its way, the streams and the rounds stay as they  *)
(* are said to be, in every behaviour (blob_manipulator, blobs_impl.cpp).  *)
THEOREM InvariantHolds == Spec => []IInv
<1>1. Init => IInv
  BY InitInvariant
<1>2. IInv /\ [Next]_vars => IInv'
  BY NextInvariant
<1>3. QED
  BY <1>1, <1>2, PTL DEF Spec

(* Whatever is lost, late or out of order, nothing of a blob is forgotten  *)
(* between its sender and its targets, and where messages hold equally     *)
(* much what a stream got is what the bookkeeping says; it ends once       *)
(* (push_outgoing, merge_fragment and merge_resend_request).               *)
THEOREM TransfersStayWhole == Spec => []TransfersAreWhole
<1>1. IInv => TransfersAreWhole
  BY DEF IInv, TransfersAreWhole
<1>2. QED
  BY <1>1, InvariantHolds, PTL

(* A blob that is sent to one target is delivered to it at most once, when *)
(* no timeout fires early (update, process_incoming, handle_complete).     *)
THEOREM DeliveredAtMostOnce == Spec => []DeliveredOnce
<1>1. IInv => DeliveredOnce
  <2>1. SUFFICES ASSUME IInv, NEW t \in Target, NEW b \in Blob, Calm,
                        NEW u \in Target, plan.to = {u}
                 PROVE  delivered[t][b] <= 1
    BY DEF DeliveredOnce
  <2>2. GapByGap(u, b) /\ (t # u => delivered[t][b] = 0)
    BY <2>1 DEF IInv, RoundsToOne
  <2>3. CASE t = u
    <3>1. NothingMore(t, b)
      BY <2>2, <2>3, GapByGapParts
    <3>2. delivered[t][b] \in 0 .. 2
      BY <2>1, SinkTypes DEF IInv
    <3>3. QED
      BY <3>1, <3>2 DEF NothingMore
  <2>4. QED
    BY <2>2, <2>3
<1>2. QED
  BY <1>1, InvariantHolds, PTL

-----------------------------------------------------------------------------
(* The streaming of resources.                                             *)

Fresh == [at |-> 0, kept |-> {}, finished |-> 0, cancelled |-> 0]
StreamsAreFine == OneUser /\ StreamEndsOnce /\ StreamIsWhole

-----------------------------------------------------------------------------
(* What the steps of a transfer do for a request.                          *)

LEMMA TransferKeepsStreams ==
  ASSUME TypeOK, BlocksAreWhole, [Next]_vars
  PROVE  BlocksAreWhole' /\ (StreamsAreFine => StreamsAreFine')
<1>1. plan'.pieces = plan.pieces
  BY PlanSteps
<1>2. BlocksAreWhole'
  <2>1. ASSUME NEW n \in 1 .. Size, plan'.pieces = {n} PROVE OnlyBlocks(n)'
    BY <1>1, <2>1, NextKeepsBlocks DEF BlocksAreWhole
  <2>2. BlocksAreWhole' <=> \A n \in 1 .. Size : plan'.pieces = {n} => OnlyBlocks(n)'
    BY DEF BlocksAreWhole
  <2>3. QED
    BY <2>1, <2>2
<1>3. ASSUME StreamsAreFine PROVE StreamsAreFine'
  <2>1. OneUser /\ StreamEndsOnce /\ StreamIsWhole
    BY <1>3 DEF StreamsAreFine
  <2>2. OneUser' /\ StreamEndsOnce'
    BY <2>1, NextEndsOnce
  <2>3. StreamIsWhole'
    <3>1. SUFFICES ASSUME OneSize' PROVE WholeStreams'
      BY StreamIsWholeParts
    <3>2. PICK n \in 1 .. Size : plan.pieces = {n}
      BY <1>1, <3>1 DEF OneSize
    <3>3. OnlyBlocks(n) /\ WholeStreams
      BY <2>1, <3>2, StreamIsWholeParts DEF BlocksAreWhole, OneSize
    <3>4. QED
      BY <2>1, <3>2, <3>3, NextIsWhole
  <2>4. QED
    BY <2>2, <2>3 DEF StreamsAreFine
<1>4. QED
  BY <1>2, <1>3

LEMMA TransferKeepsAwaits ==
  ASSUME TypeOK, [Next]_vars, NEW t \in Target
  PROVE  /\ \A b \in Blob : Awaits(t, b)' => Awaits(t, b)
         /\ (\A b \in Blob : ~Awaits(t, b)) => sink'[t] = sink[t]
<1>0. UNCHANGED <<incoming, sink>> =>
         /\ \A b \in Blob : Awaits(t, b)' => Awaits(t, b)
         /\ (\A b \in Blob : ~Awaits(t, b)) => sink'[t] = sink[t]
  BY DEF Awaits
<1>1. ASSUME NEW u \in Target, NEW c \in Blob, incoming' = [incoming EXCEPT ![u][c] = None]
      PROVE  \A b \in Blob : Awaits(t, b)' => Awaits(t, b)
  <2>1. ASSUME NEW b \in Blob PROVE incoming'[t][b] = None \/ incoming'[t][b] = incoming[t][b]
    BY <1>1, SinkTypes
  <2>2. QED
    BY <2>1 DEF Awaits
<1>2. ASSUME NEW u \in Target, NEW c \in Blob, NEW r,
             sink' = IF Awaits(u, c) THEN [sink EXCEPT ![u][SinkOf[c]] = r] ELSE sink,
             \A b \in Blob : ~Awaits(t, b)
      PROVE  sink'[t] = sink[t]
  BY <1>2, SinkTypes
<1>3. ASSUME NEW u \in Target, NEW b \in Blob, HandleComplete(u, b)
      PROVE  /\ \A c \in Blob : Awaits(t, c)' => Awaits(t, c)
             /\ (\A c \in Blob : ~Awaits(t, c)) => sink'[t] = sink[t]
  <2> DEFINE r == [sink[u][SinkOf[b]] EXCEPT !.finished = More(@)]
  <2>1. /\ incoming' = [incoming EXCEPT ![u][b] = None]
        /\ sink' = IF Awaits(u, b) THEN [sink EXCEPT ![u][SinkOf[b]] = r] ELSE sink
    BY <1>3 DEF HandleComplete, Complete, Awaits
  <2> HIDE DEF r
  <2>2. QED
    BY <1>1, <1>2, <2>1
<1>4. ASSUME NEW u \in Target, NEW b \in Blob, TimeOut(u, b)
      PROVE  /\ \A c \in Blob : Awaits(t, c)' => Awaits(t, c)
             /\ (\A c \in Blob : ~Awaits(t, c)) => sink'[t] = sink[t]
  <2> DEFINE r == [sink[u][SinkOf[b]] EXCEPT !.cancelled = More(@)]
  <2>1. /\ incoming' = [incoming EXCEPT ![u][b] = None]
        /\ sink' = IF Awaits(u, b) THEN [sink EXCEPT ![u][SinkOf[b]] = r] ELSE sink
    BY <1>4 DEF TimeOut, CancelIncoming, Awaits
  <2> HIDE DEF r
  <2>2. QED
    BY <1>1, <1>2, <2>1
<1>5. ASSUME NEW m \in fragments, ProcessIncoming(m)
      PROVE  /\ \A c \in Blob : Awaits(t, c)' => Awaits(t, c)
             /\ (\A c \in Blob : ~Awaits(t, c)) => sink'[t] = sink[t]
  <2> DEFINE S == Done(m.to, m.blob)
             i == [done |-> Span(m.bgn, m.end) \cup S, expected |-> Awaits(m.to, m.blob)]
             r == Store(sink[m.to][SinkOf[m.blob]], Stores(S, m.bgn, m.end))
  <2>1. /\ m.to \in Target /\ m.blob \in Blob
        /\ incoming' = [incoming EXCEPT ![m.to][m.blob] = i]
        /\ sink' = IF Awaits(m.to, m.blob) THEN [sink EXCEPT ![m.to][SinkOf[m.blob]] = r] ELSE sink
    BY <1>5, IncomingEffect
  <2>2. i.expected = Awaits(m.to, m.blob)
    OBVIOUS
  <2> HIDE DEF i, r, S
  <2>3. ASSUME NEW c \in Blob, Awaits(t, c)' PROVE Awaits(t, c)
    <3>1. CASE t = m.to /\ c = m.blob
      <4>1. incoming'[t][c] = i
        BY <2>1, <3>1, SinkTypes
      <4>2. QED
        BY <2>2, <2>3, <3>1, <4>1 DEF Awaits
    <3>2. CASE ~(t = m.to /\ c = m.blob)
      <4>1. incoming'[t][c] = incoming[t][c]
        BY <2>1, <3>2, SinkTypes
      <4>2. QED
        BY <2>3, <4>1 DEF Awaits
    <3>3. QED
      BY <3>1, <3>2
  <2>4. QED
    BY <1>2, <2>1, <2>3
<1>6. QED
  BY <1>0, <1>3, <1>4, <1>5
     DEF Next, vars, Push, SendFragment, LingerOut, Expire, AskForGap, ProcessResend, Lose,
         senderVars, targetVars

(* A fragment leaves it to the entry whether it is expected.               *)
LEMMA FragmentKeepsAwaits ==
  ASSUME TypeOK, NEW m \in fragments, ProcessIncoming(m), NEW t \in Target, NEW b \in Blob,
         Awaits(t, b)
  PROVE  Awaits(t, b)'
<1> DEFINE i == [done |-> Span(m.bgn, m.end) \cup Done(m.to, m.blob),
                 expected |-> Awaits(m.to, m.blob)]
<1>1. /\ m.to \in Target /\ m.blob \in Blob /\ i # None /\ i.expected = Awaits(m.to, m.blob)
      /\ incoming' = [incoming EXCEPT ![m.to][m.blob] = i]
  BY IncomingEffect
<1> HIDE DEF i
<1>2. CASE t = m.to /\ b = m.blob
  <2>1. incoming'[t][b] = i
    BY <1>1, <1>2, SinkTypes
  <2>2. QED
    BY <1>1, <1>2, <2>1 DEF Awaits
<1>3. CASE ~(t = m.to /\ b = m.blob)
  <2>1. incoming'[t][b] = incoming[t][b]
    BY <1>1, <1>3, SinkTypes
  <2>2. QED
    BY <2>1 DEF Awaits
<1>4. QED
  BY <1>2, <1>3

(* An entry that is made or taken away leaves the blocks as they are.      *)
LEMMA BlocksWithEntry ==
  ASSUME TypeOK, BlocksAreWhole, NEW u \in Target, NEW c \in Blob, NEW e,
         e = None \/ e.done = {},
         incoming' = [incoming EXCEPT ![u][c] = e],
         UNCHANGED <<fragments, requests, todo, plan>>,
         \A t \in Target, s \in Sink : sink'[t][s].kept = sink[t][s].kept
  PROVE  BlocksAreWhole'
<1>1. ASSUME NEW n \in 1 .. Size, OnlyBlocks(n) PROVE OnlyBlocks(n)'
  <2>1. \A t \in Target, b \in Blob :
          incoming'[t][b] = e \/ incoming'[t][b] = incoming[t][b]
    BY SinkTypes
  <2>2. \A t \in Target, b \in Blob :
          incoming'[t][b] # None => OfBlocks(n, incoming'[t][b].done)
    <3>1. OfBlocks(n, {})
      BY DEF OfBlocks
    <3>2. QED
      BY <1>1, <2>1, <3>1 DEF OnlyBlocks
  <2>3. QED
    BY <1>1, <2>2 DEF OnlyBlocks, OfBlocks
<1>2. QED
  BY <1>1 DEF BlocksAreWhole

-----------------------------------------------------------------------------
(* The types.                                                              *)

LEMMA ConsumerFacts ==
  /\ consumer \in Target /\ stream \in Sink
  /\ Target = {consumer} /\ Sink = {stream} /\ None \notin Server
  /\ \A b \in Blob : SinkOf[b] = stream
  BY ResourcesAssumption, BlobsAssumption

LEMMA SetupChanges ==
  ASSUME NEW s \in SetupType
  PROVE  /\ s.leaves > 0 => [s EXCEPT !.leaves = @ - 1] \in SetupType
         /\ s.silences > 0 => [s EXCEPT !.silences = @ - 1] \in SetupType
         /\ s.drops > 0 => [s EXCEPT !.drops = @ - 1] \in SetupType
<1>1. s.leaves \in Nat /\ s.silences \in Nat /\ s.drops \in Nat
  BY DEF SetupType
<1>2. /\ s.leaves > 0 => s.leaves - 1 \in Nat
      /\ s.silences > 0 => s.silences - 1 \in Nat
      /\ s.drops > 0 => s.drops - 1 \in Nat
  BY <1>1
<1>3. QED
  BY <1>2 DEF SetupType

LEMMA MailFacts ==
  /\ \A k \in {"subscribTo", "unsubFrom", "qryResurce", "hasResurce", "hasNotRsrc"}, s \in Server :
        Msg(k, s) \in Mail
  /\ \A k \in {"getContent", "notFound"}, s \in Server, b \in Blob :
        [kind |-> k, server |-> s, blob |-> b] \in Mail
  BY DEF Mail, Msg

LEMMA AskedIsServer ==
  ASSUME ResourcesTypeOK, NEW b \in Blob, BlobMsg("getContent", b) \in mail
  PROVE  askedOf[b] \in Server
<1>1. BlobMsg("getContent", b) \in Mail
  BY DEF ResourcesTypeOK
<1>2. [kind |-> "getContent", server |-> askedOf[b], blob |-> b]
         \in [kind : {"getContent", "notFound"}, server : Server, blob : Blob]
  <2>1. BlobMsg("getContent", b).kind = "getContent"
    BY DEF BlobMsg
  <2>2. BlobMsg("getContent", b) \in [kind : {"getContent", "notFound"}, server : Server, blob : Blob]
    BY <1>1, <2>1 DEF Mail
  <2>3. QED
    BY <2>2 DEF BlobMsg
<1>3. QED
  BY <1>2

LEMMA CancelTypes ==
  ASSUME TypeOK, NEW t \in Target, NEW b \in Blob, CancelIncoming(t, b), UNCHANGED plan
  PROVE  TypeOK'
<1>1. sink \in [Target -> [Sink -> Stream]] /\ SinkOf \in [Blob -> Sink]
  BY SinkTypes
<1>2. incoming' \in [Target -> [Blob -> Incoming \cup {None}]] /\ quit' \subseteq Target \X Blob
  BY DEF CancelIncoming, TypeOK
<1>3. sink' \in [Target -> [Sink -> Stream]]
  <2>1. sink[t][SinkOf[b]] \in Stream
    BY <1>1
  <2>2. [sink[t][SinkOf[b]] EXCEPT !.cancelled = More(@)] \in Stream
    BY <2>1, StreamEnds
  <2>3. QED
    BY <1>1, <2>2 DEF CancelIncoming
<1>4. UNCHANGED <<outgoing, todo, delivered, fragments, requests, lost, plan>>
  BY DEF CancelIncoming, senderVars, netVars
<1>5. IsPatient(plan)'
  BY <1>4 DEF TypeOK, IsPatient
<1>6. QED
  BY <1>2, <1>3, <1>4, <1>5 DEF TypeOK, Stream

LEMMA NextResourcesTypes ==
  ASSUME ResourcesTypeOK, [ResourcesNext]_allVars
  PROVE  ResourcesTypeOK'
<1> DEFINE ConsumerOK == /\ known \subseteq Server /\ current \subseteq Server /\ serving \subseteq Server
                         /\ open \in BOOLEAN /\ source \in Server \cup {None}
                         /\ askedOf \in [Blob -> Server \cup {None}]
                         /\ mail \subseteq Mail /\ unbound \in BOOLEAN /\ setup \in SetupType
<1>1. TypeOK /\ ConsumerOK
  BY DEF ResourcesTypeOK
<1>2. TypeOK' /\ ConsumerOK' => ResourcesTypeOK'
  BY DEF ResourcesTypeOK
<1>3. [Next]_vars => TypeOK'
  BY <1>1, NextTypes
<1>4. UNCHANGED vars => TypeOK'
  BY <1>3
<1>5. ASSUME NEW s \in Server, Announce(s) PROVE ResourcesTypeOK'
  <2>1. mail' \subseteq Mail
    BY <1>1, <1>5, MailFacts DEF Announce
  <2>2. QED
    BY <1>1, <1>2, <1>4, <1>5, <2>1 DEF Announce, consumerVars
<1>6. ASSUME NEW s \in Server, Leave(s) PROVE ResourcesTypeOK'
  <2>1. mail' \subseteq Mail
    BY <1>1, <1>6, MailFacts DEF Leave
  <2>2. setup' \in SetupType
    BY <1>1, <1>6, SetupChanges DEF Leave
  <2>3. QED
    BY <1>1, <1>2, <1>4, <1>6, <2>1, <2>2 DEF Leave, consumerVars
<1>7. ASSUME NEW s \in Server, Return(s) PROVE ResourcesTypeOK'
  BY <1>1, <1>2, <1>4, <1>7 DEF Return, consumerVars
<1>8. ASSUME NEW s \in Server, HandleQuery(s) PROVE ResourcesTypeOK'
  <2>1. mail' \subseteq Mail
    BY <1>1, <1>8, MailFacts DEF HandleQuery, Take
  <2>2. QED
    BY <1>1, <1>2, <1>4, <1>8, <2>1 DEF HandleQuery, consumerVars
<1>9. ASSUME NEW s \in Server, HandleSubscribed(s) PROVE ResourcesTypeOK'
  BY <1>1, <1>2, <1>4, <1>9 DEF HandleSubscribed, Take
<1>10. ASSUME NEW s \in Server, HandleUnsubscribed(s) PROVE ResourcesTypeOK'
  BY <1>1, <1>2, <1>4, <1>10 DEF HandleUnsubscribed, Take, ServerLost, Unbind
<1>11. ASSUME NEW s \in Server, PingTimeout(s) PROVE ResourcesTypeOK'
  <2>1. setup' \in SetupType
    BY <1>1, <1>11, SetupChanges DEF PingTimeout
  <2>2. QED
    BY <1>1, <1>2, <1>4, <1>11, <2>1 DEF PingTimeout, ServerLost, Unbind
<1>12. ASSUME NEW s \in Server, HandleHasResource(s) PROVE ResourcesTypeOK'
  <2>1. CASE Bind
    <3> DEFINE b == CHOOSE x \in Blob : askedOf[x] = None
    <3>1. b \in Blob
      BY <1>12, <2>1 DEF HandleHasResource
    <3>2. /\ source' = s /\ askedOf' = [askedOf EXCEPT ![b] = s]
          /\ incoming' = [incoming EXCEPT ![consumer][b] = Expected]
          /\ mail' = (mail \ {Msg("hasResurce", s)})
                        \cup {[kind |-> "getContent", server |-> s, blob |-> b]}
          /\ UNCHANGED <<outgoing, todo, sink, delivered, quit, fragments, requests, lost, plan,
                         known, current, open, serving, setup, unbound>>
      BY <1>12, <2>1 DEF HandleHasResource, BindTo, senderVars, netVars
    <3> HIDE DEF b
    <3>3. Expected \in Incoming
      BY DEF Expected, Incoming
    <3>4. incoming' \in [Target -> [Blob -> Incoming \cup {None}]]
      BY <1>1, <3>1, <3>2, <3>3, ConsumerFacts DEF TypeOK
    <3>5. TypeOK'
      <4>1. IsPatient(plan)'
        BY <1>1, <3>2 DEF TypeOK, IsPatient
      <4>2. QED
        BY <1>1, <3>2, <3>4, <4>1 DEF TypeOK
    <3>6. mail' \subseteq Mail
      BY <1>1, <3>1, <3>2, MailFacts
    <3>7. QED
      BY <1>1, <1>2, <3>1, <3>2, <3>5, <3>6
  <2>2. CASE ~Bind
    BY <1>1, <1>2, <1>4, <1>12, <2>2
       DEF HandleHasResource, senderVars, netVars, vars, targetVars
  <2>3. QED
    BY <2>1, <2>2
<1>13. ASSUME NEW s \in Server, HandleHasNotResource(s) PROVE ResourcesTypeOK'
  BY <1>1, <1>2, <1>4, <1>13 DEF HandleHasNotResource, Take, Unbind
<1>14. ASSUME NEW b \in Blob, HandleContentRequest(b) PROVE ResourcesTypeOK'
  <2>1. askedOf[b] \in Server
    BY <1>14, AskedIsServer DEF HandleContentRequest
  <2>2. UNCHANGED <<known, current, open, source, serving, askedOf, setup, unbound>>
    BY <1>14 DEF HandleContentRequest, consumerVars
  <2>3. CASE Push(b) /\ mail' = mail \ {BlobMsg("getContent", b)}
    <3>1. TypeOK'
      BY <1>3, <2>3 DEF Next
    <3>2. QED
      BY <1>1, <1>2, <2>2, <2>3, <3>1
  <2>4. CASE /\ outgoing' = [outgoing EXCEPT ![b] = "gone"]
             /\ mail' \subseteq mail \cup {BlobMsg("notFound", b)}
             /\ UNCHANGED <<todo, targetVars, netVars, plan>>
    <3>1. TypeOK'
      BY <1>1, <2>4 DEF TypeOK, targetVars, netVars, IsPatient
    <3>2. BlobMsg("notFound", b) \in Mail
      BY <2>1, MailFacts DEF BlobMsg
    <3>3. QED
      BY <1>1, <1>2, <2>2, <2>4, <3>1, <3>2
  <2>5. QED
    BY <1>14, <2>3, <2>4 DEF HandleContentRequest
<1>15. ASSUME NEW b \in Blob, HandleNotFound(b) PROVE ResourcesTypeOK'
  <2>1. TypeOK' /\ open' \in BOOLEAN
    <3>1. CASE UNCHANGED <<vars, open>>
      BY <1>1, <1>4, <3>1
    <3>2. CASE Close(b) /\ CancelIncoming(consumer, b) /\ UNCHANGED plan
      BY <1>1, <3>2, CancelTypes, ConsumerFacts DEF Close
    <3>3. QED
      BY <1>15, <3>1, <3>2 DEF HandleNotFound
  <2>2. QED
    BY <1>1, <1>2, <1>15, <2>1 DEF HandleNotFound, Take
<1>16. ASSUME NEW b \in Blob, Finish(b) PROVE ResourcesTypeOK'
  <2>1. TypeOK'
    BY <1>3, <1>16, ConsumerFacts DEF Finish, Next
  <2>2. QED
    BY <1>1, <1>2, <1>16, <2>1 DEF Finish, Close
<1>17. ASSUME NEW b \in Blob, GiveUp(b) PROVE ResourcesTypeOK'
  <2>1. TypeOK'
    BY <1>3, <1>17, ConsumerFacts DEF GiveUp, Next
  <2>2. QED
    BY <1>1, <1>2, <1>17, <2>1 DEF GiveUp, Close
<1>18. ASSUME NEW b \in Blob, LoseMail(b) PROVE ResourcesTypeOK'
  <2>1. setup' \in SetupType
    BY <1>1, <1>18, SetupChanges DEF LoseMail
  <2>2. TypeOK'
    BY <1>1, <1>18 DEF LoseMail, TypeOK, targetVars, netVars, IsPatient
  <2>3. QED
    BY <1>1, <1>2, <1>18, <2>1, <2>2 DEF LoseMail, Take, consumerVars
<1>19. ASSUME Search PROVE ResourcesTypeOK'
  <2>1. mail' \subseteq Mail
    BY <1>1, <1>19, MailFacts DEF Search
  <2>2. QED
    BY <1>1, <1>2, <1>4, <1>19, <2>1 DEF Search, consumerVars
<1>20. ASSUME Transfer PROVE ResourcesTypeOK'
  <2>1. TypeOK'
    BY <1>3, <1>20, ConsumerFacts DEF Transfer, Next
  <2>2. QED
    BY <1>1, <1>2, <1>20, <2>1 DEF Transfer, resourceVars, consumerVars
<1>21. CASE UNCHANGED allVars
  BY <1>1, <1>2, <1>4, <1>21 DEF allVars, resourceVars, consumerVars
<1>22. QED
  BY <1>5, <1>6, <1>7, <1>8, <1>9, <1>10, <1>11, <1>12, <1>13, <1>14, <1>15, <1>16, <1>17, <1>18,
     <1>19, <1>20, <1>21 DEF ResourcesNext

-----------------------------------------------------------------------------
(* The request and its server.                                             *)

LEMMA ResourcesInvParts ==
  ResourcesInv <=> /\ ResourcesTypeOK /\ AskedIsExpected /\ BoundIsExpected /\ BlocksAreWhole
                   /\ OneRequest /\ (~unbound => StreamsAreFine)
  BY DEF ResourcesInv, OneRequest, UndisturbedStream, StreamsAreFine

(* What every step does that asks for nothing: blobs may end, and the      *)
(* request may lose its server.                                            *)
LEMMA NothingNewAsked ==
  ASSUME ResourcesInv, ResourcesTypeOK', BlocksAreWhole', BoundIsExpected',
         UNCHANGED askedOf, unbound' = TRUE \/ UNCHANGED <<source, unbound>>,
         \A b \in Blob : Awaits(consumer, b)' => Awaits(consumer, b),
         (\A b \in Blob : ~Awaits(consumer, b)) => sink'[consumer] = sink[consumer],
         StreamsAreFine => StreamsAreFine'
  PROVE  ResourcesInv'
<1>1. AskedIsExpected'
  BY DEF ResourcesInv, AskedIsExpected
<1>2. CASE unbound' = TRUE
  BY <1>1, <1>2 DEF ResourcesInv, OneRequest, UndisturbedStream
<1>3. CASE UNCHANGED <<source, unbound>> /\ unbound' # TRUE
  <2>1. ~unbound /\ ~unbound'
    BY <1>3 DEF ResourcesInv, ResourcesTypeOK
  <2>2. StreamsAreFine /\ StreamsAreFine'
    BY <2>1, ResourcesInvParts
  <2>3. /\ source' = None => \A b \in Blob : askedOf'[b] = None
        /\ \A b, c \in Blob : askedOf'[b] # None /\ askedOf'[c] # None => b = c
    BY <1>3, <2>1 DEF ResourcesInv, OneRequest
  <2>4. (\A b \in Blob : askedOf'[b] = None) => sink'[consumer][stream] = Fresh
    <3>1. SUFFICES ASSUME \A b \in Blob : askedOf'[b] = None PROVE sink'[consumer][stream] = Fresh
      OBVIOUS
    <3>2. \A b \in Blob : ~Awaits(consumer, b)
      BY <3>1 DEF ResourcesInv, AskedIsExpected
    <3>3. sink[consumer][stream] = Fresh
      BY <2>1, <3>1 DEF ResourcesInv, OneRequest, Fresh
    <3>4. QED
      BY <3>2, <3>3
  <2>5. OneRequest'
    BY <2>2, <2>3, <2>4 DEF OneRequest, StreamsAreFine, Fresh
  <2>6. UndisturbedStream'
    BY <2>2 DEF UndisturbedStream, StreamsAreFine
  <2>7. QED
    BY <1>1, <2>5, <2>6 DEF ResourcesInv
<1>4. QED
  BY <1>2, <1>3

(* A step of the transfer by which no expected blob ends.                  *)
LEMMA TransferStep ==
  ASSUME ResourcesInv, ResourcesTypeOK', [Next]_vars, UNCHANGED <<open, askedOf>>,
         \/ source' = None /\ unbound' = TRUE
         \/ UNCHANGED <<source, unbound>>,
         \A b \in Blob : Awaits(consumer, b) => Awaits(consumer, b)'
  PROVE  ResourcesInv'
<1>1. TypeOK /\ BlocksAreWhole
  BY DEF ResourcesInv, ResourcesTypeOK
<1>2. BlocksAreWhole' /\ (StreamsAreFine => StreamsAreFine')
  BY <1>1, TransferKeepsStreams
<1>3. /\ \A b \in Blob : Awaits(consumer, b)' => Awaits(consumer, b)
      /\ (\A b \in Blob : ~Awaits(consumer, b)) => sink'[consumer] = sink[consumer]
  BY <1>1, TransferKeepsAwaits, ConsumerFacts
<1>4. BoundIsExpected'
  BY DEF ResourcesInv, BoundIsExpected, Awaits
<1>5. QED
  BY <1>2, <1>3, <1>4, NothingNewAsked

(* A blob that ends, and with it the request when it was expected.         *)
LEMMA BoundWithoutEntry ==
  ASSUME ResourcesInv, NEW b \in Blob, Close(b), UNCHANGED <<source, askedOf>>,
         incoming[consumer][b] # None,
         incoming' = [incoming EXCEPT ![consumer][b] = None]
  PROVE  BoundIsExpected'
<1>1. SUFFICES ASSUME open', source' # None
               PROVE  \E c \in Blob : askedOf'[c] = source' /\ Awaits(consumer, c)'
  BY DEF BoundIsExpected, Awaits
<1>2. open /\ ~Awaits(consumer, b)
  BY <1>1 DEF Close, Awaits
<1>3. PICK c \in Blob : askedOf[c] = source /\ Awaits(consumer, c)
  BY <1>1, <1>2 DEF ResourcesInv, BoundIsExpected, Awaits
<1>4. incoming'[consumer][c] = incoming[consumer][c]
  BY <1>2, <1>3, ConsumerFacts DEF ResourcesInv, ResourcesTypeOK, TypeOK
<1>5. QED
  BY <1>3, <1>4 DEF Awaits

LEMMA BlobEnds ==
  ASSUME ResourcesInv, ResourcesTypeOK', NEW b \in Blob, HandleComplete(consumer, b) \/ TimeOut(consumer, b),
         Close(b), UNCHANGED <<source, askedOf, unbound>>
  PROVE  ResourcesInv'
<1>1. TypeOK /\ BlocksAreWhole
  BY DEF ResourcesInv, ResourcesTypeOK
<1>2. [Next]_vars
  BY ConsumerFacts DEF Next
<1>3. BlocksAreWhole' /\ (StreamsAreFine => StreamsAreFine')
  BY <1>1, <1>2, TransferKeepsStreams
<1>4. /\ \A c \in Blob : Awaits(consumer, c)' => Awaits(consumer, c)
      /\ (\A c \in Blob : ~Awaits(consumer, c)) => sink'[consumer] = sink[consumer]
  BY <1>1, <1>2, TransferKeepsAwaits, ConsumerFacts
<1>5. incoming[consumer][b] # None /\ incoming' = [incoming EXCEPT ![consumer][b] = None]
  BY DEF HandleComplete, Complete, TimeOut, CancelIncoming
<1>6. BoundIsExpected'
  BY <1>5, BoundWithoutEntry
<1>7. QED
  BY <1>3, <1>4, <1>6, NothingNewAsked

(* A blob is not found: its entry is cancelled at once.                    *)
LEMMA BlobIsMissing ==
  ASSUME ResourcesInv, ResourcesTypeOK', NEW b \in Blob, CancelIncoming(consumer, b), UNCHANGED plan,
         Close(b), UNCHANGED <<source, askedOf, unbound>>
  PROVE  ResourcesInv'
<1> DEFINE s == sink[consumer][SinkOf[b]]
           r == [s EXCEPT !.cancelled = More(@)]
<1>1. TypeOK /\ BlocksAreWhole
  BY DEF ResourcesInv, ResourcesTypeOK
<1>2. /\ incoming[consumer][b] # None
      /\ incoming' = [incoming EXCEPT ![consumer][b] = None]
      /\ sink' = IF Awaits(consumer, b) THEN [sink EXCEPT ![consumer][SinkOf[b]] = r] ELSE sink
      /\ UNCHANGED <<fragments, requests, todo, plan>>
  BY DEF CancelIncoming, Awaits, senderVars, netVars
<1>3. s \in Stream
  BY <1>1, ConsumerFacts, SinkTypes
<1>4. r.kept = s.kept /\ r.finished = s.finished
  BY <1>3 DEF Stream
<1>5. \A t \in Target, x \in Sink : sink'[t][x].kept = sink[t][x].kept
  <2> HIDE DEF r
  <2>1. \A t \in Target, x \in Sink : sink'[t][x] = sink[t][x] \/ (sink'[t][x] = r /\ sink[t][x] = s)
    BY <1>1, <1>2, SinkTypes
  <2> HIDE DEF s
  <2>2. QED
    BY <1>4, <2>1
<1>6. BlocksAreWhole'
  BY <1>1, <1>2, <1>5, ConsumerFacts, BlocksWithEntry
<1>7. BoundIsExpected'
  BY <1>2, BoundWithoutEntry
<1>8. \A c \in Blob : Awaits(consumer, c)' => Awaits(consumer, c)
  <2>1. \A c \in Blob : incoming'[consumer][c] = None \/ incoming'[consumer][c] = incoming[consumer][c]
    BY <1>1, <1>2, SinkTypes, ConsumerFacts
  <2>2. QED
    BY <2>1 DEF Awaits
<1>9. (\A c \in Blob : ~Awaits(consumer, c)) => sink'[consumer] = sink[consumer]
  BY <1>2
<1>10. ASSUME StreamsAreFine PROVE StreamsAreFine'
  <2>1. OneUser /\ StreamEndsOnce /\ StreamIsWhole
    BY <1>10 DEF StreamsAreFine
  <2>2. Awaits(consumer, b) => s.finished = 0 /\ s.cancelled = 0
    <3>1. Awaits(consumer, b) => s.finished + s.cancelled = 0
      BY <2>1, ConsumerFacts DEF OneUser
    <3>2. s.finished \in 0 .. 2 /\ s.cancelled \in 0 .. 2
      BY <1>3, StreamEnds
    <3> HIDE DEF s
    <3>3. QED
      BY <3>1, <3>2
  <2>3. Awaits(consumer, b) => r.finished = 0 /\ r.finished + r.cancelled = 1
    BY <1>3, <2>2 DEF Stream, More
  <2> HIDE DEF r, s
  <2>4. OneUser' /\ StreamEndsOnce'
    BY <1>1, <1>2, <2>1, <2>3, ConsumerFacts, StreamEndsWithItsBlob
  <2>5. StreamIsWhole'
    <3>1. SUFFICES ASSUME OneSize' PROVE WholeStreams'
      BY StreamIsWholeParts
    <3>2. WholeStreams
      BY <1>2, <2>1, <3>1, StreamIsWholeParts DEF OneSize
    <3>3. Awaits(consumer, b) => (r.finished > 0 => r.at = Size /\ r.kept = {})
      BY <2>3
    <3>4. QED
      BY <1>1, <1>2, <2>1, <3>2, <3>3, ConsumerFacts, WholeWithoutEntry
  <2>6. QED
    BY <2>4, <2>5 DEF StreamsAreFine
<1>11. QED
  BY <1>6, <1>7, <1>8, <1>9, <1>10, NothingNewAsked

(* A server is found, and asked for the content.                           *)
LEMMA RequestIsBound ==
  ASSUME ResourcesInv, ResourcesTypeOK', NEW s \in Server, NEW b \in Blob, askedOf[b] = None,
         source = None, source' = s, askedOf' = [askedOf EXCEPT ![b] = s],
         incoming' = [incoming EXCEPT ![consumer][b] = Expected],
         UNCHANGED <<outgoing, todo, sink, delivered, quit, fragments, requests, lost, plan, open, unbound>>
  PROVE  ResourcesInv'
<1>1. /\ TypeOK /\ BlocksAreWhole
      /\ askedOf \in [Blob -> Server \cup {None}]
  BY DEF ResourcesInv, ResourcesTypeOK
<1>2. /\ Expected.done = {} /\ Expected.expected = TRUE /\ Expected # None
  <2>1. Expected \in Incoming
    BY DEF Expected, Incoming
  <2>2. QED
    BY <2>1, NoneAssumption DEF Expected
<1>3. /\ \A c \in Blob : incoming'[consumer][c] = IF c = b THEN Expected ELSE incoming[consumer][c]
      /\ \A c \in Blob : askedOf'[c] = IF c = b THEN s ELSE askedOf[c]
      /\ s # None
  BY <1>1, ConsumerFacts, SinkTypes
<1>4. BlocksAreWhole'
  BY <1>1, <1>2, ConsumerFacts, BlocksWithEntry
<1>5. \A c \in Blob : c # b => (Awaits(consumer, c)' <=> Awaits(consumer, c))
  BY <1>3 DEF Awaits
<1>6. AskedIsExpected'
  BY <1>3, <1>5 DEF ResourcesInv, AskedIsExpected
<1>7. BoundIsExpected'
  BY <1>2, <1>3 DEF BoundIsExpected
<1>8. ASSUME ~unbound' PROVE OneRequest' /\ StreamsAreFine'
  <2>1. ~unbound /\ \A c \in Blob : askedOf[c] = None
    BY <1>8 DEF ResourcesInv, OneRequest
  <2>2. sink[consumer][stream] = Fresh
    BY <2>1 DEF ResourcesInv, OneRequest, Fresh
  <2>3. \A c \in Blob : ~Awaits(consumer, c)
    BY <2>1 DEF ResourcesInv, AskedIsExpected
  <2>4. \A c \in Blob : Awaits(consumer, c)' => c = b
    BY <1>5, <2>3
  <2>5. OneUser'
    BY <2>2, <2>4, ConsumerFacts DEF OneUser, Fresh
  <2>6. StreamEndsOnce'
    BY <2>2, ConsumerFacts DEF StreamEndsOnce, Fresh
  <2>7. WholeStreams'
    <3>1. Span(0, 0) = {}
      BY OffsetFacts
    <3>2. HasAll(Fresh, {})
      BY <3>1 DEF HasAll, Fresh
    <3>3. \A c \in Blob : sink'[consumer][SinkOf[c]] = Fresh
      BY <2>2, ConsumerFacts
    <3>4. Awaits(consumer, b)' => HasAll(sink'[consumer][SinkOf[b]], incoming'[consumer][b].done)
      BY <1>2, <1>3, <3>2, <3>3
    <3>5. ~(Fresh.finished > 0)
      BY DEF Fresh
    <3>6. ASSUME NEW c \in Blob
          PROVE  /\ Awaits(consumer, c)' => HasAll(sink'[consumer][SinkOf[c]], incoming'[consumer][c].done)
                 /\ ~(sink'[consumer][SinkOf[c]].finished > 0)
      BY <2>4, <3>3, <3>4, <3>5
    <3>7. WholeStreams' <=> \A t \in Target, c \in Blob :
              /\ Awaits(t, c)' => HasAll(sink'[t][SinkOf[c]], incoming'[t][c].done)
              /\ sink'[t][SinkOf[c]].finished > 0 =>
                    sink'[t][SinkOf[c]].at = Size /\ sink'[t][SinkOf[c]].kept = {}
      BY DEF WholeStreams, HasAll
    <3>8. QED
      BY <3>6, <3>7, ConsumerFacts
  <2>8. StreamsAreFine'
    BY <2>5, <2>6, <2>7, StreamIsWholeParts DEF StreamsAreFine
  <2>9. OneRequest'
    BY <1>3, <2>1, <2>5 DEF OneRequest
  <2>10. QED
    BY <2>8, <2>9
<1>9. QED
  BY <1>4, <1>6, <1>7, <1>8 DEF ResourcesInv, OneRequest, UndisturbedStream, StreamsAreFine

LEMMA InitResourcesInvariant ==
  ResourcesInit => ResourcesInv
<1>1. SUFFICES ASSUME ResourcesInit PROVE ResourcesInv
  OBVIOUS
<1>2. /\ Init /\ setup \in Setups /\ known = {} /\ current = {} /\ serving = Server
      /\ open = TRUE /\ source = None
      /\ askedOf = [b \in Blob |-> None] /\ mail = {} /\ unbound = FALSE
  BY <1>1 DEF ResourcesInit
<1>3. IInv
  BY <1>2, InitInvariant
<1>4. ResourcesTypeOK
  <2>1. setup \in SetupType
    BY <1>2, ResourcesAssumption
  <2>2. TypeOK
    BY <1>3 DEF IInv
  <2>3. QED
    BY <1>2, <2>1, <2>2 DEF ResourcesTypeOK
<1>5. \A b \in Blob : askedOf[b] = None /\ ~Awaits(consumer, b)
  <2>1. plan \in Scenarios
    BY <1>2 DEF Init
  <2>2. ~plan.expected
    BY <2>1, ResourcesAssumption
  <2>3. incoming = [t \in Target |-> [b \in Blob |->
                        IF plan.expected /\ t \in plan.to THEN Expected ELSE None]]
    BY <1>2 DEF Init
  <2>4. \A b \in Blob : incoming[consumer][b] = None
    BY <2>2, <2>3, ConsumerFacts
  <2>5. QED
    BY <1>2, <2>4 DEF Awaits
<1>6. sink[consumer][stream] = Fresh
  BY <1>2, ConsumerFacts DEF Init, Fresh
<1>7. StreamsAreFine
  BY <1>3 DEF IInv, StreamsAreFine
<1>8. AskedIsExpected /\ BoundIsExpected /\ OneRequest
  BY <1>2, <1>5, <1>6, <1>7 DEF AskedIsExpected, BoundIsExpected, OneRequest, StreamsAreFine, Fresh
<1>9. BlocksAreWhole
  BY <1>3 DEF IInv
<1>10. QED
  BY <1>4, <1>7, <1>8, <1>9, ResourcesInvParts

LEMMA NextResourcesInvariant ==
  ASSUME ResourcesInv, [ResourcesNext]_allVars
  PROVE  ResourcesInv'
<1>1. ResourcesTypeOK'
  BY NextResourcesTypes DEF ResourcesInv
<1>2. ASSUME UNCHANGED vars, UNCHANGED <<open, askedOf>>,
             (source' = None /\ unbound' = TRUE) \/ UNCHANGED <<source, unbound>>
      PROVE  ResourcesInv'
  <2>1. \A b \in Blob : Awaits(consumer, b) => Awaits(consumer, b)'
    BY <1>2 DEF vars, targetVars, Awaits
  <2>2. QED
    BY <1>1, <1>2, <2>1, TransferStep
<1>3. ASSUME NEW s \in Server, Unbind(s)
      PROVE  (source' = None /\ unbound' = TRUE) \/ UNCHANGED <<source, unbound>>
  BY <1>3 DEF Unbind, ResourcesInv, ResourcesTypeOK
<1>4. ASSUME NEW s \in Server, Announce(s) \/ Leave(s) \/ Return(s) \/ HandleQuery(s) \/ HandleSubscribed(s)
      PROVE  ResourcesInv'
  BY <1>2, <1>4 DEF Announce, Leave, Return, HandleQuery, HandleSubscribed, consumerVars
<1>5. ASSUME NEW s \in Server, HandleUnsubscribed(s) PROVE ResourcesInv'
  BY <1>2, <1>3, <1>5 DEF HandleUnsubscribed, ServerLost
<1>6. ASSUME NEW s \in Server, PingTimeout(s) PROVE ResourcesInv'
  BY <1>2, <1>3, <1>6 DEF PingTimeout, ServerLost
<1>7. ASSUME NEW s \in Server, HandleHasNotResource(s) PROVE ResourcesInv'
  BY <1>2, <1>3, <1>7 DEF HandleHasNotResource
<1>8. ASSUME NEW s \in Server, HandleHasResource(s) PROVE ResourcesInv'
  <2>1. CASE Bind
    <3> DEFINE b == CHOOSE x \in Blob : askedOf[x] = None
    <3>1. b \in Blob /\ askedOf[b] = None
      BY <1>8, <2>1 DEF HandleHasResource
    <3>2. /\ source = None /\ source' = s /\ askedOf' = [askedOf EXCEPT ![b] = s]
          /\ incoming' = [incoming EXCEPT ![consumer][b] = Expected]
          /\ UNCHANGED <<outgoing, todo, sink, delivered, quit, fragments, requests, lost, plan,
                         open, unbound>>
      BY <1>8, <2>1 DEF HandleHasResource, BindTo, Bind, senderVars, netVars
    <3> HIDE DEF b
    <3>3. QED
      BY <1>1, <3>1, <3>2, RequestIsBound
  <2>2. CASE ~Bind
    BY <1>2, <1>8, <2>2 DEF HandleHasResource, senderVars, netVars, vars, targetVars
  <2>3. QED
    BY <2>1, <2>2
<1>9. ASSUME UNCHANGED <<todo, targetVars, netVars, plan>>, UNCHANGED <<open, askedOf, source, unbound>>
      PROVE  ResourcesInv'
  <2>1. \A b \in Blob : Awaits(consumer, b)' <=> Awaits(consumer, b)
    BY <1>9 DEF targetVars, Awaits
  <2>2. BoundIsExpected'
    BY <1>9 DEF ResourcesInv, BoundIsExpected, targetVars
  <2>3. BlocksAreWhole'
    <3>1. \A n \in 1 .. Size : OnlyBlocks(n)' <=> OnlyBlocks(n)
      BY <1>9 DEF OnlyBlocks, OfBlocks, targetVars, netVars
    <3>2. QED
      BY <1>9, <3>1 DEF ResourcesInv, BlocksAreWhole
  <2>4. StreamsAreFine => StreamsAreFine'
    BY <1>9 DEF StreamsAreFine, OneUser, StreamEndsOnce, StreamIsWhole, OneSize, Awaits, targetVars
  <2>5. sink' = sink
    BY <1>9 DEF targetVars
  <2>6. QED
    BY <1>1, <1>9, <2>1, <2>2, <2>3, <2>4, <2>5, NothingNewAsked
<1>10. ASSUME NEW b \in Blob, HandleContentRequest(b) PROVE ResourcesInv'
  <2>1. UNCHANGED <<open, askedOf, source, unbound>>
    BY <1>10 DEF HandleContentRequest, consumerVars
  <2>2. CASE Push(b)
    <3>1. [Next]_vars
      BY <2>2 DEF Next
    <3>2. \A c \in Blob : Awaits(consumer, c) => Awaits(consumer, c)'
      BY <2>2 DEF Push, targetVars, Awaits
    <3>3. QED
      BY <1>1, <2>1, <3>1, <3>2, TransferStep
  <2>3. CASE UNCHANGED <<todo, targetVars, netVars, plan>>
    BY <1>9, <2>1, <2>3
  <2>4. QED
    BY <1>10, <2>2, <2>3 DEF HandleContentRequest
<1>11. ASSUME NEW b \in Blob, HandleNotFound(b) PROVE ResourcesInv'
  <2>1. UNCHANGED <<source, askedOf, unbound>>
    BY <1>11 DEF HandleNotFound
  <2>2. CASE UNCHANGED <<vars, open>>
    BY <1>2, <2>1, <2>2
  <2>3. CASE Close(b) /\ CancelIncoming(consumer, b) /\ UNCHANGED plan
    BY <1>1, <2>1, <2>3, BlobIsMissing
  <2>4. QED
    BY <1>11, <2>2, <2>3 DEF HandleNotFound
<1>12. ASSUME NEW b \in Blob, Finish(b) \/ GiveUp(b) PROVE ResourcesInv'
  BY <1>1, <1>12, BlobEnds DEF Finish, GiveUp
<1>13. ASSUME NEW b \in Blob, LoseMail(b) PROVE ResourcesInv'
  BY <1>9, <1>13 DEF LoseMail, consumerVars
<1>14. ASSUME Search PROVE ResourcesInv'
  BY <1>2, <1>14 DEF Search, consumerVars
<1>15. ASSUME Transfer PROVE ResourcesInv'
  <2>1. [Next]_vars
    BY <1>15, ConsumerFacts DEF Transfer, Next
  <2>2. UNCHANGED <<open, askedOf, source, unbound>>
    BY <1>15 DEF Transfer, resourceVars, consumerVars
  <2>3. \A b \in Blob : Awaits(consumer, b) => Awaits(consumer, b)'
    <3>1. UNCHANGED incoming => \A b \in Blob : Awaits(consumer, b) => Awaits(consumer, b)'
      BY DEF Awaits
    <3>2. ASSUME NEW m \in fragments, ProcessIncoming(m)
          PROVE  \A b \in Blob : Awaits(consumer, b) => Awaits(consumer, b)'
      BY <3>2, ConsumerFacts, FragmentKeepsAwaits DEF ResourcesInv, ResourcesTypeOK
    <3>3. QED
      BY <1>15, <3>1, <3>2
         DEF Transfer, SendFragment, LingerOut, Expire, AskForGap, ProcessResend, Lose, targetVars
  <2>4. QED
    BY <1>1, <2>1, <2>2, <2>3, TransferStep
<1>16. CASE UNCHANGED allVars
  BY <1>2, <1>16 DEF allVars, resourceVars, consumerVars
<1>17. QED
  BY <1>4, <1>5, <1>6, <1>7, <1>8, <1>10, <1>11, <1>12, <1>13, <1>14, <1>15, <1>16 DEF ResourcesNext

(* A request asks for one blob as long as it has not lost a server, in     *)
(* every behaviour (resource_data_consumer_node and resource_manipulator). *)
THEOREM ResourcesInvariantHolds == ResourcesSpec => []ResourcesInv
<1>1. ResourcesInit => ResourcesInv
  BY InitResourcesInvariant
<1>2. ResourcesInv /\ [ResourcesNext]_allVars => ResourcesInv'
  BY NextResourcesInvariant
<1>3. QED
  BY <1>1, <1>2, PTL DEF ResourcesSpec

(* Whichever servers come, go and answer, a bound request awaits a blob    *)
(* from its server, and an undisturbed stream is whole and ends once       *)
(* (_handle_resource_found, _handle_server_lost, _handle_stream_done).     *)
THEOREM RequestsKeepTheirServers == ResourcesSpec => []RequestKeepsItsServer
<1>1. ResourcesInv => RequestKeepsItsServer
  BY DEF ResourcesInv, RequestKeepsItsServer
<1>2. QED
  BY <1>1, ResourcesInvariantHolds, PTL
=============================================================================
