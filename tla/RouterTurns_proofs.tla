------------------------- MODULE RouterTurns_proofs -------------------------
(***************************************************************************)
(* Proofs about what a router does alone: an id is refused only when all   *)
(* ids are in use, for every range of ids; and the turns with any number   *)
(* of workers and nodes and any scripts keep the units of the nodes apart, *)
(* the latch exact, the messages in order and the infos true.              *)
(***************************************************************************)
EXTENDS RouterTurns, SequenceTheorems, FiniteSetTheorems,
        WellFoundedInduction, TLAPS

(* The id allocator, for every range and every set of node ids.            *)

(* The inductive invariant holds when the router starts.                   *)
LEMMA InitIInv == Init => IInv
  BY IdAssumption
     DEF Init, IInv, TypeOK, PassedIdsAreInUse, ZeroMeansExhausted

(* Every step of the allocator, and every node that comes or goes between  *)
(* two calls, preserves the inductive invariant.                           *)
LEMMA NextIInv == IInv /\ [Next]_vars => IInv'
<1> SUFFICES ASSUME IInv, [Next]_vars
             PROVE  IInv'
  OBVIOUS
<1> USE IdAssumption
    DEF IInv, TypeOK, PassedIdsAreInUse, ZeroMeansExhausted, IdRange
<1>1. ASSUME NEW id \in 1 .. MaxId, Adopt(id)
      PROVE  IInv'
  BY <1>1 DEF Adopt
<1>2. ASSUME NEW id \in 1 .. MaxId, Remove(id)
      PROVE  IInv'
  BY <1>2 DEF Remove
<1>3. CASE Begin
  BY <1>3 DEF Begin
<1>4. CASE WrapAround
  <2>1. pc' = "search" /\ seq' = IdBase + 1 /\ seq \in nodes /\ seq + 1 >= IdEnd
    BY <1>4 DEF WrapAround
  <2>2. orig' = orig /\ nodes' = nodes /\ given' = given
    BY <1>4 DEF WrapAround
  <2>3. orig .. (IdEnd - 1) \subseteq nodes
    <3>1. CASE orig <= seq /\ orig .. (seq - 1) \subseteq nodes
      <4>1. ASSUME NEW i \in orig .. (IdEnd - 1)
            PROVE  i = seq \/ i \in orig .. (seq - 1)
        BY <2>1
      <4>2. QED
        BY <4>1, <3>1, <2>1
    <3>2. QED
      BY <3>1, <1>4 DEF WrapAround
  <2>4. QED
    BY <2>1, <2>2, <2>3
<1>5. CASE TryNext
  <2>1. /\ pc = "search" /\ seq \in nodes /\ seq + 1 < IdEnd
        /\ seq' = seq + 1 /\ nodes' = nodes /\ orig' = orig
    BY <1>5 DEF TryNext
  <2>2. CASE orig <= seq /\ orig .. (seq - 1) \subseteq nodes
    <3>1. pc' = "search" /\ given' = given
      BY <2>1, <2>2, <1>5 DEF TryNext
    <3>2. ASSUME NEW i \in orig .. (seq' - 1)
          PROVE  i = seq \/ i \in orig .. (seq - 1)
      BY <2>1, <2>2
    <3>3. orig' .. (seq' - 1) \subseteq nodes'
      BY <3>2, <2>1, <2>2
    <3>4. QED
      BY <2>1, <2>2, <3>1, <3>3
  <2>3. CASE /\ seq < orig
             /\ orig .. (IdEnd - 1) \subseteq nodes
             /\ (IdBase + 1) .. (seq - 1) \subseteq nodes
    <3>1. ASSUME NEW i \in (IdBase + 1) .. (seq' - 1)
          PROVE  i \in nodes
      <4>1. i = seq \/ i \in (IdBase + 1) .. (seq - 1)
        BY <2>1
      <4>2. QED
        BY <4>1, <2>1, <2>3
    <3>2. CASE seq' = orig
      <4>1. pc' = "returned" /\ given' = 0
        BY <3>2, <1>5 DEF TryNext
      <4>2. ASSUME NEW i \in IdRange
            PROVE  i \in orig .. (IdEnd - 1) \/ i \in (IdBase + 1) .. (seq' - 1)
        BY <3>2, <2>1
      <4>3. IdRange \subseteq nodes
        BY <4>2, <3>1, <2>3
      <4>4. QED
        BY <4>1, <4>3, <2>1
    <3>3. CASE seq' # orig
      <4>1. pc' = "search" /\ given' = given
        BY <2>1, <3>3, <1>5 DEF TryNext
      <4>2. seq' < orig'
        BY <2>1, <2>3, <3>3
      <4>3. QED
        BY <4>1, <4>2, <3>1, <2>1, <2>3
    <3>4. QED
      BY <3>2, <3>3
  <2>4. QED
    BY <2>1, <2>2, <2>3
<1>6. CASE TakeId
  BY <1>6 DEF TakeId
<1>7. CASE UNCHANGED vars
  BY <1>7 DEF vars
<1>8. QED
  BY <1>1, <1>2, <1>3, <1>4, <1>5, <1>6, <1>7 DEF Next, GetNextId

(* The inductive invariant holds in every reachable state.                 *)
THEOREM AllocatorInvariant == Spec => []IInv
  BY InitIInv, NextIInv, PTL DEF Spec

(* The allocator's state keeps its type.                                   *)
THEOREM AllocatorTypeOK == Spec => []TypeOK
<1>1. IInv => TypeOK
  BY DEF IInv
<1>2. QED
  BY <1>1, AllocatorInvariant, PTL

(* get_next_id returns 0 only when every id of the router's range is in    *)
(* use, whatever nodes came and went before the call.                      *)
THEOREM ExhaustionIsReal == Spec => []ZeroMeansExhausted
<1>1. IInv => ZeroMeansExhausted
  BY DEF IInv
<1>2. QED
  BY <1>1, AllocatorInvariant, PTL

----------------------------------------------------------------------------
(* What the constants and the types say of scripts, units and messages.    *)

(* A nonempty set of ids has a least one.                                  *)
LEMMA LeastIsIn ==
  ASSUME NEW ids \in SUBSET Nat, ids # {}
  PROVE  Least(ids) \in ids
<1>1. PICK x \in ids : \A y \in ids : ~(<<y, x>> \in OpToRel(<, Nat))
  BY NatLessThanWellFounded, WFMin
<1>2. OpToRel(<, Nat) = {ss \in Nat \X Nat : ss[1] < ss[2]}
  BY DEF OpToRel
<1>3. ASSUME NEW y \in ids PROVE x <= y
  <2>1. ~(y < x)
    BY <1>1, <1>2
  <2>2. QED
    BY <2>1
<1>4. QED
  BY <1>3 DEF Least

(* What is known of the script.                                            *)
LEMMA LinkFacts ==
  ASSUME TurnsTypeOK
  PROVE  /\ IsFiniteSet(Links)
         /\ Links \subseteq Endpoints
         /\ Own \in Links
         /\ Endpoints \subseteq Nat \ {0}
         /\ NodeIds \subseteq Nat
         /\ NodeIds \subseteq Links
         /\ \A l \in Links : script[l] \in Seq(Messages)
<1>1. IsScript(script)
  BY WorkersAssumption DEF TurnsTypeOK
<1>2. QED
  BY <1>1, WorkersAssumption DEF IsScript, Links, NodeIds

(* What may be in a script.                                                *)
LEMMA ScriptFacts ==
  ASSUME TurnsTypeOK, NEW l \in Links, NEW i \in DOMAIN script[l]
  PROVE  /\ script[l][i] \in Messages
         /\ script[l][i].kind \in SentKinds
         /\ script[l][i].kind \in {"ping", "data"} => script[l][i].target \in Endpoints
         /\ script[l][i].source \in Links => script[l][i].source = l
         /\ script[l][i].source # Own
<1>1. IsScript(script)
  BY WorkersAssumption DEF TurnsTypeOK
<1>2. script[l] \in Seq(Messages) /\ Own \in DOMAIN script
  BY <1>1 DEF IsScript, Links
<1>3. script[l][i] \in Messages
  BY <1>2
<1>4. /\ script[l][i].kind \in SentKinds
      /\ script[l][i].kind \in {"ping", "data"} => script[l][i].target \in Endpoints
      /\ script[l][i].source \in DOMAIN script => script[l][i].source = l /\ l # Own
  BY <1>1 DEF IsScript, Links
<1>5. QED
  BY <1>2, <1>3, <1>4 DEF Links

LEMMA ScriptOrder ==
  ASSUME TurnsTypeOK, NEW l \in Links, NEW i \in DOMAIN script[l], NEW j \in DOMAIN script[l],
         i < j, script[l][i].source = script[l][j].source
  PROVE  script[l][i].number < script[l][j].number
<1>1. IsScript(script)
  BY WorkersAssumption DEF TurnsTypeOK
<1>2. QED
  BY <1>1 DEF IsScript, Links

(* Sets of links are finite, so the latch counts a number.                 *)
LEMMA NodesAreFinite ==
  ASSUME TurnsTypeOK, NEW S \in SUBSET Links
  PROVE  IsFiniteSet(S) /\ Cardinality(S) \in Nat
<1>1. IsFiniteSet(S)
  BY LinkFacts, FS_Subset
<1>2. QED
  BY <1>1, FS_CardinalityType

LEMMA IdleIsJob == Idle \in Jobs
  BY EmptySeq DEF Idle, Jobs

LEMMA BegunIsJob ==
  ASSUME NEW what \in {"route", "update"}, NEW n \in Nat
  PROVE  /\ Begun(what, n) \in Jobs
         /\ Begun(what, n).of = n
         /\ Begun(what, n).at = "take"
         /\ Begun(what, n).batch = <<>>
         /\ Begun(what, n).answers = 0
<1>1. Idle \in Jobs /\ Idle.batch = <<>> /\ Idle.answers = 0
  BY IdleIsJob DEF Idle
<1>2. QED
  BY <1>1 DEF Begun, Jobs

(* The messages of the router itself.                                      *)
LEMMA OwnMessages ==
  ASSUME TurnsTypeOK
  PROVE  /\ \A n \in Endpoints \cup {0} : Answer(n) \in Messages
         /\ \A n \in Endpoints \cup {0} : FlowInfo(n) \in Messages
  BY LinkFacts DEF Answer, FlowInfo, Messages, Kinds

----------------------------------------------------------------------------
(* Which message a thread is at.                                           *)

(* The message a unit is at.                                               *)
LEMMA MessageFacts ==
  ASSUME TurnsTypeOK, JobsAreSound, NEW t \in Threads
  PROVE  /\ job[t] \in Jobs
         /\ job[t].batch \in Seq(Messages)
         /\ job[t].batch # <<>> => /\ Head(job[t].batch) \in Messages
                                   /\ Head(job[t].batch) = job[t].batch[1]
                                   /\ Tail(job[t].batch) \in Seq(Messages)
                                   /\ Len(Tail(job[t].batch)) = Len(job[t].batch) - 1
                                   /\ Len(job[t].batch) \in Nat \ {0}
         /\ Answering(t) => Message(t) = Answer(job[t].asker) /\ Message(t) \in Messages
         /\ ~Answering(t) => Message(t) = Head(job[t].batch)
<1>1. job[t] \in Jobs
  BY DEF TurnsTypeOK
<1>2. job[t].batch \in Seq(Messages) /\ job[t].asker \in Endpoints \cup {0}
  BY <1>1 DEF Jobs
<1>3. Answering(t) => Message(t) = Answer(job[t].asker) /\ Message(t) \in Messages
  BY <1>2, OwnMessages DEF Message
<1>4. ~Answering(t) => Message(t) = Head(job[t].batch)
  BY DEF Message
<1>5. ASSUME job[t].batch # <<>>
      PROVE  /\ Head(job[t].batch) \in Messages
             /\ Head(job[t].batch) = job[t].batch[1]
             /\ Tail(job[t].batch) \in Seq(Messages)
             /\ Len(Tail(job[t].batch)) = Len(job[t].batch) - 1
             /\ Len(job[t].batch) \in Nat \ {0}
  BY <1>2, <1>5, HeadTailProperties, EmptySeq
<1>6. QED
  BY <1>1, <1>2, <1>3, <1>4, <1>5

(* A message that was sent to the router is not one of its answers.        *)
LEMMA NextFacts ==
  ASSUME TurnsTypeOK, JobsAreSound, NEW t \in Threads, NEW kinds, IsNext(t, kinds), "answer" \notin kinds
  PROVE  /\ job[t].at = "next"
         /\ job[t].answers = 0
         /\ job[t].batch # <<>>
         /\ Message(t) = Head(job[t].batch)
         /\ Message(t) \in Messages
         /\ Message(t).kind \in kinds
<1>1. ~Answering(t)
  <2>1. Answering(t) => Message(t).kind = "answer"
    BY DEF Message, Answer
  <2>2. QED
    BY <2>1 DEF IsNext
<1>2. job[t].answers = 0
  BY <1>1, MessageFacts DEF Answering, Jobs
<1>3. QED
  BY <1>1, <1>2, MessageFacts DEF IsNext

(* The unit of a thread is of a link.                                      *)
LEMMA OfFacts ==
  ASSUME TurnsTypeOK, UnitsAreApart, NEW t \in Threads, Busy(t)
  PROVE  job[t].of \in Links
  BY LinkFacts DEF UnitsAreApart, TurnsTypeOK

----------------------------------------------------------------------------
(* Which job serves a link, and what it has in hand.                       *)

(* Which job is of a link.                                                 *)
LEMMA JobOfBusy ==
  ASSUME UnitsAreApart, NEW t \in Threads, Busy(t)
  PROVE  JobOf(job[t].of) = job[t]
<1> DEFINE C == CHOOSE u \in Threads : Busy(u) /\ job[u].of = job[t].of
<1>1. C \in Threads /\ Busy(C) /\ job[C].of = job[t].of
  OBVIOUS
<1>2. C = t
  BY <1>1 DEF UnitsAreApart
<1>3. JobOf(job[t].of) = job[C]
  BY DEF JobOf
<1>4. QED
  BY <1>2, <1>3

LEMMA JobOfNobody ==
  ASSUME NEW e, \A t \in Threads : ~(Busy(t) /\ job[t].of = e)
  PROVE  JobOf(e) = Idle
  BY DEF JobOf

LEMMA JobOfIsJob ==
  ASSUME TurnsTypeOK, NEW e
  PROVE  JobOf(e) \in Jobs
<1>1. CASE \E t \in Threads : Busy(t) /\ job[t].of = e
  <2> DEFINE C == CHOOSE u \in Threads : Busy(u) /\ job[u].of = e
  <2>1. C \in Threads
    BY <1>1
  <2>2. JobOf(e) = job[C]
    BY <1>1 DEF JobOf
  <2>3. job[C] \in Jobs
    <3> HIDE DEF C
    <3>1. QED
      BY <2>1 DEF TurnsTypeOK
  <2>4. QED
    BY <2>2, <2>3
<1>2. CASE ~\E t \in Threads : Busy(t) /\ job[t].of = e
  BY <1>2, IdleIsJob DEF JobOf
<1>3. QED
  BY <1>1, <1>2

(* The lengths of what is left of a link.                                  *)
LEMMA LengthFacts ==
  ASSUME TurnsTypeOK, NEW e \in Links
  PROVE  /\ Len(link[e].incoming) \in Nat
         /\ Len(link[e].wire) \in Nat
         /\ Len(script[e]) \in Nat
         /\ DOMAIN script[e] = 1 .. Len(script[e])
         /\ Len(JobOf(e).batch) \in Nat
         /\ JobOf(e).batch \in Seq(Messages)
         /\ link[e].incoming \in Seq(Messages)
         /\ link[e].wire \in Seq(Messages)
         /\ link[e].out \in Seq(Messages)
         /\ link[e].got \in Seq(Messages)
         /\ link[e].got \o link[e].out \in Seq(Messages)
         /\ Fetched(e) \in Int
         /\ Passed(e) \in Int
         /\ Fetched(e) = Passed(e) + Len(JobOf(e).batch)
         /\ Len(script[e]) = Fetched(e) + Len(link[e].incoming) + Len(link[e].wire)
<1>1. link[e] \in [wire : Seq(Messages), incoming : Seq(Messages), out : Seq(Messages), got : Seq(Messages)]
  BY DEF TurnsTypeOK
<1>2. /\ link[e].incoming \in Seq(Messages)
      /\ link[e].wire \in Seq(Messages)
      /\ link[e].out \in Seq(Messages)
      /\ link[e].got \in Seq(Messages)
  BY <1>1
<1>3. script[e] \in Seq(Messages)
  BY LinkFacts
<1>4. JobOf(e).batch \in Seq(Messages)
  BY JobOfIsJob DEF Jobs
<1>5. QED
  BY <1>2, <1>3, <1>4, LenProperties, ConcatProperties DEF Fetched, Passed

(* The message a thread is at is the next of the script of its node.       *)
LEMMA CurrentFacts ==
  ASSUME TurnsTypeOK, UnitsAreApart, ScriptsAreFollowed, NEW t \in Threads, Busy(t),
         job[t].batch # <<>>
  PROVE  /\ job[t].of \in Links
         /\ Passed(job[t].of) \in Nat
         /\ Passed(job[t].of) + 1 \in DOMAIN script[job[t].of]
         /\ Same(Head(job[t].batch), script[job[t].of][Passed(job[t].of) + 1])
<1> DEFINE e == job[t].of
<1>1. e \in Links
  BY OfFacts
<1>2. JobOf(e) = job[t]
  BY JobOfBusy
<1>3. job[t].batch \in Seq(Messages) /\ Len(job[t].batch) \in Nat \ {0} /\ Head(job[t].batch) = job[t].batch[1]
      /\ DOMAIN job[t].batch = 1 .. Len(job[t].batch)
  <2>1. job[t].batch \in Seq(Messages)
    BY DEF TurnsTypeOK, Jobs
  <2>2. QED
    BY <2>1, EmptySeq, LenProperties, HeadTailProperties
<1>4. Passed(e) \in Nat
  BY <1>1 DEF ScriptsAreFollowed
<1>5. Passed(e) + 1 <= Len(script[e])
  <2>1. /\ Fetched(e) = Passed(e) + Len(JobOf(e).batch)
        /\ Len(script[e]) = Fetched(e) + Len(link[e].incoming) + Len(link[e].wire)
        /\ Len(link[e].incoming) \in Nat
        /\ Len(link[e].wire) \in Nat
        /\ Fetched(e) \in Int
        /\ Len(script[e]) \in Nat
    BY <1>1, LengthFacts
  <2>2. Len(JobOf(e).batch) \in Nat \ {0}
    BY <1>2, <1>3
  <2>3. \A p \in Nat, f \in Int, n \in Nat \ {0}, a \in Nat, b \in Nat, l \in Int :
            f = p + n /\ l = f + a + b => p + 1 <= l
    OBVIOUS
  <2>4. QED
    <3> DEFINE f == Fetched(e) n == Len(JobOf(e).batch) a == Len(link[e].incoming) b == Len(link[e].wire)
               l == Len(script[e])
    <3>1. f = Passed(e) + n /\ l = f + a + b /\ l \in Int /\ f \in Int /\ n \in Nat \ {0} /\ a \in Nat /\ b \in Nat
      BY <2>1, <2>2
    <3> HIDE DEF f, n, a, b, l, e
    <3>2. Passed(e) + 1 <= l
      BY <3>1, <2>3, <1>4
    <3>3. QED
      BY <3>2 DEF l
<1>6. Same(JobOf(e).batch[1], script[e][Passed(e) + 1])
  BY <1>1, <1>2, <1>3 DEF ScriptsAreFollowed
<1>7. Same(Head(job[t].batch), script[e][Passed(e) + 1])
  BY <1>6, <1>2, <1>3
<1>8. Passed(e) + 1 \in DOMAIN script[e]
  BY <1>1, <1>4, <1>5, LengthFacts
<1>9. QED
  BY <1>1, <1>4, <1>7, <1>8

(* Its source is that node or nobody the router knows.                     *)
LEMMA CurrentSource ==
  ASSUME TurnsTypeOK, UnitsAreApart, ScriptsAreFollowed, NEW t \in Threads, Busy(t),
         job[t].batch # <<>>
  PROVE  /\ Head(job[t].batch).source \in NodeIds => Head(job[t].batch).source = job[t].of
         /\ Head(job[t].batch).kind \in SentKinds
         /\ Head(job[t].batch).kind \in {"ping", "data"} => Head(job[t].batch).target \in Endpoints
<1> DEFINE e == job[t].of
           m == script[e][Passed(e) + 1]
<1>1. /\ e \in Links
      /\ Passed(e) + 1 \in DOMAIN script[e]
      /\ Same(Head(job[t].batch), m)
  BY CurrentFacts
<1>2. /\ m.kind \in SentKinds
      /\ m.kind \in {"ping", "data"} => m.target \in Endpoints
      /\ m.source \in Links => m.source = e
  BY <1>1, ScriptFacts
<1>3. QED
  <2> HIDE DEF m, e
  <2>1. Head(job[t].batch).kind = m.kind \/ (Head(job[t].batch).kind = "cast" /\ m.kind = "topoQuery")
    BY <1>1 DEF Same
  <2>2. Head(job[t].batch).source = m.source /\ Head(job[t].batch).target = m.target
    BY <1>1 DEF Same
  <2>3. Head(job[t].batch).source \in NodeIds => Head(job[t].batch).source = e
    BY <1>2, <2>2 DEF NodeIds
  <2>4. Head(job[t].batch).kind \in SentKinds
    BY <1>2, <2>1 DEF SentKinds
  <2>5. Head(job[t].batch).kind \in {"ping", "data"} => Head(job[t].batch).target \in Endpoints
    BY <1>2, <2>1, <2>2
  <2>6. QED
    BY <2>3, <2>4, <2>5 DEF e

----------------------------------------------------------------------------
(* What a step within a unit does to the jobs: one moves on, others keep   *)
(* what they have, but for the references that have moved.                 *)
Alike(j, k) == k = j \/ (j.at = "add" /\ k = [j EXCEPT !.moved = TRUE])
Becomes(t, at, batch, answers) ==
  /\ job' \in [Threads -> Jobs]
  /\ job'[t].of = job[t].of
  /\ job'[t].at = at
  /\ job'[t].batch = batch
  /\ job'[t].answers = answers
  /\ answers > 0 => job'[t].asker \in Endpoints
  /\ \A u \in Threads : u # t => Alike(job[u], job'[u])

LEMMA AlikeFacts ==
  ASSUME NEW j \in Jobs, NEW k, Alike(j, k)
  PROVE  /\ k \in Jobs
         /\ k.of = j.of
         /\ k.at = j.at
         /\ k.batch = j.batch
         /\ k.answers = j.answers
         /\ k.asker = j.asker
         /\ j.at # "add" => k = j
  BY DEF Alike, Jobs

LEMMA MovedFacts ==
  ASSUME NEW jobs \in [Threads -> Jobs], NEW t \in Threads
  PROVE  /\ Moved(jobs, t) \in [Threads -> Jobs]
         /\ Moved(jobs, t)[t] = jobs[t]
         /\ \A u \in Threads : u # t => Alike(jobs[u], Moved(jobs, t)[u])
<1>1. ASSUME NEW u \in Threads
      PROVE  /\ Moved(jobs, t)[u] \in Jobs
             /\ u = t => Moved(jobs, t)[u] = jobs[u]
             /\ u # t => Alike(jobs[u], Moved(jobs, t)[u])
  <2>1. Moved(jobs, t)[u] = IF u # t /\ jobs[u].at = "add" THEN [jobs[u] EXCEPT !.moved = TRUE] ELSE jobs[u]
    BY DEF Moved
  <2>2. jobs[u] \in Jobs
    OBVIOUS
  <2>3. [jobs[u] EXCEPT !.moved = TRUE] \in Jobs
    BY <2>2 DEF Jobs
  <2>4. QED
    BY <2>1, <2>2, <2>3 DEF Alike
<1>2. Moved(jobs, t) = [u \in Threads |-> Moved(jobs, t)[u]]
  BY DEF Moved
<1>3. QED
  BY <1>1, <1>2

LEMMA JobType ==
  ASSUME TurnsIInv, NEW t \in Threads
  PROVE  /\ job \in [Threads -> Jobs]
         /\ job[t] \in Jobs
         /\ job[t].of \in Nat
         /\ job[t].batch \in Seq(Messages)
         /\ job[t].answers \in Nat
         /\ job[t].asker \in Endpoints \cup {0}
         /\ job[t].via \in Nat
         /\ job[t].answers > 0 => job[t].asker \in Endpoints
  BY DEF TurnsIInv, TurnsTypeOK, Jobs, JobsAreSound, JobIsSound

(* One job is changed in some fields.                                      *)
LEMMA JobChanged ==
  ASSUME TurnsIInv, NEW t \in Threads, NEW k \in Jobs, k.of = job[t].of,
         k.answers > 0 => k.asker \in Endpoints,
         job' = [job EXCEPT ![t] = k]
  PROVE  Becomes(t, k.at, k.batch, k.answers)
<1>1. job \in [Threads -> Jobs]
  BY JobType
<1>2. job' \in [Threads -> Jobs]
  BY <1>1
<1>3. job'[t] = k
  BY <1>1
<1>4. ASSUME NEW u \in Threads, u # t PROVE Alike(job[u], job'[u])
  BY <1>1, <1>4 DEF Alike
<1>5. QED
  BY <1>2, <1>3, <1>4 DEF Becomes

(* The same, and references move.                                          *)
LEMMA JobChangedMoving ==
  ASSUME TurnsIInv, NEW t \in Threads, NEW k \in Jobs, k.of = job[t].of,
         k.answers > 0 => k.asker \in Endpoints,
         NEW c \in BOOLEAN,
         job' = IF c THEN [job EXCEPT ![t] = k] ELSE Moved([job EXCEPT ![t] = k], t)
  PROVE  Becomes(t, k.at, k.batch, k.answers)
<1> DEFINE J == [job EXCEPT ![t] = k]
<1>1. job \in [Threads -> Jobs]
  BY JobType
<1>2. J \in [Threads -> Jobs] /\ J[t] = k /\ \A u \in Threads : u # t => J[u] = job[u]
  BY <1>1
<1>3. CASE c
  BY <1>3, JobChanged
<1>4. CASE ~c
  <2>1. job' = Moved(J, t)
    BY <1>4
  <2> HIDE DEF J
  <2>2. /\ Moved(J, t) \in [Threads -> Jobs]
        /\ Moved(J, t)[t] = J[t]
        /\ \A u \in Threads : u # t => Alike(J[u], Moved(J, t)[u])
    BY <1>2, MovedFacts
  <2>3. \A u \in Threads : u # t => Alike(job[u], job'[u])
    BY <2>1, <2>2, <1>2
  <2>4. job' \in [Threads -> Jobs] /\ job'[t] = k
    BY <2>1, <2>2, <1>2
  <2>5. QED
    BY <2>3, <2>4 DEF Becomes
<1>5. QED
  BY <1>3, <1>4

----------------------------------------------------------------------------
(* What each step of a unit makes of its job.                              *)

(* What each step within a unit does to the jobs.                          *)
LEMMA GoesBecomes ==
  ASSUME TurnsIInv, NEW t \in Threads, NEW at \in {"next", "add", "send"}, job' = Goes(t, at)
  PROVE  Becomes(t, at, job[t].batch, job[t].answers)
<1> DEFINE k == [job[t] EXCEPT !.at = at]
<1>1. k \in Jobs /\ k.of = job[t].of /\ k.at = at /\ k.batch = job[t].batch
      /\ k.answers = job[t].answers /\ k.asker = job[t].asker
  BY JobType DEF Jobs
<1>2. job' = [job EXCEPT ![t] = k]
  BY JobType DEF Goes
<1>3. k.answers > 0 => k.asker \in Endpoints
  BY <1>1, JobType
<1>4. Becomes(t, k.at, k.batch, k.answers)
  <2> HIDE DEF k
  <2>1. QED
    BY <1>1, <1>2, <1>3, JobChanged
<1>5. QED
  BY <1>1, <1>4

LEMMA GoesMoving ==
  ASSUME TurnsIInv, NEW t \in Threads, NEW at \in {"next", "add", "send"}, NEW c \in BOOLEAN,
         job' = IF c THEN Goes(t, at) ELSE Moved(Goes(t, at), t)
  PROVE  Becomes(t, at, job[t].batch, job[t].answers)
<1> DEFINE k == [job[t] EXCEPT !.at = at]
<1>1. k \in Jobs /\ k.of = job[t].of /\ k.at = at /\ k.batch = job[t].batch
      /\ k.answers = job[t].answers /\ k.asker = job[t].asker
  BY JobType DEF Jobs
<1>2. Goes(t, at) = [job EXCEPT ![t] = k]
  BY JobType DEF Goes
<1>3. k.answers > 0 => k.asker \in Endpoints
  BY <1>1, JobType
<1>4. Becomes(t, k.at, k.batch, k.answers)
  <2> HIDE DEF k
  <2>1. job' = IF c THEN [job EXCEPT ![t] = k] ELSE Moved([job EXCEPT ![t] = k], t)
    BY <1>2
  <2>2. QED
    BY <1>1, <2>1, <1>3, JobChangedMoving
<1>5. QED
  BY <1>1, <1>4

LEMMA Next1Becomes ==
  ASSUME TurnsIInv, NEW t \in Threads, job[t].batch # <<>>, job' = Next1(t)
  PROVE  Becomes(t, "next", Tail(job[t].batch), job[t].answers)
<1> DEFINE k == [job[t] EXCEPT !.at = "next", !.batch = Tail(@)]
<1>0. Tail(job[t].batch) \in Seq(Messages)
  BY JobType, HeadTailProperties
<1>1. k \in Jobs /\ k.of = job[t].of /\ k.at = "next" /\ k.batch = Tail(job[t].batch)
      /\ k.answers = job[t].answers /\ k.asker = job[t].asker
  BY JobType, <1>0 DEF Jobs
<1>2. job' = [job EXCEPT ![t] = k]
  BY JobType DEF Next1
<1>3. k.answers > 0 => k.asker \in Endpoints
  BY <1>1, JobType
<1>4. Becomes(t, k.at, k.batch, k.answers)
  <2> HIDE DEF k
  <2>1. QED
    BY <1>1, <1>2, <1>3, JobChanged
<1>5. QED
  BY <1>1, <1>4

LEMMA FetchBecomes ==
  ASSUME TurnsIInv, NEW t \in Threads, FetchMessages(t)
  PROVE  /\ Busy(t)
         /\ job[t].at = "take" /\ job[t].batch = <<>>
         /\ job[t].of \in Links
         /\ Becomes(t, "next", link[job[t].of].incoming, 0)
<1> DEFINE k == [job[t] EXCEPT !.batch = link[job[t].of].incoming, !.at = "next"]
<1>1. Busy(t)
  BY DEF FetchMessages, Busy
<1>2. job[t].of \in Links
  BY <1>1, OfFacts DEF TurnsIInv
<1>3. link[job[t].of].incoming \in Seq(Messages)
  BY <1>2, LengthFacts DEF TurnsIInv
<1>4. job[t].answers = 0 /\ job[t].batch = <<>> /\ job[t].at = "take"
  BY DEF FetchMessages, TurnsIInv, JobsAreSound, JobIsSound
<1>5. k \in Jobs /\ k.of = job[t].of /\ k.at = "next" /\ k.batch = link[job[t].of].incoming /\ k.answers = 0
  BY JobType, <1>3, <1>4 DEF Jobs
<1>6. job' = [job EXCEPT ![t] = k]
  BY JobType DEF FetchMessages
<1>7. Becomes(t, k.at, k.batch, k.answers)
  <2> HIDE DEF k
  <2>1. k.answers > 0 => k.asker \in Endpoints
    BY <1>5
  <2>2. QED
    BY <1>5, <1>6, <2>1, JobChanged
<1>8. QED
  BY <1>1, <1>2, <1>4, <1>5, <1>7

(* A step that handles the next message of a unit.                         *)
LEMMA NextMessage ==
  ASSUME TurnsIInv, NEW t \in Threads, NEW kinds, IsNext(t, kinds), "answer" \notin kinds
  PROVE  /\ Busy(t)
         /\ job[t].at = "next"
         /\ job[t].answers = 0
         /\ job[t].batch # <<>>
         /\ job[t].of \in Links
         /\ Message(t) = Head(job[t].batch)
         /\ Message(t) \in Messages
         /\ Message(t).kind \in kinds
<1>1. /\ job[t].at = "next"
      /\ job[t].answers = 0
      /\ job[t].batch # <<>>
      /\ Message(t) = Head(job[t].batch)
      /\ Message(t) \in Messages
      /\ Message(t).kind \in kinds
  BY NextFacts DEF TurnsIInv
<1>2. Busy(t)
  BY <1>1 DEF Busy
<1>3. QED
  BY <1>1, <1>2, OfFacts DEF TurnsIInv

LEMMA UpdateInfoBecomes ==
  ASSUME TurnsIInv, NEW t \in Threads, UpdateEndpointInfo(t)
  PROVE  Becomes(t, "add", job[t].batch, 0)
<1>1. IsNext(t, {"subscribTo"})
  BY DEF UpdateEndpointInfo
<1>2. job[t].answers = 0
  BY <1>1, NextMessage
<1> DEFINE c == Message(t).source \in known
<1>3. job' = IF c THEN Goes(t, "add") ELSE Moved(Goes(t, "add"), t)
  BY DEF UpdateEndpointInfo
<1>4. c \in BOOLEAN
  OBVIOUS
<1> HIDE DEF c
<1>5. Becomes(t, "add", job[t].batch, job[t].answers)
  BY <1>3, <1>4, GoesMoving
<1>6. QED
  BY <1>2, <1>5

LEMMA ByeByeBecomes ==
  ASSUME TurnsIInv, NEW t \in Threads, HandleByeBye(t)
  PROVE  Becomes(t, "send", job[t].batch, 0)
<1>1. IsNext(t, {"byeByeEndp"})
  BY DEF HandleByeBye
<1>2. job[t].answers = 0
  BY <1>1, NextMessage
<1> DEFINE c == ~(Message(t).source \in known)
<1>3. job' = IF c THEN Goes(t, "send") ELSE Moved(Goes(t, "send"), t)
  BY DEF HandleByeBye
<1>4. c \in BOOLEAN
  OBVIOUS
<1> HIDE DEF c
<1>5. Becomes(t, "send", job[t].batch, job[t].answers)
  BY <1>3, <1>4, GoesMoving
<1>6. QED
  BY <1>2, <1>5

LEMMA AddBecomes ==
  ASSUME TurnsIInv, NEW t \in Threads, AddSubscription(t)
  PROVE  /\ Busy(t)
         /\ job[t].at = "add"
         /\ job[t].batch # <<>>
         /\ job[t].answers = 0
         /\ Message(t) = Head(job[t].batch)
         /\ Message(t).kind = "subscribTo"
         /\ job[t].of \in Links
         /\ Becomes(t, "send", job[t].batch, 0)
<1> DEFINE k == [job[t] EXCEPT !.at = "send", !.moved = FALSE]
<1>1. Busy(t) /\ job[t].at = "add"
  BY DEF AddSubscription, Busy
<1>2. job[t].batch # <<>> /\ job[t].answers = 0 /\ Head(job[t].batch).kind = "subscribTo"
  BY <1>1 DEF TurnsIInv, JobsAreSound, JobIsSound
<1>3. Message(t) = Head(job[t].batch)
  BY <1>2 DEF Message, Answering
<1>4. k \in Jobs /\ k.of = job[t].of /\ k.at = "send" /\ k.batch = job[t].batch /\ k.answers = 0
  BY JobType, <1>2 DEF Jobs
<1>5. job' = [job EXCEPT ![t] = k]
  BY JobType DEF AddSubscription
<1>6. Becomes(t, k.at, k.batch, k.answers)
  <2> HIDE DEF k
  <2>1. k.answers > 0 => k.asker \in Endpoints
    BY <1>4
  <2>2. QED
    BY <1>4, <1>5, <2>1, JobChanged
<1>7. job[t].of \in Links
  BY <1>1, OfFacts DEF TurnsIInv
<1>8. QED
  BY <1>1, <1>2, <1>3, <1>4, <1>6, <1>7

LEMMA PingBecomes ==
  ASSUME TurnsIInv, NEW t \in Threads, HandlePing(t)
  PROVE  Becomes(t, "next", Tail(job[t].batch), 1)
<1> DEFINE k == [job[t] EXCEPT !.batch = Tail(@), !.asker = Message(t).source, !.answers = 1]
<1>1. IsNext(t, {"ping"})
  BY DEF HandlePing
<1>2. job[t].at = "next" /\ job[t].batch # <<>> /\ Message(t) \in Messages
  BY <1>1, NextMessage
<1>3. Tail(job[t].batch) \in Seq(Messages) /\ Message(t).source \in Endpoints
  BY <1>2, JobType, HeadTailProperties DEF Messages
<1>4. k \in Jobs /\ k.of = job[t].of /\ k.at = "next" /\ k.batch = Tail(job[t].batch) /\ k.answers = 1
      /\ k.asker \in Endpoints
  BY JobType, <1>2, <1>3 DEF Jobs
<1>5. job' = [job EXCEPT ![t] = k]
  BY JobType DEF HandlePing
<1>6. Becomes(t, k.at, k.batch, k.answers)
  <2> HIDE DEF k
  <2>1. QED
    BY <1>4, <1>5, JobChanged
<1>7. QED
  BY <1>4, <1>6

LEMMA TopologyBecomes ==
  ASSUME TurnsIInv, NEW t \in Threads, HandleTopologyQuery(t)
  PROVE  /\ Becomes(t, "next", <<[Head(job[t].batch) EXCEPT !.kind = "cast"]>> \o Tail(job[t].batch),
                    Cardinality(Nodes) + 1)
         /\ [Head(job[t].batch) EXCEPT !.kind = "cast"] \in Messages
<1> DEFINE m == [Message(t) EXCEPT !.kind = "cast"]
           b == <<m>> \o Tail(job[t].batch)
           n == Cardinality(Nodes) + 1
           k == [job[t] EXCEPT !.batch = b, !.asker = Message(t).source, !.answers = n]
<1>1. IsNext(t, {"topoQuery"})
  BY DEF HandleTopologyQuery
<1>2. /\ job[t].at = "next" /\ job[t].batch # <<>> /\ Message(t) \in Messages
      /\ Message(t) = Head(job[t].batch)
  BY <1>1, NextMessage
<1>3. Tail(job[t].batch) \in Seq(Messages) /\ Message(t).source \in Endpoints
  BY <1>2, JobType, HeadTailProperties DEF Messages
<1>4. m \in Messages
  BY <1>2 DEF Messages, Kinds, SentKinds
<1>5. b \in Seq(Messages)
  <2>1. <<m>> \in Seq(Messages)
    BY <1>4
  <2>2. QED
    BY <2>1, <1>3, ConcatProperties
<1>6. n \in Nat
  <2>1. Nodes \in SUBSET Links
    BY LinkFacts DEF TurnsIInv, TurnsTypeOK
  <2>2. Cardinality(Nodes) \in Nat
    BY <2>1, NodesAreFinite DEF TurnsIInv
  <2>3. QED
    BY <2>2
<1>7. job' = [job EXCEPT ![t] = k]
  BY JobType DEF HandleTopologyQuery
<1>8. k \in Jobs /\ k.of = job[t].of /\ k.at = "next" /\ k.batch = b /\ k.answers = n
      /\ k.asker \in Endpoints
  <2> HIDE DEF b, n
  <2>1. QED
    BY JobType, <1>2, <1>3, <1>5, <1>6 DEF Jobs
<1>9. Becomes(t, k.at, k.batch, k.answers)
  <2> HIDE DEF k
  <2>1. QED
    BY <1>7, <1>8, JobChanged
<1>10. Becomes(t, "next", b, n)
  <2> HIDE DEF k, b, n
  <2>1. QED
    BY <1>8, <1>9
<1>11. QED
  BY <1>10, <1>4, <1>2

LEMMA NotRouterBecomes ==
  ASSUME TurnsIInv, NEW t \in Threads, HandleNotARouter(t)
  PROVE  Becomes(t, "next", Tail(job[t].batch), 0)
<1>1. IsNext(t, {"notARouter"})
  BY DEF HandleNotARouter
<1>2. job[t].answers = 0 /\ job[t].batch # <<>>
  BY <1>1, NextMessage
<1>3. job' = Next1(t)
  BY DEF HandleNotARouter
<1>4. QED
  BY <1>2, <1>3, Next1Becomes

LEMMA LogBecomes ==
  ASSUME TurnsIInv, NEW t \in Threads, LogByeBye(t)
  PROVE  Becomes(t, "next", Tail(job[t].batch), 0)
<1>1. IsNext(t, {"byeByeEndp"})
  BY DEF LogByeBye
<1>2. job[t].answers = 0 /\ job[t].batch # <<>>
  BY <1>1, NextMessage
<1>3. job' = Next1(t)
  BY DEF LogByeBye
<1>4. QED
  BY <1>2, <1>3, Next1Becomes

LEMMA BroadcastBecomes ==
  ASSUME TurnsIInv, NEW t \in Threads, Broadcast(t)
  PROVE  Becomes(t, "send", job[t].batch, 0)
<1>1. IsNext(t, {"cast", "notARouter"})
  BY DEF Broadcast
<1>2. job[t].answers = 0
  BY <1>1, NextMessage
<1>3. job' = Goes(t, "send")
  BY DEF Broadcast
<1>4. QED
  BY <1>2, <1>3, GoesBecomes

LEMMA OutgoingBecomes ==
  ASSUME TurnsIInv, NEW t \in Threads, FindOutgoing(t)
  PROVE  /\ Busy(t)
         /\ job[t].at = "next"
         /\ job[t].of \in Links
         /\ ~Answering(t) => /\ job[t].batch # <<>>
                             /\ job[t].answers = 0
                             /\ Message(t) = Head(job[t].batch)
                             /\ Message(t).kind \in {"data", "answer", "ping"}
         /\ Becomes(t, "send", job[t].batch, job[t].answers)
<1> DEFINE k == [job[t] EXCEPT !.at = "send", !.via = idx[Message(t).target]]
<1>1. job[t].at = "next" /\ Busy(t)
  BY DEF FindOutgoing, IsNext, Busy
<1>2. ~Answering(t) => /\ job[t].batch # <<>>
                      /\ job[t].answers = 0
                      /\ Message(t) = Head(job[t].batch)
                      /\ Message(t).kind \in {"data", "answer", "ping"}
  BY JobType DEF FindOutgoing, IsNext, Message, Answering
<1>3. Message(t).target \in Endpoints
  <2>1. CASE Answering(t)
    BY <2>1, JobType DEF Message, Answer, Answering
  <2>2. CASE ~Answering(t)
    <3>1. /\ Head(job[t].batch).kind \in SentKinds
          /\ Head(job[t].batch).kind \in {"ping", "data"} => Head(job[t].batch).target \in Endpoints
      BY <1>1, <1>2, <2>2, CurrentSource DEF TurnsIInv
    <3>2. QED
      BY <3>1, <1>2, <2>2 DEF SentKinds
  <2>3. QED
    BY <2>1, <2>2
<1>4. idx[Message(t).target] \in Nat
  BY <1>3 DEF TurnsIInv, TurnsTypeOK
<1>5. k \in Jobs /\ k.of = job[t].of /\ k.at = "send" /\ k.batch = job[t].batch
      /\ k.answers = job[t].answers /\ k.asker = job[t].asker
  BY JobType, <1>4 DEF Jobs
<1>6. job' = [job EXCEPT ![t] = k]
  BY JobType DEF FindOutgoing
<1>7. Becomes(t, k.at, k.batch, k.answers)
  <2> HIDE DEF k
  <2>1. k.answers > 0 => k.asker \in Endpoints
    BY <1>5, JobType
  <2>2. QED
    BY <1>5, <1>6, <2>1, JobChanged
<1>8. job[t].of \in Links
  BY <1>1, OfFacts DEF TurnsIInv
<1>9. QED
  BY <1>1, <1>2, <1>5, <1>7, <1>8

LEMMA SendBecomes ==
  ASSUME TurnsIInv, NEW t \in Threads, Send(t)
  PROVE  /\ Busy(t)
         /\ job[t].at = "send"
         /\ job[t].of \in Links
         /\ Answering(t) => Becomes(t, "next", job[t].batch, job[t].answers - 1)
         /\ ~Answering(t) => /\ job[t].batch # <<>>
                             /\ job[t].answers = 0
                             /\ Message(t) = Head(job[t].batch)
                             /\ Becomes(t, "next", Tail(job[t].batch), 0)
<1> DEFINE b == IF Answering(t) THEN job[t].batch ELSE Tail(job[t].batch)
           n == IF Answering(t) THEN job[t].answers - 1 ELSE 0
           a == IF job[t].answers > 1 THEN job[t].asker ELSE 0
           k == [job[t] EXCEPT !.at = "next", !.via = 0, !.batch = b, !.answers = n, !.asker = a]
<1>1. job[t].at = "send" /\ Busy(t)
  BY DEF Send, Busy
<1>2. ~Answering(t) => /\ job[t].batch # <<>>
                      /\ job[t].answers = 0
                      /\ Message(t) = Head(job[t].batch)
  BY <1>1, JobType DEF TurnsIInv, JobsAreSound, JobIsSound, Answering, Message
<1>3. b \in Seq(Messages)
  BY <1>2, JobType, HeadTailProperties
<1>4. n \in Nat /\ a \in Endpoints \cup {0} /\ (n > 0 => a \in Endpoints)
  BY JobType DEF Answering
<1>5. job' = [job EXCEPT ![t] = k]
  BY JobType DEF Send
<1>6. k \in Jobs /\ k.of = job[t].of /\ k.at = "next" /\ k.batch = b /\ k.answers = n /\ k.asker = a
  <2> HIDE DEF b, n, a
  <2>1. QED
    BY JobType, <1>3, <1>4 DEF Jobs
<1>7. Becomes(t, "next", b, n)
  <2> HIDE DEF k, b, n, a
  <2>1. k.answers > 0 => k.asker \in Endpoints
    BY <1>4, <1>6
  <2>2. Becomes(t, k.at, k.batch, k.answers)
    BY <1>5, <1>6, <2>1, JobChanged
  <2>3. QED
    BY <1>6, <2>2
<1>8. job[t].of \in Links
  BY <1>1, OfFacts DEF TurnsIInv
<1>9. CASE Answering(t)
  <2>1. b = job[t].batch /\ n = job[t].answers - 1
    BY <1>9
  <2>2. Becomes(t, "next", job[t].batch, job[t].answers - 1)
    <3> HIDE DEF b, n
    <3>1. QED
      BY <2>1, <1>7
  <2>3. QED
    BY <2>2, <1>1, <1>8, <1>9
<1>10. CASE ~Answering(t)
  <2>1. b = Tail(job[t].batch) /\ n = 0
    BY <1>10
  <2>2. Becomes(t, "next", Tail(job[t].batch), 0)
    <3> HIDE DEF b, n
    <3>1. QED
      BY <2>1, <1>7
  <2>3. QED
    BY <2>2, <1>1, <1>2, <1>8, <1>10
<1>11. QED
  BY <1>9, <1>10

----------------------------------------------------------------------------
(* Types: in parts, so that a step shows only those it changes.            *)

(* The parts of the type invariant that a step may disturb.                *)
MainType ==
  /\ phase \in {"maintain", "route", "wait routed", "update", "wait updated"}
  /\ todo \subseteq NodeIds
  /\ rounds \in Nat
  /\ worked \in BOOLEAN
  /\ latch \in Int
  /\ queue \in Seq(Jobs)
NodeType ==
  /\ Nodes \subseteq NodeIds
  /\ node \in [Nodes -> [connected : BOOLEAN, mayRoute : BOOLEAN, bye : BOOLEAN]]
  /\ useWorkers \in BOOLEAN
  /\ gone \subseteq NodeIds
InfoType ==
  /\ idx \in [Endpoints -> Nat]
  /\ subs \in [Endpoints -> SUBSET Endpoints]
  /\ known \subseteq Endpoints
  /\ stale \in BOOLEAN
LinkType ==
  link \in [Links -> [wire : Seq(Messages), incoming : Seq(Messages),
                      out : Seq(Messages), got : Seq(Messages)]]

(* The type invariant is the conjunction of these parts.                   *)
LEMMA TypeParts ==
  TurnsTypeOK <=> /\ script \in Scripts
                  /\ MainType
                  /\ job \in [Threads -> Jobs]
                  /\ NodeType
                  /\ InfoType
                  /\ LinkType
                  /\ flows \in Nat
<1> HIDE DEF Jobs, Messages, Links, NodeIds, Threads
<1>1. QED
  BY DEF TurnsTypeOK, MainType, NodeType, InfoType, LinkType

LEMMA TypePartsNext ==
  ASSUME script' \in Scripts, MainType', job' \in [Threads -> Jobs], NodeType', InfoType', LinkType',
         flows' \in Nat
  PROVE  TurnsTypeOK'
  BY DEF TurnsTypeOK, MainType, NodeType, InfoType, LinkType, Threads, Jobs

LEMMA TypesNow ==
  ASSUME TurnsIInv
  PROVE  /\ script \in Scripts /\ MainType /\ job \in [Threads -> Jobs] /\ NodeType /\ InfoType
         /\ LinkType /\ flows \in Nat
  BY TypeParts DEF TurnsIInv

LEMMA MainTypeKept ==
  ASSUME MainType, UNCHANGED <<script, turn, queue>>, worked' \in BOOLEAN, latch' \in Int
  PROVE  MainType'
  BY DEF MainType, turn, NodeIds, Links, Jobs

LEMMA NodeTypeKept ==
  ASSUME NodeType, UNCHANGED <<script, node, useWorkers, gone>>
  PROVE  NodeType'
  BY DEF NodeType, NodeIds, Links, Nodes

LEMMA InfoTypeKept ==
  ASSUME InfoType, UNCHANGED <<idx, subs, known, stale>>
  PROVE  InfoType'
  BY DEF InfoType

LEMMA LinkTypeKept ==
  ASSUME LinkType, UNCHANGED <<script, link>>
  PROVE  LinkType'
  BY DEF LinkType, Links

(* Steps of a unit that change nothing but the jobs.                       *)
LEMMA OnlyJobsType ==
  ASSUME TurnsIInv, job' \in [Threads -> Jobs], latch' \in Int,
         UNCHANGED <<script, turn, worked, queue, tables, link, flows>>
  PROVE  TurnsTypeOK'
<1>1. /\ script \in Scripts /\ MainType /\ NodeType /\ InfoType /\ LinkType /\ flows \in Nat
  BY TypesNow
<1>2. MainType'
  <2>1. worked' \in BOOLEAN
    BY <1>1 DEF MainType
  <2>2. UNCHANGED <<script, turn, queue>>
    OBVIOUS
  <2>3. QED
    BY <1>1, <2>1, <2>2, MainTypeKept
<1>3. NodeType' /\ InfoType'
  <2>1. UNCHANGED <<script, node, useWorkers, gone>> /\ UNCHANGED <<idx, subs, known, stale>>
    BY DEF tables
  <2>2. QED
    BY <1>1, <2>1, NodeTypeKept, InfoTypeKept
<1>4. LinkType'
  BY <1>1, LinkTypeKept
<1>5. QED
  BY <1>1, <1>2, <1>3, <1>4, TypePartsNext

----------------------------------------------------------------------------
(* Types: the steps of a unit.                                             *)

LEMMA LatchNow ==
  ASSUME TurnsIInv
  PROVE  latch \in Int /\ latch - 1 \in Int /\ worked \in BOOLEAN
<1>1. MainType
  BY TypesNow
<1>2. latch \in Int /\ worked \in BOOLEAN
  BY <1>1 DEF MainType
<1>3. latch - 1 \in Int
  BY <1>2
<1>4. QED
  BY <1>2, <1>3

LEMMA BecomesType ==
  ASSUME NEW t, NEW at, NEW b, NEW n, Becomes(t, at, b, n)
  PROVE  job' \in [Threads -> Jobs]
  BY DEF Becomes

LEMMA FinishType ==
  ASSUME TurnsIInv, NEW t \in Threads, Finish(t)
  PROVE  job' \in [Threads -> Jobs] /\ latch' \in Int
<1>1. job \in [Threads -> Jobs] /\ Idle \in Jobs
  BY JobType, IdleIsJob
<1>2. job' \in [Threads -> Jobs]
  BY <1>1 DEF Finish
<1>3. latch' \in Int
  BY LatchNow DEF Finish
<1>4. QED
  BY <1>2, <1>3

LEMMA RouteDoneType ==
  ASSUME TurnsIInv, NEW t \in Threads, RouteDone(t)
  PROVE  TurnsTypeOK'
<1>1. job' \in [Threads -> Jobs] /\ latch' \in Int
  BY FinishType DEF RouteDone
<1>2. QED
  BY <1>1, OnlyJobsType DEF RouteDone

LEMMA PingType ==
  ASSUME TurnsIInv, NEW t \in Threads, HandlePing(t)
  PROVE  TurnsTypeOK'
<1>1. job' \in [Threads -> Jobs]
  BY PingBecomes, BecomesType
<1>2. QED
  BY <1>1, LatchNow, OnlyJobsType DEF HandlePing

LEMMA TopologyType ==
  ASSUME TurnsIInv, NEW t \in Threads, HandleTopologyQuery(t)
  PROVE  TurnsTypeOK'
<1>1. job' \in [Threads -> Jobs]
  BY TopologyBecomes, BecomesType
<1>2. QED
  BY <1>1, LatchNow, OnlyJobsType DEF HandleTopologyQuery

LEMMA OutgoingType ==
  ASSUME TurnsIInv, NEW t \in Threads, FindOutgoing(t)
  PROVE  TurnsTypeOK'
<1>1. job' \in [Threads -> Jobs]
  BY OutgoingBecomes, BecomesType
<1>2. QED
  BY <1>1, LatchNow, OnlyJobsType DEF FindOutgoing

LEMMA BroadcastType ==
  ASSUME TurnsIInv, NEW t \in Threads, Broadcast(t)
  PROVE  TurnsTypeOK'
<1>1. job' \in [Threads -> Jobs]
  BY BroadcastBecomes, BecomesType
<1>2. QED
  BY <1>1, LatchNow, OnlyJobsType DEF Broadcast

LEMMA LogType ==
  ASSUME TurnsIInv, NEW t \in Threads, LogByeBye(t)
  PROVE  TurnsTypeOK'
<1>1. job' \in [Threads -> Jobs]
  BY LogBecomes, BecomesType
<1>2. QED
  BY <1>1, LatchNow, OnlyJobsType DEF LogByeBye

(* Steps that change the links.                                            *)
LEMMA LinksType ==
  ASSUME TurnsIInv, job' \in [Threads -> Jobs], latch' \in Int, worked' \in BOOLEAN, LinkType',
         UNCHANGED <<script, turn, queue, tables, flows>>
  PROVE  TurnsTypeOK'
<1>1. /\ script \in Scripts /\ MainType /\ NodeType /\ InfoType /\ LinkType /\ flows \in Nat
  BY TypesNow
<1>2. MainType'
  <2>1. UNCHANGED <<script, turn, queue>>
    OBVIOUS
  <2>2. QED
    BY <1>1, <2>1, MainTypeKept
<1>3. NodeType' /\ InfoType'
  <2>1. UNCHANGED <<script, node, useWorkers, gone>> /\ UNCHANGED <<idx, subs, known, stale>>
    BY DEF tables
  <2>2. QED
    BY <1>1, <2>1, NodeTypeKept, InfoTypeKept
<1>4. QED
  BY <1>1, <1>2, <1>3, TypePartsNext

LEMMA UpdateType ==
  ASSUME TurnsIInv, NEW t \in Threads, UpdateConnection(t)
  PROVE  TurnsTypeOK'
<1>1. job' \in [Threads -> Jobs] /\ latch' \in Int
  BY FinishType DEF UpdateConnection
<1>2. worked' \in BOOLEAN
  BY DEF UpdateConnection
<1>3. LinkType'
  <2>1. job[t].of \in Links
    <3>1. Busy(t)
      BY DEF UpdateConnection, Busy
    <3>2. QED
      BY <3>1, OfFacts DEF TurnsIInv
  <2> DEFINE n == job[t].of
             r == [wire |-> <<>>, incoming |-> link[n].incoming \o link[n].wire, out |-> <<>>,
                   got |-> link[n].got \o link[n].out]
  <2>2. r \in [wire : Seq(Messages), incoming : Seq(Messages), out : Seq(Messages), got : Seq(Messages)]
    <3>1. link[n].incoming \o link[n].wire \in Seq(Messages)
      BY <2>1, LengthFacts, ConcatProperties DEF TurnsIInv
    <3>2. link[n].got \o link[n].out \in Seq(Messages)
      BY <2>1, LengthFacts DEF TurnsIInv
    <3>3. QED
      BY <3>1, <3>2, EmptySeq
  <2>3. link' = [link EXCEPT ![n] = r]
    BY DEF UpdateConnection
  <2>4. Links' = Links
    BY DEF UpdateConnection, Links
  <2> HIDE DEF r
  <2>5. QED
    BY <2>2, <2>3, <2>4, TypesNow DEF LinkType
<1>4. QED
  BY <1>1, <1>2, <1>3, LinksType DEF UpdateConnection

LEMMA FetchType ==
  ASSUME TurnsIInv, NEW t \in Threads, FetchMessages(t)
  PROVE  TurnsTypeOK'
<1>1. job' \in [Threads -> Jobs]
  BY FetchBecomes, BecomesType
<1>2. worked' \in BOOLEAN
  BY DEF FetchMessages
<1>3. LinkType'
  <2>1. Links' = Links
    BY DEF FetchMessages, Links
  <2>2. link' = [link EXCEPT ![job[t].of].incoming = <<>>]
    BY DEF FetchMessages
  <2>3. QED
    BY <2>1, <2>2, TypesNow, EmptySeq DEF LinkType
<1>4. QED
  BY <1>1, <1>2, <1>3, LatchNow, LinksType DEF FetchMessages

LEMMA OutgoingIsLinks ==
  ASSUME TurnsIInv, NEW t \in Threads
  PROVE  Outgoing(t) \subseteq Links
<1>1. Own \in Links /\ Nodes \subseteq Links
  BY LinkFacts, TypesNow DEF TurnsIInv, NodeType
<1>2. QED
  BY <1>1 DEF Outgoing

LEMMA SendType ==
  ASSUME TurnsIInv, NEW t \in Threads, Send(t)
  PROVE  TurnsTypeOK' /\ Message(t) \in Messages
<1>1. job' \in [Threads -> Jobs]
  BY SendBecomes, BecomesType
<1>2. Message(t) \in Messages
  BY SendBecomes, MessageFacts DEF TurnsIInv
<1>3. LinkType'
  <2>1. Links' = Links
    BY DEF Send, Links
  <2>2. ASSUME NEW l \in Links
        PROVE  [link[l] EXCEPT !.out = Append(@, Message(t))]
                 \in [wire : Seq(Messages), incoming : Seq(Messages), out : Seq(Messages), got : Seq(Messages)]
    <3>1. Append(link[l].out, Message(t)) \in Seq(Messages)
      BY <1>2, LengthFacts, AppendProperties DEF TurnsIInv
    <3>2. link[l] \in [wire : Seq(Messages), incoming : Seq(Messages), out : Seq(Messages), got : Seq(Messages)]
      BY TypesNow DEF LinkType
    <3>3. QED
      BY <3>1, <3>2
  <2>3. QED
    BY <2>1, <2>2, TypesNow DEF LinkType, Send
<1>4. worked' \in BOOLEAN /\ latch' \in Int
  BY LatchNow DEF Send
<1>5. UNCHANGED <<script, turn, queue, tables, flows>>
  BY DEF Send
<1>6. QED
  BY <1>1, <1>2, <1>3, <1>4, <1>5, LinksType

(* Steps that change the tables.                                           *)
LEMMA TablesType ==
  ASSUME TurnsIInv, job' \in [Threads -> Jobs], NodeType', InfoType',
         UNCHANGED <<script, turn, worked, latch, queue, link, flows>>
  PROVE  TurnsTypeOK'
<1>1. /\ script \in Scripts /\ MainType /\ LinkType /\ flows \in Nat
  BY TypesNow
<1>2. MainType'
  <2>1. UNCHANGED <<script, turn, queue>> /\ worked' \in BOOLEAN /\ latch' \in Int
    BY LatchNow
  <2>2. QED
    BY <1>1, <2>1, MainTypeKept
<1>3. LinkType'
  BY <1>1, LinkTypeKept
<1>4. QED
  BY <1>1, <1>2, <1>3, TypePartsNext

LEMMA UpdateInfoType ==
  ASSUME TurnsIInv, NEW t \in Threads, UpdateEndpointInfo(t)
  PROVE  TurnsTypeOK'
<1>1. job' \in [Threads -> Jobs]
  BY UpdateInfoBecomes, BecomesType
<1>2. Message(t).source \in Endpoints /\ Message(t).from \in Nat
  <2>1. Message(t) \in Messages
    BY NextMessage DEF UpdateEndpointInfo
  <2>2. Endpoints \subseteq Nat
    BY LinkFacts DEF TurnsIInv
  <2>3. QED
    BY <2>1, <2>2 DEF Messages
<1>3. InfoType'
  BY <1>2, TypesNow DEF InfoType, UpdateEndpointInfo
<1>4. NodeType'
  <2>1. UNCHANGED <<script, node, useWorkers, gone>>
    BY DEF UpdateEndpointInfo
  <2>2. QED
    BY <2>1, TypesNow, NodeTypeKept
<1>5. QED
  BY <1>1, <1>3, <1>4, TablesType DEF UpdateEndpointInfo

LEMMA AddType ==
  ASSUME TurnsIInv, NEW t \in Threads, AddSubscription(t)
  PROVE  TurnsTypeOK'
<1>1. job' \in [Threads -> Jobs]
  BY AddBecomes, BecomesType
<1>2. Message(t).source \in Endpoints
  <2>1. Message(t) \in Messages
    BY AddBecomes, MessageFacts DEF TurnsIInv
  <2>2. QED
    BY <2>1 DEF Messages
<1>3. InfoType'
  <2>1. PICK e : subs' = [f \in Endpoints |-> IF f = e THEN subs[f] \cup {Message(t).source} ELSE subs[f]]
    BY DEF AddSubscription
  <2>2. stale' \in BOOLEAN /\ UNCHANGED <<idx, known>>
    BY DEF AddSubscription
  <2>3. QED
    BY <1>2, <2>1, <2>2, TypesNow DEF InfoType
<1>4. NodeType'
  <2>1. UNCHANGED <<script, node, useWorkers, gone>>
    BY DEF AddSubscription
  <2>2. QED
    BY <2>1, TypesNow, NodeTypeKept
<1>5. QED
  BY <1>1, <1>3, <1>4, TablesType DEF AddSubscription

LEMMA ByeByeType ==
  ASSUME TurnsIInv, NEW t \in Threads, HandleByeBye(t)
  PROVE  TurnsTypeOK' /\ Nodes' = Nodes /\ \A n \in Nodes : node'[n].connected = node[n].connected
<1>1. job' \in [Threads -> Jobs]
  BY ByeByeBecomes, BecomesType
<1>2. Message(t).source \in Endpoints
  <2>1. Message(t) \in Messages
    BY NextMessage DEF HandleByeBye
  <2>2. QED
    BY <2>1 DEF Messages
<1>3. InfoType'
  BY <1>2, TypesNow DEF InfoType, HandleByeBye
<1>4. NodeType' /\ Nodes' = Nodes /\ \A n \in Nodes : node'[n].connected = node[n].connected
  <2> DEFINE n == job[t].of
  <2>1. node' = IF n \in Nodes /\ ~node[n].mayRoute THEN [node EXCEPT ![n].bye = TRUE] ELSE node
    BY DEF HandleByeBye
  <2>2. UNCHANGED <<script, useWorkers, gone>>
    BY DEF HandleByeBye
  <2> HIDE DEF n
  <2>3. QED
    BY <2>1, <2>2, TypesNow DEF NodeType, NodeIds, Links, Nodes
<1>5. UNCHANGED <<script, turn, worked, latch, queue, link, flows>>
  BY DEF HandleByeBye
<1>6. QED
  BY <1>1, <1>3, <1>4, <1>5, TablesType

LEMMA NotRouterType ==
  ASSUME TurnsIInv, NEW t \in Threads, HandleNotARouter(t)
  PROVE  TurnsTypeOK' /\ Nodes' = Nodes /\ \A n \in Nodes : node'[n].connected = node[n].connected
<1>1. job' \in [Threads -> Jobs]
  BY NotRouterBecomes, BecomesType
<1>3. InfoType'
  <2>1. UNCHANGED <<idx, subs, known, stale>>
    BY DEF HandleNotARouter
  <2>2. QED
    BY <2>1, TypesNow, InfoTypeKept
<1>4. NodeType' /\ Nodes' = Nodes /\ \A n \in Nodes : node'[n].connected = node[n].connected
  <2> DEFINE n == job[t].of c == Message(t).from = Message(t).source
  <2>1. node' = IF c THEN [node EXCEPT ![n].mayRoute = FALSE] ELSE node
    BY DEF HandleNotARouter
  <2>2. UNCHANGED <<script, useWorkers, gone>>
    BY DEF HandleNotARouter
  <2> HIDE DEF n, c
  <2>3. QED
    BY <2>1, <2>2, TypesNow DEF NodeType, NodeIds, Links, Nodes
<1>5. UNCHANGED <<script, turn, worked, latch, queue, link, flows>>
  BY DEF HandleNotARouter
<1>6. QED
  BY <1>1, <1>3, <1>4, <1>5, TablesType

----------------------------------------------------------------------------
(* Types: the steps of the main thread, and taking a unit.                 *)

(* The steps of the main thread, and taking a unit.                        *)
LEMMA TakeType ==
  ASSUME TurnsIInv, NEW w \in Threads, TakeUnit(w)
  PROVE  TurnsTypeOK' /\ Head(queue) \in Jobs
<1>1. /\ script \in Scripts /\ MainType /\ NodeType /\ InfoType /\ LinkType /\ flows \in Nat
  BY TypesNow
<1>2. queue \in Seq(Jobs) /\ queue # <<>>
  BY <1>1 DEF MainType, TakeUnit
<1>3. Head(queue) \in Jobs /\ Tail(queue) \in Seq(Jobs)
  BY <1>2, HeadTailProperties
<1>4. job' \in [Threads -> Jobs]
  BY <1>3, JobType DEF TakeUnit
<1>5. MainType'
  BY <1>1, <1>3 DEF MainType, TakeUnit, turn, NodeIds, Links, Jobs
<1>6. NodeType' /\ InfoType'
  <2>1. UNCHANGED <<script, node, useWorkers, gone>> /\ UNCHANGED <<idx, subs, known, stale>>
    BY DEF tables, TakeUnit
  <2>2. QED
    BY <1>1, <2>1, NodeTypeKept, InfoTypeKept
<1>7. LinkType' /\ script' \in Scripts /\ flows' \in Nat
  BY <1>1, LinkTypeKept DEF TakeUnit
<1>8. QED
  BY <1>3, <1>4, <1>5, <1>6, <1>7, TypePartsNext

LEMMA ParentType ==
  ASSUME TurnsIInv, ServeParent
  PROVE  TurnsTypeOK' /\ Begun(phase, Own) \in Jobs
<1>1. /\ script \in Scripts /\ MainType /\ NodeType /\ InfoType /\ LinkType /\ flows \in Nat
  BY TypesNow
<1>2. Begun(phase, Own) \in Jobs
  <2>1. Own \in Nat /\ phase \in {"route", "update"}
    BY LinkFacts DEF TurnsIInv, ServeParent
  <2>2. QED
    BY <2>1, BegunIsJob
<1>3. Main \in Threads
  BY DEF Threads
<1>4. job' \in [Threads -> Jobs]
  BY <1>2, <1>3, JobType DEF ServeParent
<1>5. MainType'
  BY <1>1 DEF MainType, ServeParent, NodeIds, Links, Jobs
<1>6. NodeType' /\ InfoType'
  <2>1. UNCHANGED <<script, node, useWorkers, gone>> /\ UNCHANGED <<idx, subs, known, stale>>
    BY DEF tables, ServeParent
  <2>2. QED
    BY <1>1, <2>1, NodeTypeKept, InfoTypeKept
<1>7. LinkType' /\ script' \in Scripts /\ flows' \in Nat
  BY <1>1, LinkTypeKept DEF ServeParent
<1>8. QED
  BY <1>2, <1>4, <1>5, <1>6, <1>7, TypePartsNext

LEMMA WaitType ==
  ASSUME TurnsIInv, WaitRouted \/ WaitUpdated
  PROVE  TurnsTypeOK'
<1>1. /\ script \in Scripts /\ MainType /\ NodeType /\ InfoType /\ LinkType /\ flows \in Nat
  BY TypesNow
<1>2. UNCHANGED <<script, worked, queue, job, tables, link, flows>>
  BY DEF WaitRouted, WaitUpdated
<1>3. Cardinality(Nodes) \in Int
  <2>1. Nodes \in SUBSET Links
    BY <1>1, LinkFacts DEF TurnsIInv, NodeType
  <2>2. Cardinality(Nodes) \in Nat
    BY <2>1, NodesAreFinite DEF TurnsIInv
  <2>3. QED
    BY <2>2
<1>4. /\ phase' \in {"maintain", "route", "wait routed", "update", "wait updated"}
      /\ todo' = Nodes \/ todo' = todo
      /\ latch' = Cardinality(Nodes) \/ latch' = latch
      /\ rounds' = rounds \/ (rounds > 0 /\ rounds' = rounds - 1)
  BY <1>1 DEF WaitRouted, WaitUpdated
<1>5. MainType'
  <2>1. todo' \subseteq NodeIds'
    BY <1>1, <1>2, <1>4 DEF MainType, NodeType, NodeIds, Links
  <2>2. rounds' \in Nat
    <3>1. rounds \in Nat
      BY <1>1 DEF MainType
    <3>2. CASE rounds' = rounds
      BY <3>1, <3>2
    <3>3. CASE rounds > 0 /\ rounds' = rounds - 1
      BY <3>1, <3>3
    <3>4. QED
      BY <1>4, <3>2, <3>3
  <2>3. latch' \in Int
    BY <1>1, <1>3, <1>4 DEF MainType
  <2>4. worked' \in BOOLEAN /\ queue' \in Seq(Jobs)
    BY <1>1, <1>2 DEF MainType
  <2>5. QED
    BY <1>4, <2>1, <2>2, <2>3, <2>4 DEF MainType, Jobs
<1>6. NodeType' /\ InfoType'
  <2>1. UNCHANGED <<script, node, useWorkers, gone>> /\ UNCHANGED <<idx, subs, known, stale>>
    BY <1>2 DEF tables
  <2>2. QED
    BY <1>1, <2>1, NodeTypeKept, InfoTypeKept
<1>7. LinkType' /\ script' \in Scripts /\ flows' \in Nat
  BY <1>1, <1>2, LinkTypeKept
<1>8. job' \in [Threads -> Jobs]
  BY <1>2, JobType, WorkersAssumption DEF Threads
<1>9. QED
  BY <1>5, <1>6, <1>7, <1>8, TypePartsNext

(* Which node is next, and what becomes of it.                             *)
LEMMA EnqueueFacts ==
  ASSUME TurnsIInv, EnqueueUnit
  PROVE  /\ Least(todo) \in todo
         /\ Least(todo) \in NodeIds
         /\ Begun(phase, Least(todo)) \in Jobs
         /\ todo' = todo \ {Least(todo)}
         /\ useWorkers => job' = job /\ queue' = Append(queue, Begun(phase, Least(todo)))
         /\ ~useWorkers => job' = [job EXCEPT ![Main] = Begun(phase, Least(todo))] /\ queue' = queue
<1>1. todo \subseteq NodeIds /\ NodeIds \subseteq Nat /\ todo # {} /\ todo \subseteq Nodes
  BY TypesNow, LinkFacts DEF TurnsIInv, MainType, EnqueueUnit, UnitsAreApart
<1>2. Least(todo) \in todo
  BY <1>1, LeastIsIn
<1>3. Begun(phase, Least(todo)) \in Jobs
  <2>1. phase \in {"route", "update"} /\ Least(todo) \in Nat
    BY <1>1, <1>2 DEF EnqueueUnit
  <2>2. QED
    BY <2>1, BegunIsJob
<1>4. node[Least(todo)].connected
  BY <1>1, <1>2 DEF TurnsIInv, LatchCounts
<1>5. QED
  BY <1>1, <1>2, <1>3, <1>4 DEF EnqueueUnit

LEMMA EnqueueType ==
  ASSUME TurnsIInv, EnqueueUnit
  PROVE  TurnsTypeOK'
<1>1. /\ script \in Scripts /\ MainType /\ NodeType /\ InfoType /\ LinkType /\ flows \in Nat
  BY TypesNow
<1>2. UNCHANGED <<script, phase, rounds, worked, latch, tables, link, flows>>
  BY DEF EnqueueUnit
<1>3. job' \in [Threads -> Jobs]
  <2>1. job \in [Threads -> Jobs] /\ Main \in Threads
    BY <1>1, TypesNow DEF Threads
  <2>2. QED
    BY <2>1, EnqueueFacts
<1>4. queue' \in Seq(Jobs)
  <2>1. queue \in Seq(Jobs)
    BY <1>1 DEF MainType
  <2>2. QED
    BY <2>1, EnqueueFacts, AppendProperties
<1>5. MainType'
  BY <1>1, <1>2, <1>4, EnqueueFacts DEF MainType, NodeIds, Links, Jobs
<1>6. NodeType' /\ InfoType'
  <2>1. UNCHANGED <<script, node, useWorkers, gone>> /\ UNCHANGED <<idx, subs, known, stale>>
    BY <1>2 DEF tables
  <2>2. QED
    BY <1>1, <2>1, NodeTypeKept, InfoTypeKept
<1>7. LinkType' /\ script' \in Scripts /\ flows' \in Nat
  BY <1>1, <1>2, LinkTypeKept
<1>8. QED
  BY <1>3, <1>5, <1>6, <1>7, TypePartsNext

(* Maintenance.                                                            *)
LEMMA MaintainFacts ==
  ASSUME TurnsIInv, Maintain
  PROVE  /\ NodeType'
         /\ \A n \in Nodes' : node'[n].connected
         /\ todo' = Nodes'
         /\ latch' = Cardinality(Nodes')
         /\ Cardinality(Nodes') \in Nat
         /\ IsFiniteSet(Nodes')
<1>1. /\ script \in Scripts /\ NodeType
  BY TypesNow
<1>2. PICK changed \in BOOLEAN, new \in SUBSET (NodeIds \ (Nodes \cup gone)) :
        /\ UpdateUseWorkers(new)
        /\ node' = RemoveDisconnected(Adopted(new))
        /\ gone' = gone \cup (Nodes \ DOMAIN node')
  BY DEF Maintain
<1> DEFINE R == [connected : BOOLEAN, mayRoute : BOOLEAN, bye : BOOLEAN]
           A == Adopted(new)
<1>3. A \in [Nodes \cup new -> R]
  BY <1>1 DEF Adopted, NewNode, NodeType
<1>4. ASSUME NEW n \in Nodes \cup new
      PROVE  CleanedUp(A[n]) \in R
  <2>1. A[n] \in R
    BY <1>3
  <2> HIDE DEF A
  <2>2. QED
    BY <2>1 DEF CleanedUp
<1> DEFINE clean == [n \in DOMAIN A |-> CleanedUp(A[n])]
           D == {m \in DOMAIN A : ~ShouldDisconnect(clean[m])}
<1>5. node' = [n \in D |-> clean[n]]
  BY <1>2 DEF RemoveDisconnected
<1>6. DOMAIN A = Nodes \cup new
  BY <1>3
<1>7. clean \in [Nodes \cup new -> R] /\ D \subseteq Nodes \cup new
  <2> HIDE DEF A
  <2>1. QED
    BY <1>4, <1>6
<1>8. ASSUME NEW n \in D PROVE clean[n] \in R /\ clean[n].connected
  <2> HIDE DEF clean
  <2>1. QED
    BY <1>7 DEF ShouldDisconnect
<1>9. node' \in [D -> R] /\ \A n \in D : node'[n].connected
  <2> HIDE DEF clean, D
  <2>1. QED
    BY <1>5, <1>8
<1>10. Nodes' = D
  <2> HIDE DEF D
  <2>1. QED
    BY <1>9 DEF Nodes
<1>11. D \subseteq NodeIds /\ Nodes \subseteq NodeIds /\ gone \subseteq NodeIds
  <2> HIDE DEF D
  <2>1. QED
    BY <1>1, <1>2, <1>7 DEF NodeType
<1>12. NodeIds' = NodeIds
  BY DEF Maintain, NodeIds, Links
<1>13. useWorkers' \in BOOLEAN
  <2>1. CASE new \subseteq Nodes
    <3>1. useWorkers' = useWorkers
      BY <1>2, <2>1 DEF UpdateUseWorkers
    <3>2. useWorkers \in BOOLEAN
      BY <1>1 DEF NodeType
    <3>3. QED
      BY <3>1, <3>2
  <2>2. CASE ~(new \subseteq Nodes)
    <3>1. useWorkers' = (Cardinality(Nodes \cup new) > 2)
      BY <1>2, <2>2 DEF UpdateUseWorkers
    <3>2. (Cardinality(Nodes \cup new) > 2) \in BOOLEAN
      OBVIOUS
    <3>3. QED
      BY <3>1, <3>2
  <2>3. QED
    BY <2>1, <2>2
<1>14. NodeType'
  <2> HIDE DEF D, R
  <2>1. Nodes' \subseteq NodeIds'
    BY <1>10, <1>11, <1>12
  <2>2. gone' \subseteq NodeIds'
    BY <1>2, <1>11, <1>12
  <2>3. node' \in [Nodes' -> R]
    BY <1>9, <1>10
  <2>4. QED
    BY <2>1, <2>2, <2>3, <1>13 DEF NodeType, R
<1>15. todo' = Nodes' /\ latch' = Cardinality(Nodes')
  BY DEF Maintain, Nodes
<1>16. IsFiniteSet(D) /\ Cardinality(D) \in Nat
  <2> HIDE DEF D
  <2>1. D \in SUBSET Links
    BY <1>11, LinkFacts DEF TurnsIInv
  <2>2. QED
    BY <2>1, NodesAreFinite DEF TurnsIInv
<1>17. \A n \in Nodes' : node'[n].connected
  <2> HIDE DEF D
  <2>1. QED
    BY <1>9, <1>10
<1>18. IsFiniteSet(Nodes') /\ Cardinality(Nodes') \in Nat
  <2> HIDE DEF D
  <2>1. QED
    BY <1>10, <1>16
<1>19. QED
  BY <1>14, <1>15, <1>17, <1>18

LEMMA FlowInfoType ==
  ASSUME TurnsIInv, NEW changed \in BOOLEAN
  PROVE  SendFlowInfo(changed) \in [Links -> [wire : Seq(Messages), incoming : Seq(Messages),
                                              out : Seq(Messages), got : Seq(Messages)]]
<1>1. LinkType
  BY TypesNow
<1>2. ASSUME NEW l \in Links
      PROVE  [link[l] EXCEPT !.out = Append(@, FlowInfo(l))]
               \in [wire : Seq(Messages), incoming : Seq(Messages), out : Seq(Messages), got : Seq(Messages)]
  <2>1. FlowInfo(l) \in Messages
    BY OwnMessages, LinkFacts DEF TurnsIInv
  <2>2. Append(link[l].out, FlowInfo(l)) \in Seq(Messages)
    BY <2>1, LengthFacts, AppendProperties DEF TurnsIInv
  <2>3. link[l] \in [wire : Seq(Messages), incoming : Seq(Messages), out : Seq(Messages), got : Seq(Messages)]
    BY <1>1 DEF LinkType
  <2>4. QED
    BY <2>2, <2>3
<1>3. QED
  BY <1>1, <1>2 DEF SendFlowInfo, LinkType

LEMMA MaintainType ==
  ASSUME TurnsIInv, Maintain
  PROVE  TurnsTypeOK'
<1>1. /\ script \in Scripts /\ MainType /\ job \in [Threads -> Jobs] /\ InfoType /\ flows \in Nat
  BY TypesNow
<1>2. UNCHANGED <<script, queue, job, idx, subs, known, stale>>
  BY DEF Maintain
<1>3. PICK changed \in BOOLEAN, new \in SUBSET (NodeIds \ (Nodes \cup gone)) :
        /\ flows' = flows + (IF changed THEN 1 ELSE 0)
        /\ link' = SendFlowInfo(changed)
        /\ worked' = (changed \/ new # {} \/ gone' # gone)
  BY DEF Maintain
<1>4. NodeType' /\ todo' = Nodes' /\ latch' \in Int
  <2>1. Cardinality(Nodes') \in Nat /\ latch' = Cardinality(Nodes')
    BY MaintainFacts
  <2>2. latch' \in Int
    BY <2>1
  <2>3. QED
    BY <2>2, MaintainFacts
<1>5. MainType'
  <2>1. phase' = "route" /\ rounds' = Count /\ Count \in Nat
    BY WorkersAssumption DEF Maintain
  <2>2. worked' \in BOOLEAN
    BY <1>3
  <2>3. todo' \subseteq NodeIds'
    BY <1>4 DEF NodeType
  <2>4. queue' \in Seq(Jobs)
    BY <1>1, <1>2 DEF MainType
  <2>5. QED
    BY <1>4, <2>1, <2>2, <2>3, <2>4 DEF MainType, Jobs
<1>6. InfoType'
  BY <1>1, <1>2, InfoTypeKept
<1>7. LinkType'
  <2>1. Links' = Links
    BY <1>2 DEF Links
  <2>2. QED
    BY <2>1, <1>3, FlowInfoType DEF LinkType
<1>8. flows' \in Nat
  BY <1>1, <1>3
<1>9. QED
  BY <1>1, <1>2, <1>4, <1>5, <1>6, <1>7, <1>8, TypePartsNext DEF Threads

----------------------------------------------------------------------------
(* Units are apart and the latch counts them: within a unit.               *)

(* A job whose info has moved is as sound as before.                       *)
LEMMA AlikeIsSound ==
  ASSUME NEW j \in Jobs, NEW k, Alike(j, k), JobIsSound(j)
  PROVE  JobIsSound(k)
<1>1. /\ k.batch = j.batch /\ k.answers = j.answers /\ k.asker = j.asker /\ k.at = j.at
      /\ j.at # "add" => k = j
  BY AlikeFacts
<1>2. QED
  BY <1>1 DEF JobIsSound

(* What a unit does does not disturb the units.                            *)
LEMMA InUnit ==
  ASSUME TurnsIInv, NEW t \in Threads, Busy(t), NEW at \in {"next", "add", "send"}, NEW b, NEW n,
         Becomes(t, at, b, n),
         at = "add" => b # <<>> /\ n = 0 /\ Head(b).kind = "subscribTo",
         at = "send" => b # <<>> \/ n > 0,
         UNCHANGED <<phase, todo, latch, queue, useWorkers>>,
         Nodes' = Nodes, \A m \in Nodes : node'[m].connected
  PROVE  /\ UnitsAreApart'
         /\ LatchCounts'
         /\ JobsAreSound'
         /\ \A u \in Threads : Busy(u)' = Busy(u) /\ job'[u].of = job[u].of
<1>1. job \in [Threads -> Jobs]
  BY JobType
<1>2. ASSUME NEW u \in Threads PROVE Busy(u)' = Busy(u) /\ job'[u].of = job[u].of
  <2>1. CASE u = t
    BY <2>1 DEF Busy, Becomes
  <2>2. CASE u # t
    <3>1. Alike(job[u], job'[u]) /\ job[u] \in Jobs
      BY <1>1, <2>2 DEF Becomes
    <3>2. job'[u].of = job[u].of /\ job'[u].at = job[u].at
      BY <3>1, AlikeFacts
    <3>3. QED
      BY <3>2 DEF Busy
  <2>3. QED
    BY <2>1, <2>2
<1>3. JobsAreSound'
  <2>1. JobIsSound(job'[t])
    BY DEF Becomes, JobIsSound
  <2>2. ASSUME NEW u \in Threads, u # t PROVE JobIsSound(job'[u])
    <3>1. Alike(job[u], job'[u]) /\ job[u] \in Jobs /\ JobIsSound(job[u])
      BY <1>1, <2>2 DEF Becomes, TurnsIInv, JobsAreSound
    <3>2. QED
      BY <3>1, AlikeIsSound
  <2>3. \A i \in DOMAIN queue' : queue'[i].at = "take" /\ JobIsSound(queue'[i])
    BY DEF TurnsIInv, JobsAreSound
  <2>4. QED
    BY <2>1, <2>2, <2>3 DEF JobsAreSound, Threads
<1>4. UnitsAreApart'
  BY <1>2 DEF TurnsIInv, UnitsAreApart, Threads
<1>5. LatchCounts'
  <2>1. Units' = Units
    <3>1. BusyUnits' = BusyUnits
      BY <1>2 DEF BusyUnits, Threads
    <3>2. QueuedUnits' = QueuedUnits
      BY DEF QueuedUnits
    <3>3. QED
      BY <3>1, <3>2 DEF Units
  <2>2. phase # "maintain"
    BY DEF TurnsIInv, LatchCounts, Quiet, Busy, Idle
  <2>3. ~useWorkers' => queue' = <<>> /\ \A w \in Workers : ~Busy(w)'
    BY <1>2 DEF TurnsIInv, LatchCounts, Threads
  <2>4. useWorkers' => latch' = Cardinality(Units')
    BY <2>1 DEF TurnsIInv, LatchCounts
  <2>5. \A m \in Nodes' : node'[m].connected
    OBVIOUS
  <2>6. phase' \notin {"route", "update"} => todo' = {}
    BY DEF TurnsIInv, LatchCounts
  <2>7. QED
    BY <2>2, <2>3, <2>4, <2>5, <2>6 DEF LatchCounts
<1>6. QED
  BY <1>2, <1>3, <1>4, <1>5

LEMMA NodesKept ==
  ASSUME TurnsIInv, node' = node
  PROVE  Nodes' = Nodes /\ \A m \in Nodes : node'[m].connected
  BY DEF TurnsIInv, LatchCounts, Nodes

(* The units are finitely many.                                            *)
LEMMA UnitsAreFinite ==
  ASSUME TurnsIInv
  PROVE  /\ Units \subseteq Links
         /\ IsFiniteSet(Units)
         /\ Cardinality(Units) \in Nat
         /\ Cardinality(Units) = 0 => Units = {}
<1>1. Nodes \subseteq Links /\ todo \subseteq Links /\ Own \in Links
  BY LinkFacts, TypesNow DEF TurnsIInv, NodeType, MainType
<1>2. QueuedUnits \subseteq Links
  BY <1>1 DEF QueuedUnits, TurnsIInv, UnitsAreApart
<1>3. BusyUnits \subseteq Links
  BY <1>1 DEF BusyUnits, TurnsIInv, UnitsAreApart, Threads
<1>4. Units \subseteq Links
  BY <1>1, <1>2, <1>3 DEF Units
<1>5. IsFiniteSet(Units) /\ Cardinality(Units) \in Nat
  BY <1>4, NodesAreFinite DEF TurnsIInv
<1>6. QED
  BY <1>4, <1>5, FS_EmptySet

(* When the main thread goes on after the latch, nobody works any more.    *)
LEMMA ArrivedIsQuiet ==
  ASSUME TurnsIInv, todo = {}, job[Main] = Idle, Arrived
  PROVE  /\ Quiet
         /\ \A t \in Threads : ~Busy(t)
<1>1. queue = <<>> /\ \A w \in Workers : ~Busy(w)
  <2>1. CASE useWorkers
    <3>1. Units = {}
      BY <2>1, UnitsAreFinite DEF Arrived, TurnsIInv, LatchCounts
    <3>2. \A w \in Workers : ~Busy(w)
      BY <3>1 DEF Units, BusyUnits
    <3>3. queue = <<>>
      <4>1. queue \in Seq(Jobs)
        BY TypesNow DEF MainType
      <4>2. DOMAIN queue = {}
        BY <3>1 DEF Units, QueuedUnits
      <4>3. queue # <<>> => 1 \in DOMAIN queue
        BY <4>1, EmptySeq, LenProperties
      <4>4. QED
        BY <4>2, <4>3
    <3>4. QED
      BY <3>2, <3>3
  <2>2. CASE ~useWorkers
    BY <2>2 DEF TurnsIInv, LatchCounts
  <2>3. QED
    BY <2>1, <2>2
<1>2. ~Busy(Main)
  BY DEF Busy, Idle
<1>3. \A t \in Threads : ~Busy(t)
  BY <1>1, <1>2 DEF Threads
<1>4. \A t \in Threads : job[t] = Idle
  BY <1>3 DEF Busy, TurnsIInv, JobsAreSound, JobIsSound
<1>5. QED
  BY <1>1, <1>3, <1>4 DEF Quiet

----------------------------------------------------------------------------
(* Units are apart and the latch counts them: the main thread.             *)

(* The main thread comes to the nodes anew, when nobody works.             *)
LEMMA NewRound ==
  ASSUME TurnsIInv, Quiet, UNCHANGED <<queue, job>>,
         todo' = Nodes', latch' = Cardinality(Nodes'), phase' \in {"route", "update"},
         \A m \in Nodes' : node'[m].connected
  PROVE  UnitsAreApart' /\ LatchCounts' /\ JobsAreSound'
<1>1. queue' = <<>> /\ DOMAIN queue' = {}
  BY EmptySeq DEF Quiet
<1>2. \A t \in Threads : job'[t] = Idle /\ ~Busy(t)'
  BY DEF Quiet, Busy, Idle
<1>3. JobsAreSound'
  <2>1. JobIsSound(Idle)
    BY DEF JobIsSound, Idle
  <2>2. QED
    BY <1>1, <1>2, <2>1 DEF JobsAreSound, Threads
<1>4. UnitsAreApart'
  BY <1>1, <1>2 DEF UnitsAreApart, Threads
<1>5. LatchCounts'
  <2>1. Units' = Nodes'
    BY <1>1, <1>2 DEF Units, QueuedUnits, BusyUnits, Threads
  <2>2. phase' # "maintain"
    OBVIOUS
  <2>3. queue' = <<>> /\ \A w \in Workers : ~Busy(w)'
    BY <1>1, <1>2 DEF Threads
  <2>4. latch' = Cardinality(Units')
    BY <2>1
  <2>5. QED
    BY <2>2, <2>3, <2>4 DEF LatchCounts
<1>6. QED
  BY <1>3, <1>4, <1>5

LEMMA MaintainUnits ==
  ASSUME TurnsIInv, Maintain
  PROVE  UnitsAreApart' /\ LatchCounts' /\ JobsAreSound'
<1>1. Quiet
  BY DEF TurnsIInv, LatchCounts, Maintain
<1>2. UNCHANGED <<queue, job>> /\ phase' \in {"route", "update"}
  BY DEF Maintain
<1>3. QED
  BY <1>1, <1>2, MaintainFacts, NewRound

LEMMA WaitRoutedUnits ==
  ASSUME TurnsIInv, WaitRouted
  PROVE  UnitsAreApart' /\ LatchCounts' /\ JobsAreSound'
<1>1. todo = {} /\ job[Main] = Idle /\ Arrived
  BY DEF TurnsIInv, LatchCounts, WaitRouted
<1>2. Quiet
  BY <1>1, ArrivedIsQuiet
<1>3. node' = node
  BY DEF WaitRouted, tables
<1>4. Nodes' = Nodes /\ \A m \in Nodes : node'[m].connected
  BY <1>3, NodesKept
<1>5. UNCHANGED <<queue, job>> /\ phase' \in {"route", "update"} /\ todo' = Nodes
      /\ latch' = Cardinality(Nodes)
  BY DEF WaitRouted
<1>6. QED
  BY <1>2, <1>4, <1>5, NewRound

LEMMA WaitUpdatedUnits ==
  ASSUME TurnsIInv, WaitUpdated
  PROVE  UnitsAreApart' /\ LatchCounts' /\ JobsAreSound'
<1>1. todo = {} /\ job[Main] = Idle /\ Arrived
  BY DEF TurnsIInv, LatchCounts, WaitUpdated
<1>2. Quiet /\ \A t \in Threads : ~Busy(t)
  BY <1>1, ArrivedIsQuiet
<1>3. node' = node /\ UNCHANGED <<queue, job, useWorkers>>
  BY DEF WaitUpdated, tables
<1>4. Nodes' = Nodes /\ \A m \in Nodes : node'[m].connected
  BY <1>3, NodesKept
<1>5. CASE rounds > 0 /\ worked
  <2>1. phase' \in {"route", "update"} /\ todo' = Nodes /\ latch' = Cardinality(Nodes)
    BY <1>5 DEF WaitUpdated
  <2>2. QED
    BY <2>1, <1>2, <1>3, <1>4, NewRound
<1>6. CASE ~(rounds > 0 /\ worked)
  <2>1. phase' = "maintain" /\ UNCHANGED <<todo, latch>>
    BY <1>6 DEF WaitUpdated
  <2>2. UnitsAreApart'
    BY <2>1, <1>3, <1>4 DEF TurnsIInv, UnitsAreApart, Busy, Threads
  <2>3. JobsAreSound'
    BY <1>3 DEF TurnsIInv, JobsAreSound, Threads
  <2>4. Quiet'
    BY <1>2, <1>3 DEF Quiet, Threads
  <2>5. Units' = Units
    BY <2>1, <1>3 DEF Units, QueuedUnits, BusyUnits, Busy
  <2>6. useWorkers' => latch' = Cardinality(Units')
    BY <2>1, <2>5, <1>3 DEF TurnsIInv, LatchCounts
  <2>7. queue' = <<>> /\ \A w \in Workers : ~Busy(w)'
    BY <1>2, <1>3 DEF Quiet, Threads, Busy
  <2>8. LatchCounts'
    BY <2>1, <2>4, <2>6, <2>7, <1>1, <1>4 DEF LatchCounts
  <2>9. QED
    BY <2>2, <2>3, <2>8
<1>7. QED
  BY <1>5, <1>6

(* A unit is begun: it was with nobody.                                    *)
LEMMA ParentUnits ==
  ASSUME TurnsIInv, ServeParent
  PROVE  UnitsAreApart' /\ LatchCounts' /\ JobsAreSound'
<1>1. /\ UNCHANGED <<todo, latch, queue, useWorkers>> /\ node' = node
      /\ todo = {} /\ job[Main] = Idle
      /\ phase' \in {"wait routed", "wait updated"}
      /\ job' = [job EXCEPT ![Main] = Begun(phase, Own)]
  BY DEF ServeParent, tables
<1>2. Nodes' = Nodes /\ \A m \in Nodes : node'[m].connected
  BY <1>1, NodesKept
<1>3. /\ Begun(phase, Own) \in Jobs
      /\ Begun(phase, Own).of = Own
      /\ Begun(phase, Own).at = "take"
      /\ JobIsSound(Begun(phase, Own))
  <2>1. phase \in {"route", "update"} /\ Own \in Nat
    BY LinkFacts DEF ServeParent, TurnsIInv
  <2>2. QED
    BY <2>1, BegunIsJob DEF JobIsSound
<1> DEFINE k == Begun(phase, Own)
<1> HIDE DEF k
<1>4. /\ job'[Main] = k /\ \A u \in Threads : u # Main => job'[u] = job[u]
      /\ k.of = Own /\ k.at = "take" /\ JobIsSound(k)
  BY <1>1, <1>3, JobType DEF k, Threads
<1>5. Main \notin Workers /\ ~Busy(Main) /\ Busy(Main)'
  <2>1. Idle.at = "idle"
    BY DEF Idle
  <2>2. job[Main] = Idle
    BY <1>1
  <2>3. job[Main].at = "idle"
    BY <2>1, <2>2
  <2>4. job'[Main].at = "take"
    BY <1>4
  <2>5. QED
    BY <2>3, <2>4, WorkersAssumption DEF Busy
<1>6. \A w \in Workers : w \in Threads /\ w # Main /\ job'[w] = job[w] /\ Busy(w)' = Busy(w)
  BY <1>4, <1>5 DEF Threads, Busy
<1>7. Own \notin Nodes
  BY TypesNow DEF NodeType, NodeIds
<1>8. UnitsAreApart'
  <2>1. \A t \in Threads : Busy(t)' => job'[t].of \in Nodes \cup {Own}
    BY <1>4, <1>5, <1>6 DEF TurnsIInv, UnitsAreApart, Threads
  <2>2. \A t, u \in Threads : t # u /\ Busy(t)' /\ Busy(u)' => job'[t].of # job'[u].of
    BY <1>4, <1>5, <1>6 DEF TurnsIInv, UnitsAreApart, Threads
  <2>3. \A t \in Threads, i \in DOMAIN queue : Busy(t)' => job'[t].of # queue[i].of
    BY <1>4, <1>5, <1>6, <1>7 DEF TurnsIInv, UnitsAreApart, Threads
  <2>4. \A w \in Workers : Busy(w)' => job'[w].of # Own
    BY <1>6 DEF TurnsIInv, UnitsAreApart
  <2>5. \A i \in DOMAIN queue : queue[i].of \in Nodes
    BY DEF TurnsIInv, UnitsAreApart
  <2>6. \A i, j \in DOMAIN queue : i # j => queue[i].of # queue[j].of
    BY DEF TurnsIInv, UnitsAreApart
  <2>7. todo' = {} /\ queue' = queue
    BY <1>1
  <2>8. QED
    BY <2>7, <1>2, <2>1, <2>2, <2>3, <2>4, <2>5, <2>6 DEF UnitsAreApart, Threads
<1>9. JobsAreSound'
  BY <1>1, <1>4 DEF TurnsIInv, JobsAreSound, Threads
<1>10. LatchCounts'
  <2>1. BusyUnits' = BusyUnits
    BY <1>6 DEF BusyUnits
  <2>2. Units' = Units
    BY <1>1, <2>1 DEF Units, QueuedUnits
  <2>3. QED
    BY <1>1, <1>2, <1>6, <2>2 DEF TurnsIInv, LatchCounts
<1>11. QED
  BY <1>8, <1>9, <1>10

LEMMA QueueFacts ==
  ASSUME TurnsIInv
  PROVE  /\ queue \in Seq(Jobs)
         /\ Len(queue) \in Nat
         /\ DOMAIN queue = 1 .. Len(queue)
<1>1. queue \in Seq(Jobs)
  BY TypesNow DEF MainType
<1>2. QED
  BY <1>1, LenProperties

(* A unit is enqueued for the workers.                                     *)
LEMMA EnqueueQueued ==
  ASSUME TurnsIInv, EnqueueUnit, useWorkers
  PROVE  UnitsAreApart' /\ LatchCounts' /\ JobsAreSound'
<1> DEFINE n == Least(todo)
           k == Begun(phase, n)
<1>1. /\ n \in todo /\ k \in Jobs
      /\ todo' = todo \ {n}
      /\ job' = job /\ queue' = Append(queue, k)
  BY EnqueueFacts
<1>2. k.of = n /\ k.at = "take" /\ JobIsSound(k)
  <2>1. phase \in {"route", "update"} /\ n \in Nat
    BY EnqueueFacts, LinkFacts DEF EnqueueUnit, TurnsIInv
  <2>2. QED
    BY <2>1, BegunIsJob DEF JobIsSound
<1>3. UNCHANGED <<phase, latch, useWorkers>> /\ node' = node /\ phase \in {"route", "update"}
  BY DEF EnqueueUnit, tables
<1>4. Nodes' = Nodes /\ \A m \in Nodes : node'[m].connected
  BY <1>3, NodesKept
<1> HIDE DEF k, n
<1>5. /\ DOMAIN queue = 1 .. Len(queue) /\ Len(queue) \in Nat
      /\ DOMAIN queue' = 1 .. (Len(queue) + 1)
      /\ \A i \in DOMAIN queue : i \in DOMAIN queue' /\ queue'[i] = queue[i]
      /\ queue'[Len(queue) + 1] = k
  <2>1. queue \in Seq(Jobs)
    BY QueueFacts
  <2>2. /\ Append(queue, k) \in Seq(Jobs)
        /\ Len(Append(queue, k)) = Len(queue) + 1
        /\ \A i \in 1 .. Len(queue) : Append(queue, k)[i] = queue[i]
        /\ Append(queue, k)[Len(queue) + 1] = k
    BY <2>1, <1>1, AppendProperties
  <2>3. QED
    BY <2>1, <2>2, <1>1, LenProperties, QueueFacts
<1>6. \A i \in DOMAIN queue' : i \in DOMAIN queue \/ i = Len(queue) + 1
  BY <1>5
<1>7. n \in Nodes
  BY <1>1 DEF TurnsIInv, UnitsAreApart
<1>8. \A i \in DOMAIN queue : queue[i].of # n /\ queue[i].of \in Nodes /\ queue[i].of \notin todo
  BY <1>1 DEF TurnsIInv, UnitsAreApart
<1>9. \A t \in Threads : Busy(t) => job[t].of # n
  BY <1>1 DEF TurnsIInv, UnitsAreApart
<1>10. \A t \in Threads : job'[t] = job[t] /\ Busy(t)' = Busy(t)
  BY <1>1 DEF Busy
<1>11. UnitsAreApart'
  <2>1. todo' \subseteq Nodes'
    BY <1>1, <1>4 DEF TurnsIInv, UnitsAreApart
  <2>2. \A i \in DOMAIN queue' : queue'[i].of \in Nodes' \ todo'
    BY <1>1, <1>2, <1>4, <1>5, <1>6, <1>7, <1>8
  <2>3. \A i, j \in DOMAIN queue' : i # j => queue'[i].of # queue'[j].of
    <3>1. \A i, j \in DOMAIN queue : i # j => queue[i].of # queue[j].of
      BY DEF TurnsIInv, UnitsAreApart
    <3>2. QED
      BY <3>1, <1>2, <1>5, <1>6, <1>8
  <2>4. \A t \in Threads : Busy(t)' => job'[t].of \in (Nodes' \cup {Own}) \ todo'
    BY <1>1, <1>4, <1>10 DEF TurnsIInv, UnitsAreApart
  <2>5. \A w \in Workers : Busy(w)' => job'[w].of # Own
    BY <1>10 DEF TurnsIInv, UnitsAreApart, Threads
  <2>6. \A t \in Threads, i \in DOMAIN queue' : Busy(t)' => job'[t].of # queue'[i].of
    <3>1. \A t \in Threads, i \in DOMAIN queue : Busy(t) => job[t].of # queue[i].of
      BY DEF TurnsIInv, UnitsAreApart
    <3>2. QED
      BY <3>1, <1>2, <1>5, <1>6, <1>9, <1>10
  <2>7. \A t, u \in Threads : t # u /\ Busy(t)' /\ Busy(u)' => job'[t].of # job'[u].of
    BY <1>10 DEF TurnsIInv, UnitsAreApart
  <2>8. QED
    BY <2>1, <2>2, <2>3, <2>4, <2>5, <2>6, <2>7 DEF UnitsAreApart, Threads
<1>12. JobsAreSound'
  <2>1. \A t \in Threads : JobIsSound(job'[t])
    BY <1>10 DEF TurnsIInv, JobsAreSound
  <2>2. \A i \in DOMAIN queue' : queue'[i].at = "take" /\ JobIsSound(queue'[i])
    BY <1>2, <1>5, <1>6 DEF TurnsIInv, JobsAreSound
  <2>3. QED
    BY <2>1, <2>2 DEF JobsAreSound, Threads
<1>13. Units' = Units
  <2>1. QueuedUnits' = QueuedUnits \cup {n}
    <3>1. QueuedUnits' = {queue'[i].of : i \in DOMAIN queue'}
      BY DEF QueuedUnits
    <3>2. Len(queue) + 1 \in DOMAIN queue'
      BY <1>5
    <3>3. QED
      BY <3>1, <3>2, <1>2, <1>5, <1>6 DEF QueuedUnits
  <2>2. BusyUnits' = BusyUnits
    BY <1>10 DEF BusyUnits, Threads
  <2>3. QED
    BY <2>1, <2>2, <1>1 DEF Units
<1>14. LatchCounts'
  <2>1. latch' = Cardinality(Units')
    BY <1>3, <1>13 DEF TurnsIInv, LatchCounts
  <2>2. QED
    BY <2>1, <1>3, <1>4 DEF LatchCounts
<1>15. QED
  BY <1>11, <1>12, <1>14

(* The main thread serves the node itself: the workers have nothing to do. *)
LEMMA EnqueueServed ==
  ASSUME TurnsIInv, EnqueueUnit, ~useWorkers
  PROVE  UnitsAreApart' /\ LatchCounts' /\ JobsAreSound'
<1> DEFINE n == Least(todo)
           k == Begun(phase, n)
<1>1. /\ n \in todo /\ n \in NodeIds
      /\ todo' = todo \ {n}
      /\ job' = [job EXCEPT ![Main] = k] /\ queue' = queue
  BY EnqueueFacts
<1>2. k.of = n /\ k.at = "take" /\ JobIsSound(k)
  <2>1. phase \in {"route", "update"} /\ n \in Nat
    BY EnqueueFacts, LinkFacts DEF EnqueueUnit, TurnsIInv
  <2>2. QED
    BY <2>1, BegunIsJob DEF JobIsSound
<1>3. UNCHANGED <<phase, latch, useWorkers>> /\ node' = node /\ phase \in {"route", "update"}
  BY DEF EnqueueUnit, tables
<1>4. Nodes' = Nodes /\ \A m \in Nodes : node'[m].connected
  BY <1>3, NodesKept
<1> HIDE DEF k, n
<1>5. job'[Main] = k /\ \A u \in Threads : u # Main => job'[u] = job[u]
  BY <1>1, JobType DEF Threads
<1>6. queue' = <<>> /\ DOMAIN queue' = {}
  <2>1. queue = <<>>
    BY DEF TurnsIInv, LatchCounts
  <2>2. QED
    BY <2>1, <1>1
<1>7. \A w \in Workers : w \in Threads /\ w # Main /\ ~Busy(w) /\ ~Busy(w)'
  <2>1. \A w \in Workers : w \in Threads /\ w # Main /\ ~Busy(w)
    BY WorkersAssumption DEF TurnsIInv, LatchCounts, Threads
  <2>2. QED
    BY <2>1, <1>5 DEF Busy
<1>8. UnitsAreApart'
  <2>1. \A t \in Threads : Busy(t)' => t = Main
    BY <1>7 DEF Threads
  <2>2. job'[Main].of \in Nodes' \ todo'
    BY <1>1, <1>2, <1>4, <1>5 DEF TurnsIInv, UnitsAreApart
  <2>3. todo' \subseteq Nodes'
    BY <1>1, <1>4 DEF TurnsIInv, UnitsAreApart
  <2>4. QED
    BY <1>6, <1>7, <2>1, <2>2, <2>3 DEF UnitsAreApart, Threads
<1>9. JobsAreSound'
  BY <1>2, <1>5, <1>6 DEF TurnsIInv, JobsAreSound, Threads
<1>10. LatchCounts'
  BY <1>3, <1>4, <1>6, <1>7 DEF LatchCounts
<1>11. QED
  BY <1>8, <1>9, <1>10

LEMMA EnqueueUnits ==
  ASSUME TurnsIInv, EnqueueUnit
  PROVE  UnitsAreApart' /\ LatchCounts' /\ JobsAreSound'
  BY EnqueueQueued, EnqueueServed

(* A worker takes the unit that waits longest.                             *)
LEMMA TakeUnits ==
  ASSUME TurnsIInv, NEW w \in Workers, TakeUnit(w)
  PROVE  UnitsAreApart' /\ LatchCounts' /\ JobsAreSound'
<1> DEFINE k == Head(queue)
<1>1. /\ job[w] = Idle /\ queue # <<>>
      /\ job' = [job EXCEPT ![w] = k]
      /\ queue' = Tail(queue)
      /\ UNCHANGED <<phase, todo, latch, useWorkers>> /\ node' = node
  BY DEF TakeUnit, turn, tables
<1>2. Nodes' = Nodes /\ \A m \in Nodes : node'[m].connected
  BY <1>1, NodesKept
<1>3. w \in Threads /\ w # Main
  BY WorkersAssumption DEF Threads
<1>4. /\ 1 \in DOMAIN queue /\ k = queue[1]
      /\ \A i \in DOMAIN queue' : i + 1 \in DOMAIN queue /\ i + 1 # 1 /\ queue'[i] = queue[i + 1]
      /\ \A i \in DOMAIN queue : i = 1 \/ (i - 1 \in DOMAIN queue' /\ queue'[i - 1] = queue[i])
  <2>1. queue \in Seq(Jobs) /\ Len(queue) \in Nat /\ DOMAIN queue = 1 .. Len(queue)
    BY QueueFacts
  <2>2. Len(queue) \in Nat \ {0}
    BY <2>1, <1>1, EmptySeq
  <2>3. /\ Tail(queue) \in Seq(Jobs)
        /\ Len(Tail(queue)) = Len(queue) - 1
        /\ \A i \in 1 .. Len(Tail(queue)) : Tail(queue)[i] = queue[i + 1]
    BY <2>1, <1>1, HeadTailProperties
  <2>4. DOMAIN queue' = 1 .. (Len(queue) - 1)
    BY <2>3, <1>1, LenProperties
  <2>5. k = queue[1]
    BY <2>1, <1>1
  <2> HIDE DEF k
  <2>6. \A i \in DOMAIN queue' : i + 1 \in DOMAIN queue /\ i + 1 # 1 /\ queue'[i] = queue[i + 1]
    BY <2>1, <2>2, <2>3, <2>4, <1>1
  <2>7. \A i \in DOMAIN queue : i = 1 \/ (i - 1 \in DOMAIN queue' /\ queue'[i - 1] = queue[i])
    <3>1. ASSUME NEW i \in DOMAIN queue, i # 1 PROVE i - 1 \in DOMAIN queue' /\ queue'[i - 1] = queue[i]
      <4>1. i - 1 \in DOMAIN queue'
        BY <3>1, <2>1, <2>2, <2>4
      <4>2. (i - 1) + 1 = i
        BY <3>1, <2>1
      <4>3. QED
        BY <4>1, <4>2, <2>6
    <3>2. QED
      BY <3>1
  <2>8. 1 \in DOMAIN queue
    BY <2>1, <2>2
  <2>9. QED
    BY <2>5, <2>6, <2>7, <2>8
<1> HIDE DEF k
<1>5. job'[w] = k /\ \A u \in Threads : u # w => job'[u] = job[u]
  BY <1>1, <1>3, JobType
<1>6. k.at = "take" /\ JobIsSound(k) /\ k.of \in Nodes \ todo
  BY <1>4 DEF TurnsIInv, JobsAreSound, UnitsAreApart
<1>7. ~Busy(w) /\ Busy(w)' /\ \A u \in Threads : u # w => Busy(u)' = Busy(u)
  <2>1. Idle.at = "idle"
    BY DEF Idle
  <2>2. job[w].at = "idle"
    BY <1>1, <2>1
  <2>3. QED
    BY <2>2, <1>5, <1>6 DEF Busy
<1>8. Own \notin Nodes
  BY TypesNow DEF NodeType, NodeIds
<1>9. UnitsAreApart'
  <2>1. \A i \in DOMAIN queue' : queue'[i].of \in Nodes \ todo
    BY <1>4 DEF TurnsIInv, UnitsAreApart
  <2>2. \A i, j \in DOMAIN queue' : i # j => queue'[i].of # queue'[j].of
    <3>1. \A i, j \in DOMAIN queue : i # j => queue[i].of # queue[j].of
      BY DEF TurnsIInv, UnitsAreApart
    <3>2. SUFFICES ASSUME NEW i \in DOMAIN queue', NEW j \in DOMAIN queue', i # j
                   PROVE  queue'[i].of # queue'[j].of
      OBVIOUS
    <3>3. i + 1 \in DOMAIN queue /\ j + 1 \in DOMAIN queue /\ queue'[i] = queue[i + 1] /\ queue'[j] = queue[j + 1]
      BY <1>4
    <3>4. i + 1 # j + 1
      <4>1. i \in Int /\ j \in Int
        <5>1. queue' \in Seq(Jobs)
          BY <1>1, QueueFacts, HeadTailProperties
        <5>2. DOMAIN queue' = 1 .. Len(queue')
          BY <5>1, LenProperties
        <5>3. QED
          BY <5>2
      <4>2. QED
        BY <4>1, <3>2
    <3>5. QED
      BY <3>1, <3>3, <3>4
  <2>3. \A t \in Threads : Busy(t)' => job'[t].of \in (Nodes \cup {Own}) \ todo
    BY <1>5, <1>6, <1>7 DEF TurnsIInv, UnitsAreApart
  <2>4. \A v \in Workers : Busy(v)' => job'[v].of # Own
    BY <1>5, <1>6, <1>7, <1>8 DEF TurnsIInv, UnitsAreApart, Threads
  <2>5. \A t \in Threads, i \in DOMAIN queue' : Busy(t)' => job'[t].of # queue'[i].of
    <3>1. \A t \in Threads, i \in DOMAIN queue : Busy(t) => job[t].of # queue[i].of
      BY DEF TurnsIInv, UnitsAreApart
    <3>2. \A i, j \in DOMAIN queue : i # j => queue[i].of # queue[j].of
      BY DEF TurnsIInv, UnitsAreApart
    <3>3. QED
      BY <3>1, <3>2, <1>4, <1>5, <1>7
  <2>6. \A t, u \in Threads : t # u /\ Busy(t)' /\ Busy(u)' => job'[t].of # job'[u].of
    <3>1. \A t, u \in Threads : t # u /\ Busy(t) /\ Busy(u) => job[t].of # job[u].of
      BY DEF TurnsIInv, UnitsAreApart
    <3>2. \A t \in Threads : Busy(t) => job[t].of # k.of
      BY <1>4 DEF TurnsIInv, UnitsAreApart
    <3>3. QED
      BY <3>1, <3>2, <1>5, <1>7
  <2>7. todo' \subseteq Nodes'
    BY <1>1, <1>2 DEF TurnsIInv, UnitsAreApart
  <2>8. QED
    BY <2>1, <2>2, <2>3, <2>4, <2>5, <2>6, <2>7, <1>1, <1>2 DEF UnitsAreApart, Threads
<1>10. JobsAreSound'
  <2>1. \A t \in Threads : JobIsSound(job'[t])
    BY <1>5, <1>6 DEF TurnsIInv, JobsAreSound
  <2>2. \A i \in DOMAIN queue' : queue'[i].at = "take" /\ JobIsSound(queue'[i])
    BY <1>4 DEF TurnsIInv, JobsAreSound
  <2>3. QED
    BY <2>1, <2>2 DEF JobsAreSound, Threads
<1>11. Units' = Units
  <2>1. BusyUnits' = BusyUnits \cup {k.of}
    BY <1>5, <1>7, <1>3 DEF BusyUnits, Threads
  <2>2. QueuedUnits = QueuedUnits' \cup {k.of}
    <3>1. QueuedUnits' = {queue'[i].of : i \in DOMAIN queue'}
      BY DEF QueuedUnits
    <3>2. QED
      BY <3>1, <1>4 DEF QueuedUnits
  <2>3. QED
    BY <2>1, <2>2, <1>1 DEF Units
<1>12. useWorkers
  BY <1>1 DEF TurnsIInv, LatchCounts
<1>13. LatchCounts'
  <2>1. latch' = Cardinality(Units')
    BY <1>1, <1>11, <1>12 DEF TurnsIInv, LatchCounts
  <2>2. phase # "maintain"
    BY <1>1 DEF TurnsIInv, LatchCounts, Quiet
  <2>3. phase' \notin {"route", "update"} => todo' = {}
    BY <1>1 DEF TurnsIInv, LatchCounts
  <2>4. QED
    BY <2>1, <2>2, <2>3, <1>1, <1>2, <1>12 DEF LatchCounts
<1>14. QED
  BY <1>9, <1>10, <1>13

----------------------------------------------------------------------------
(* Units are apart and the latch counts them: a unit ends or goes on.      *)

(* A unit is done, and the latch counts one less.                          *)
LEMMA FinishUnits ==
  ASSUME TurnsIInv, NEW t \in Threads, Busy(t), Finish(t),
         UNCHANGED <<phase, todo, queue, useWorkers>>, node' = node
  PROVE  UnitsAreApart' /\ LatchCounts' /\ JobsAreSound'
<1>1. Nodes' = Nodes /\ \A m \in Nodes : node'[m].connected
  BY NodesKept
<1>2. job'[t] = Idle /\ \A u \in Threads : u # t => job'[u] = job[u]
  BY JobType DEF Finish
<1>3. ~Busy(t)' /\ \A u \in Threads : u # t => Busy(u)' = Busy(u)
  <2>1. Idle.at = "idle"
    BY DEF Idle
  <2>2. QED
    BY <2>1, <1>2 DEF Busy
<1>4. UnitsAreApart'
  BY <1>1, <1>2, <1>3 DEF TurnsIInv, UnitsAreApart, Threads
<1>5. JobsAreSound'
  <2>1. JobIsSound(Idle)
    BY DEF JobIsSound, Idle
  <2>2. QED
    BY <2>1, <1>2 DEF TurnsIInv, JobsAreSound, Threads
<1>6. phase # "maintain"
  BY DEF TurnsIInv, LatchCounts, Quiet, Busy, Idle
<1>7. useWorkers => latch' = Cardinality(Units')
  <2> SUFFICES ASSUME useWorkers PROVE latch' = Cardinality(Units')
    OBVIOUS
  <2>1. latch = Cardinality(Units)
    BY DEF TurnsIInv, LatchCounts
  <2>2. QueuedUnits' = QueuedUnits
    BY DEF QueuedUnits
  <2>3. CASE t \in Workers
    <3>1. BusyUnits' = BusyUnits \ {job[t].of}
      <4>1. \A u \in Workers : u # t /\ Busy(u) => job[u].of # job[t].of
        BY <2>3 DEF TurnsIInv, UnitsAreApart, Threads
      <4>2. \A u \in Workers : Busy(u)' <=> (u # t /\ Busy(u))
        BY <1>3 DEF Threads
      <4>3. \A u \in Workers : u # t => job'[u] = job[u]
        BY <1>2 DEF Threads
      <4>4. QED
        BY <4>1, <4>2, <4>3 DEF BusyUnits
    <3>2. job[t].of \in BusyUnits
      BY <2>3 DEF BusyUnits
    <3>3. job[t].of \notin QueuedUnits
      BY DEF QueuedUnits, TurnsIInv, UnitsAreApart
    <3>4. job[t].of \notin todo
      BY DEF TurnsIInv, UnitsAreApart
    <3>5. Units' = Units \ {job[t].of} /\ job[t].of \in Units
      BY <2>2, <3>1, <3>2, <3>3, <3>4 DEF Units
    <3>6. Cardinality(Units \ {job[t].of}) = Cardinality(Units) - 1
      BY <3>5, UnitsAreFinite, FS_RemoveElement
    <3>7. latch' = latch - 1
      BY <2>3, WorkersAssumption DEF Finish
    <3>8. QED
      BY <2>1, <3>5, <3>6, <3>7
  <2>4. CASE t \notin Workers
    <3>1. t = Main
      BY <2>4 DEF Threads
    <3>2. BusyUnits' = BusyUnits
      <4>1. \A u \in Workers : job'[u] = job[u] /\ Busy(u)' = Busy(u)
        BY <2>4, <1>2, <1>3 DEF Threads
      <4>2. QED
        BY <4>1 DEF BusyUnits
    <3>3. Units' = Units
      BY <2>2, <3>2 DEF Units
    <3>4. latch' = latch
      BY <3>1 DEF Finish
    <3>5. QED
      BY <2>1, <3>3, <3>4
  <2>5. QED
    BY <2>3, <2>4
<1>8. ~useWorkers => queue = <<>> /\ \A w \in Workers : ~Busy(w)'
  <2>1. ~useWorkers => queue = <<>> /\ \A w \in Workers : ~Busy(w)
    BY DEF TurnsIInv, LatchCounts
  <2>2. QED
    BY <2>1, <1>3 DEF Threads
<1>9. phase \notin {"route", "update"} => todo = {}
  BY DEF TurnsIInv, LatchCounts
<1>10. LatchCounts'
  BY <1>1, <1>6, <1>7, <1>8, <1>9 DEF LatchCounts
<1>11. QED
  BY <1>4, <1>5, <1>10

LEMMA RouteDoneUnits ==
  ASSUME TurnsIInv, NEW t \in Threads, RouteDone(t)
  PROVE  UnitsAreApart' /\ LatchCounts' /\ JobsAreSound'
<1>1. Busy(t) /\ Finish(t) /\ UNCHANGED <<phase, todo, queue, useWorkers>> /\ node' = node
  BY DEF RouteDone, Busy, turn, tables
<1>2. QED
  BY <1>1, FinishUnits

LEMMA UpdateUnits ==
  ASSUME TurnsIInv, NEW t \in Threads, UpdateConnection(t)
  PROVE  UnitsAreApart' /\ LatchCounts' /\ JobsAreSound'
<1>1. Busy(t) /\ Finish(t) /\ UNCHANGED <<phase, todo, queue, useWorkers>> /\ node' = node
  BY DEF UpdateConnection, Busy, turn, tables
<1>2. QED
  BY <1>1, FinishUnits

(* The steps within a unit.                                                *)
LEMMA HandlingUnits ==
  ASSUME TurnsIInv, NEW t \in Threads,
         \/ FetchMessages(t) \/ UpdateEndpointInfo(t) \/ AddSubscription(t) \/ HandleByeBye(t)
         \/ HandleNotARouter(t) \/ HandlePing(t) \/ HandleTopologyQuery(t) \/ FindOutgoing(t)
         \/ Broadcast(t) \/ Send(t) \/ LogByeBye(t)
  PROVE  UnitsAreApart' /\ LatchCounts' /\ JobsAreSound'
<1>1. UNCHANGED <<phase, todo, latch, queue, useWorkers>>
  BY DEF FetchMessages, UpdateEndpointInfo, AddSubscription, HandleByeBye, HandleNotARouter, HandlePing,
         HandleTopologyQuery, FindOutgoing, Broadcast, Send, LogByeBye, turn, tables
<1>2. Nodes' = Nodes /\ \A m \in Nodes : node'[m].connected
  <2>1. CASE HandleByeBye(t)
    BY <2>1, ByeByeType DEF TurnsIInv, LatchCounts
  <2>2. CASE HandleNotARouter(t)
    BY <2>2, NotRouterType DEF TurnsIInv, LatchCounts
  <2>3. CASE node' = node
    BY <2>3, NodesKept
  <2>4. QED
    BY <2>1, <2>2, <2>3
       DEF FetchMessages, UpdateEndpointInfo, AddSubscription, HandlePing,
         HandleTopologyQuery, FindOutgoing, Broadcast, Send, LogByeBye, tables
<1>3. CASE FetchMessages(t)
  BY <1>1, <1>2, <1>3, FetchBecomes, InUnit
<1>4. CASE UpdateEndpointInfo(t)
  <2>1. IsNext(t, {"subscribTo"})
    BY <1>4 DEF UpdateEndpointInfo
  <2>2. Busy(t) /\ job[t].batch # <<>> /\ Head(job[t].batch).kind = "subscribTo"
    BY <2>1, NextMessage
  <2>3. QED
    BY <1>1, <1>2, <1>4, <2>2, UpdateInfoBecomes, InUnit
<1>5. CASE AddSubscription(t)
  BY <1>1, <1>2, <1>5, AddBecomes, InUnit
<1>6. CASE HandleByeBye(t)
  <2>1. IsNext(t, {"byeByeEndp"})
    BY <1>6 DEF HandleByeBye
  <2>2. Busy(t) /\ job[t].batch # <<>>
    BY <2>1, NextMessage
  <2>3. QED
    BY <1>1, <1>2, <1>6, <2>2, ByeByeBecomes, InUnit
<1>7. CASE HandleNotARouter(t)
  <2>1. IsNext(t, {"notARouter"})
    BY <1>7 DEF HandleNotARouter
  <2>2. Busy(t)
    BY <2>1, NextMessage
  <2>3. QED
    BY <1>1, <1>2, <1>7, <2>2, NotRouterBecomes, InUnit
<1>8. CASE HandlePing(t)
  <2>1. IsNext(t, {"ping"})
    BY <1>8 DEF HandlePing
  <2>2. Busy(t)
    BY <2>1, NextMessage
  <2>3. QED
    BY <1>1, <1>2, <1>8, <2>2, PingBecomes, InUnit
<1>9. CASE HandleTopologyQuery(t)
  <2>1. IsNext(t, {"topoQuery"})
    BY <1>9 DEF HandleTopologyQuery
  <2>2. Busy(t)
    BY <2>1, NextMessage
  <2>3. QED
    BY <1>1, <1>2, <1>9, <2>2, TopologyBecomes, InUnit
<1>10. CASE FindOutgoing(t)
  <2>1. job[t].batch # <<>> \/ job[t].answers > 0
    BY <1>10, OutgoingBecomes DEF Answering
  <2>2. QED
    BY <1>1, <1>2, <1>10, <2>1, OutgoingBecomes, InUnit
<1>11. CASE Broadcast(t)
  <2>1. IsNext(t, {"cast", "notARouter"})
    BY <1>11 DEF Broadcast
  <2>2. Busy(t) /\ job[t].batch # <<>>
    BY <2>1, NextMessage
  <2>3. QED
    BY <1>1, <1>2, <1>11, <2>2, BroadcastBecomes, InUnit
<1>12. CASE Send(t)
  <2>1. CASE Answering(t)
    BY <1>1, <1>2, <1>12, <2>1, SendBecomes, InUnit
  <2>2. CASE ~Answering(t)
    BY <1>1, <1>2, <1>12, <2>2, SendBecomes, InUnit
  <2>3. QED
    BY <2>1, <2>2
<1>13. CASE LogByeBye(t)
  <2>1. IsNext(t, {"byeByeEndp"})
    BY <1>13 DEF LogByeBye
  <2>2. Busy(t)
    BY <2>1, NextMessage
  <2>3. QED
    BY <1>1, <1>2, <1>13, <2>2, LogBecomes, InUnit
<1>14. QED
  BY <1>3, <1>4, <1>5, <1>6, <1>7, <1>8, <1>9, <1>10, <1>11, <1>12, <1>13

----------------------------------------------------------------------------
(* What a step changes of the messages in hand.                            *)

(* Which job is of a link, after a step.                                   *)
LEMMA JobOfBusyNext ==
  ASSUME UnitsAreApart', NEW t \in Threads, Busy(t)', NEW e \in Links, job'[t].of = e
  PROVE  JobOf(e)' = job'[t]
<1> DEFINE C == CHOOSE u \in Threads : job'[u].at # "idle" /\ job'[u].of = e
<1>1. C \in Threads /\ job'[C].at # "idle" /\ job'[C].of = e
  <2>1. \E u \in Threads : job'[u].at # "idle" /\ job'[u].of = e
    BY DEF Busy
  <2>2. QED
    BY <2>1
<1>2. C = t
  BY <1>1 DEF UnitsAreApart, Threads, Busy
<1>3. JobOf(e)' = job'[C]
  <2>1. \E u \in Threads : job'[u].at # "idle" /\ job'[u].of = e
    BY DEF Busy
  <2>2. QED
    BY <2>1 DEF JobOf, Threads, Busy
<1>4. QED
  BY <1>2, <1>3

LEMMA JobOfNobodyNext ==
  ASSUME NEW e, \A t \in Threads : ~(Busy(t)' /\ job'[t].of = e)
  PROVE  JobOf(e)' = Idle
  BY DEF JobOf, Threads, Busy, Idle

(* What of the job of a link the invariants of the data speak of.          *)
SameView(e) == JobOf(e)'.batch = JobOf(e).batch /\ Sending(e)' = Sending(e)

LEMMA IdleView ==
  /\ Idle.batch = <<>>
  /\ Idle.at = "idle"
  BY DEF Idle

(* A step within a unit changes the view of its own link only.             *)
LEMMA ViewInUnit ==
  ASSUME TurnsIInv, UnitsAreApart', NEW t \in Threads, Busy(t), NEW o \in Links, job[t].of = o,
         NEW at \in {"next", "add", "send"}, NEW b, NEW n, Becomes(t, at, b, n)
  PROVE  /\ JobOf(o) = job[t]
         /\ JobOf(o)'.batch = b
         /\ Sending(o)' = (at = "send" /\ n = 0)
         /\ \A e \in Links : e # o => SameView(e)
<1>1. JobOf(o) = job[t]
  BY JobOfBusy DEF TurnsIInv
<1>2. job'[t].of = o /\ job'[t].at = at /\ job'[t].batch = b /\ job'[t].answers = n /\ Busy(t)'
  BY DEF Becomes, Busy
<1>3. JobOf(o)' = job'[t]
  BY <1>2, JobOfBusyNext
<1>4. \A u \in Threads : u # t => /\ job'[u].of = job[u].of /\ job'[u].at = job[u].at
                                  /\ job'[u].batch = job[u].batch /\ job'[u].answers = job[u].answers
                                  /\ Busy(u)' = Busy(u)
  <2>1. SUFFICES ASSUME NEW u \in Threads, u # t
                 PROVE  /\ job'[u].of = job[u].of /\ job'[u].at = job[u].at
                        /\ job'[u].batch = job[u].batch /\ job'[u].answers = job[u].answers
                        /\ Busy(u)' = Busy(u)
    OBVIOUS
  <2>2. Alike(job[u], job'[u]) /\ job[u] \in Jobs
    BY <2>1, JobType DEF Becomes
  <2>3. QED
    BY <2>2, AlikeFacts DEF Busy
<1>5. ASSUME NEW e \in Links, e # o PROVE SameView(e)
  <2>1. CASE \E u \in Threads : Busy(u) /\ job[u].of = e
    <3>1. PICK u \in Threads : Busy(u) /\ job[u].of = e
      BY <2>1
    <3>2. u # t
      BY <3>1, <1>5
    <3>3. JobOf(e) = job[u]
      BY <3>1, JobOfBusy DEF TurnsIInv
    <3>4. JobOf(e)' = job'[u]
      BY <3>1, <3>2, <1>4, JobOfBusyNext
    <3>5. JobOf(e)'.batch = JobOf(e).batch /\ JobOf(e)'.at = JobOf(e).at /\ JobOf(e)'.answers = JobOf(e).answers
      BY <3>2, <3>3, <3>4, <1>4
    <3>6. QED
      BY <3>5 DEF SameView, Sending
  <2>2. CASE ~\E u \in Threads : Busy(u) /\ job[u].of = e
    <3>1. JobOf(e) = Idle
      BY <2>2, JobOfNobody
    <3>2. \A u \in Threads : ~(Busy(u)' /\ job'[u].of = e)
      BY <2>2, <1>2, <1>4, <1>5
    <3>3. JobOf(e)' = Idle
      BY <3>2, JobOfNobodyNext
    <3>4. QED
      BY <3>1, <3>3 DEF SameView, Sending
  <2>3. QED
    BY <2>1, <2>2
<1>6. Sending(o)' = (at = "send" /\ n = 0)
  BY <1>2, <1>3 DEF Sending
<1>7. QED
  BY <1>1, <1>2, <1>3, <1>5, <1>6

(* The job of one thread begins or ends, with nothing in hand.             *)
LEMMA ViewOfUnit ==
  ASSUME TurnsIInv, UnitsAreApart', NEW t \in Threads,
         \A u \in Threads : u # t => job'[u] = job[u],
         Busy(t) => job[t].batch = <<>> /\ job[t].at # "send",
         Busy(t)' => job'[t].batch = <<>> /\ job'[t].at # "send"
  PROVE  \A e \in Links : SameView(e)
<1> SUFFICES ASSUME NEW e \in Links PROVE SameView(e)
  OBVIOUS
<1>1. \A u \in Threads : u # t => Busy(u)' = Busy(u)
  BY DEF Busy
<1>2. CASE \E u \in Threads : u # t /\ Busy(u) /\ job[u].of = e
  <2>1. PICK u \in Threads : u # t /\ Busy(u) /\ job[u].of = e
    BY <1>2
  <2>2. JobOf(e) = job[u]
    BY <2>1, JobOfBusy DEF TurnsIInv
  <2>3. Busy(u)' /\ job'[u].of = e /\ job'[u] = job[u]
    BY <2>1, <1>1
  <2>4. JobOf(e)' = job'[u]
    BY <2>3, JobOfBusyNext
  <2>5. QED
    BY <2>2, <2>3, <2>4 DEF SameView, Sending
<1>3. CASE ~\E u \in Threads : u # t /\ Busy(u) /\ job[u].of = e
  <2>1. JobOf(e).batch = <<>> /\ ~Sending(e)
    <3>1. CASE Busy(t) /\ job[t].of = e
      <4>1. JobOf(e) = job[t]
        BY <3>1, JobOfBusy DEF TurnsIInv
      <4>2. QED
        BY <3>1, <4>1 DEF Sending
    <3>2. CASE ~(Busy(t) /\ job[t].of = e)
      <4>1. JobOf(e) = Idle
        BY <3>2, <1>3, JobOfNobody
      <4>2. QED
        BY <4>1, IdleView DEF Sending
    <3>3. QED
      BY <3>1, <3>2
  <2>2. JobOf(e)'.batch = <<>> /\ ~Sending(e)'
    <3>1. CASE Busy(t)' /\ job'[t].of = e
      <4>1. JobOf(e)' = job'[t]
        BY <3>1, JobOfBusyNext
      <4>2. QED
        BY <3>1, <4>1 DEF Sending
    <3>2. CASE ~(Busy(t)' /\ job'[t].of = e)
      <4>1. \A u \in Threads : ~(Busy(u)' /\ job'[u].of = e)
        BY <3>2, <1>1, <1>3
      <4>2. JobOf(e)' = Idle
        BY <4>1, JobOfNobodyNext
      <4>3. QED
        BY <4>2, IdleView DEF Sending
    <3>3. QED
      BY <3>1, <3>2
  <2>3. QED
    BY <2>1, <2>2 DEF SameView, Sending
<1>4. QED
  BY <1>2, <1>3

----------------------------------------------------------------------------
(* A script that is read: received, taken in hand, passed.                 *)

(* A script s of which p messages were passed: then come those that a unit *)
(* has in hand, those that were received, and those on the wire.           *)
Follows(s, p, b, incoming, wire) ==
    /\ p \in Nat
    /\ Len(s) = p + Len(b) + Len(incoming) + Len(wire)
    /\ \A i \in 1 .. Len(b) : Same(b[i], s[p + i])
    /\ \A i \in 1 .. Len(incoming) : incoming[i] = s[p + Len(b) + i]
    /\ \A i \in 1 .. Len(wire) : wire[i] = s[p + Len(b) + Len(incoming) + i]

(* What was received is taken in hand.                                     *)
LEMMA FollowsFetch ==
  ASSUME NEW s \in Seq(Messages), NEW p, NEW incoming \in Seq(Messages), NEW wire \in Seq(Messages),
         Follows(s, p, <<>>, incoming, wire)
  PROVE  Follows(s, p, incoming, <<>>, wire)
<1>1. /\ p \in Nat
      /\ Len(s) = p + Len(incoming) + Len(wire)
      /\ \A i \in 1 .. Len(incoming) : incoming[i] = s[p + i]
      /\ \A i \in 1 .. Len(wire) : wire[i] = s[p + Len(incoming) + i]
  BY DEF Follows
<1>2. \A i \in 1 .. Len(incoming) : Same(incoming[i], s[p + i])
  BY <1>1 DEF Same
<1>3. QED
  BY <1>1, <1>2 DEF Follows

(* What was on the wire is received.                                       *)
LEMMA FollowsUpdate ==
  ASSUME NEW s \in Seq(Messages), NEW p, NEW b \in Seq(Messages), NEW incoming \in Seq(Messages),
         NEW wire \in Seq(Messages), Follows(s, p, b, incoming, wire)
  PROVE  Follows(s, p, b, incoming \o wire, <<>>)
<1> DEFINE all == incoming \o wire
<1>1. Len(all) = Len(incoming) + Len(wire) /\ all \in Seq(Messages)
  OBVIOUS
<1>2. ASSUME NEW i \in 1 .. Len(all) PROVE all[i] = s[p + Len(b) + i]
  <2>1. CASE i <= Len(incoming)
    BY <2>1 DEF Follows
  <2>2. CASE i > Len(incoming)
    <3>1. i - Len(incoming) \in 1 .. Len(wire) /\ all[i] = wire[i - Len(incoming)]
      BY <2>2, <1>1
    <3>2. wire[i - Len(incoming)] = s[p + Len(b) + Len(incoming) + (i - Len(incoming))]
      BY <3>1 DEF Follows
    <3>3. p + Len(b) + Len(incoming) + (i - Len(incoming)) = p + Len(b) + i
      BY DEF Follows
    <3>4. QED
      BY <3>1, <3>2, <3>3
  <2>3. QED
    BY <1>1, <2>1, <2>2
<1>3. Len(s) = p + Len(b) + Len(all) + 0
  BY <1>1 DEF Follows
<1>4. QED
  BY <1>1, <1>2, <1>3 DEF Follows

(* The message in hand is passed.                                          *)
LEMMA FollowsDrop ==
  ASSUME NEW s \in Seq(Messages), NEW p, NEW b \in Seq(Messages), NEW incoming \in Seq(Messages),
         NEW wire \in Seq(Messages), Follows(s, p, b, incoming, wire), b # <<>>
  PROVE  Follows(s, p + 1, Tail(b), incoming, wire)
<1>1. /\ p \in Nat
      /\ Len(s) = p + Len(b) + Len(incoming) + Len(wire)
      /\ \A i \in 1 .. Len(b) : Same(b[i], s[p + i])
      /\ \A i \in 1 .. Len(incoming) : incoming[i] = s[p + Len(b) + i]
      /\ \A i \in 1 .. Len(wire) : wire[i] = s[p + Len(b) + Len(incoming) + i]
  BY DEF Follows
<1> DEFINE c == Tail(b)
<1>2. Len(c) = Len(b) - 1 /\ c \in Seq(Messages) /\ Len(b) \in Nat /\ Len(b) > 0
  OBVIOUS
<1>3. \A i \in 1 .. Len(c) : c[i] = b[i + 1]
  OBVIOUS
<1>4. \A i \in 1 .. Len(c) : i + 1 \in 1 .. Len(b) /\ p + (i + 1) = (p + 1) + i
  BY <1>1, <1>2
<1> HIDE DEF c
<1>5. \A i \in 1 .. Len(c) : Same(c[i], s[(p + 1) + i])
  <2> SUFFICES ASSUME NEW i \in 1 .. Len(c) PROVE Same(c[i], s[(p + 1) + i])
    OBVIOUS
  <2>1. Same(b[i + 1], s[p + (i + 1)])
    BY <1>1, <1>4
  <2>2. QED
    BY <2>1, <1>3, <1>4
<1>6. (p + 1) + Len(c) = p + Len(b)
  BY <1>1, <1>2
<1>7. QED
  <2>1. p + 1 \in Nat
    BY <1>1
  <2>2. Follows(s, p + 1, c, incoming, wire)
    BY <1>1, <1>5, <1>6, <2>1 DEF Follows
  <2>3. QED
    BY <2>2 DEF c

(* A topology query is sent on as a broadcast.                             *)
LEMMA FollowsCast ==
  ASSUME NEW s \in Seq(Messages), NEW p, NEW b \in Seq(Messages), NEW incoming \in Seq(Messages),
         NEW wire \in Seq(Messages), Follows(s, p, b, incoming, wire), b # <<>>,
         Head(b).kind = "topoQuery", NEW m \in Messages, m = [Head(b) EXCEPT !.kind = "cast"]
  PROVE  Follows(s, p, <<m>> \o Tail(b), incoming, wire)
<1>1. /\ p \in Nat
      /\ Len(s) = p + Len(b) + Len(incoming) + Len(wire)
      /\ \A i \in 1 .. Len(b) : Same(b[i], s[p + i])
      /\ \A i \in 1 .. Len(incoming) : incoming[i] = s[p + Len(b) + i]
      /\ \A i \in 1 .. Len(wire) : wire[i] = s[p + Len(b) + Len(incoming) + i]
  BY DEF Follows
<1> DEFINE c == <<m>> \o Tail(b)
<1>2. /\ Len(c) = Len(b) /\ c \in Seq(Messages) /\ Len(b) \in Nat /\ Len(b) > 0
      /\ c[1] = m
      /\ \A i \in 1 .. Len(c) : i # 1 => c[i] = b[i]
  OBVIOUS
<1>3. b[1] = Head(b) /\ b[1] \in Messages
  BY <1>2
<1> HIDE DEF c
<1>4. m.source = b[1].source /\ m.target = b[1].target /\ m.number = b[1].number /\ m.kind = "cast"
  BY <1>3 DEF Messages
<1>5. Same(m, s[p + 1])
  <2>1. Same(b[1], s[p + 1])
    <3>1. 1 \in 1 .. Len(b)
      BY <1>2
    <3>2. QED
      BY <3>1, <1>1
  <2>2. s[p + 1].kind = "topoQuery"
    BY <2>1, <1>3 DEF Same
  <2>3. QED
    BY <2>1, <2>2, <1>4 DEF Same
<1>6. \A i \in 1 .. Len(c) : Same(c[i], s[p + i])
  BY <1>1, <1>2, <1>5
<1>7. Follows(s, p, c, incoming, wire)
  BY <1>1, <1>2, <1>6 DEF Follows
<1>8. QED
  BY <1>7 DEF c

FollowsAt(e) == Follows(script[e], Passed(e), JobOf(e).batch, link[e].incoming, link[e].wire)

(* In a state of the invariant every link follows its script.              *)
LEMMA FollowsNow ==
  ASSUME TurnsIInv, NEW e \in Links
  PROVE  FollowsAt(e)
<1>1. TurnsTypeOK /\ ScriptsAreFollowed
  BY DEF TurnsIInv
<1> DEFINE b == JobOf(e).batch
           p == Passed(e)
           incoming == link[e].incoming
           wire == link[e].wire
<1>2. /\ p \in Nat
      /\ \A i \in DOMAIN b : Same(b[i], script[e][p + i])
      /\ \A i \in DOMAIN incoming : incoming[i] = script[e][Fetched(e) + i]
      /\ \A i \in DOMAIN wire : wire[i] = script[e][Fetched(e) + Len(incoming) + i]
  BY <1>1 DEF ScriptsAreFollowed
<1>3. /\ Fetched(e) = p + Len(b)
      /\ Len(script[e]) = Fetched(e) + Len(incoming) + Len(wire)
      /\ b \in Seq(Messages) /\ incoming \in Seq(Messages) /\ wire \in Seq(Messages)
  BY <1>1, LengthFacts
<1> HIDE DEF b, p, incoming, wire
<1>4. Follows(script[e], p, b, incoming, wire)
  BY <1>2, <1>3 DEF Follows
<1>5. QED
  BY <1>4 DEF FollowsAt, b, p, incoming, wire

(* What a link holds in the next state, and how far its script was passed. *)
FollowsTo(e, p) == Follows(script[e], p, JobOf(e)'.batch, link'[e].incoming, link'[e].wire)

LEMMA NextLengths ==
  ASSUME TurnsTypeOK', script' = script, NEW e \in Links
  PROVE  /\ JobOf(e)'.batch \in Seq(Messages)
         /\ link'[e].incoming \in Seq(Messages)
         /\ link'[e].wire \in Seq(Messages)
<1>1. JobOf(e)' \in Jobs
  <2>1. CASE \E t \in Threads : job'[t].at # "idle" /\ job'[t].of = e
    <3> DEFINE C == CHOOSE u \in Threads : job'[u].at # "idle" /\ job'[u].of = e
    <3>1. C \in Threads
      BY <2>1
    <3>2. JobOf(e)' = job'[C]
      BY <2>1 DEF JobOf, Busy, Threads
    <3>3. job'[C] \in Jobs
      BY <3>1 DEF TurnsTypeOK, Threads
    <3>4. QED
      BY <3>2, <3>3
  <2>2. CASE ~\E t \in Threads : job'[t].at # "idle" /\ job'[t].of = e
    <3>1. JobOf(e)' = Idle
      BY <2>2 DEF JobOf, Busy, Threads, Idle
    <3>2. QED
      BY <3>1, IdleIsJob
  <2>3. QED
    BY <2>1, <2>2
<1>2. JobOf(e)'.batch \in Seq(Messages)
  BY <1>1 DEF Jobs
<1>3. link'[e].incoming \in Seq(Messages) /\ link'[e].wire \in Seq(Messages)
  BY DEF TurnsTypeOK, Links
<1>4. QED
  BY <1>2, <1>3

(* How far the script of a link was passed after a step.                   *)
LEMMA PassedIs ==
  ASSUME TurnsTypeOK', script' = script, NEW e \in Links, NEW p, FollowsTo(e, p)
  PROVE  /\ Passed(e)' = p
         /\ Fetched(e)' = p + Len(JobOf(e)'.batch)
<1> DEFINE b == JobOf(e)'.batch
           x == Len(b)
           y == Len(link'[e].incoming)
           z == Len(link'[e].wire)
<1>1. x \in Nat /\ y \in Nat /\ z \in Nat
  BY NextLengths, LenProperties
<1>2. p \in Nat /\ Len(script[e]) = p + x + y + z
  BY DEF FollowsTo, Follows
<1>3. Fetched(e)' = Len(script[e]) - y - z
  BY DEF Fetched
<1>4. Passed(e)' = Fetched(e)' - x
  BY DEF Passed
<1> HIDE DEF x, y, z
<1>5. Fetched(e)' = p + x
  BY <1>1, <1>2, <1>3
<1>6. Passed(e)' = p
  BY <1>1, <1>2, <1>4, <1>5
<1>7. QED
  BY <1>5, <1>6 DEF x

(* Links that follow their scripts after a step.                           *)
LEMMA FollowsNext ==
  ASSUME TurnsTypeOK', script' = script, \A e \in Links : \E p \in Nat : FollowsTo(e, p)
  PROVE  ScriptsAreFollowed'
<1> SUFFICES ASSUME NEW e \in Links
             PROVE  /\ Passed(e)' \in Nat
                    /\ \A i \in DOMAIN (JobOf(e)'.batch) : Same(JobOf(e)'.batch[i], script[e][Passed(e)' + i])
                    /\ \A i \in DOMAIN link'[e].incoming : link'[e].incoming[i] = script[e][Fetched(e)' + i]
                    /\ \A i \in DOMAIN link'[e].wire :
                        link'[e].wire[i] = script[e][Fetched(e)' + Len(link'[e].incoming) + i]
  BY DEF ScriptsAreFollowed, Links, Same
<1>1. PICK p \in Nat : FollowsTo(e, p)
  OBVIOUS
<1> DEFINE b == JobOf(e)'.batch
           incoming == link'[e].incoming
           wire == link'[e].wire
<1>2. Passed(e)' = p /\ Fetched(e)' = p + Len(b)
  BY <1>1, PassedIs
<1>3. b \in Seq(Messages) /\ incoming \in Seq(Messages) /\ wire \in Seq(Messages)
  BY NextLengths
<1>4. Follows(script[e], p, b, incoming, wire)
  BY <1>1 DEF FollowsTo
<1> HIDE DEF b, incoming, wire
<1>5. /\ \A i \in DOMAIN b : Same(b[i], script[e][p + i])
      /\ \A i \in DOMAIN incoming : incoming[i] = script[e][p + Len(b) + i]
      /\ \A i \in DOMAIN wire : wire[i] = script[e][p + Len(b) + Len(incoming) + i]
  <2>1. DOMAIN b = 1 .. Len(b) /\ DOMAIN incoming = 1 .. Len(incoming) /\ DOMAIN wire = 1 .. Len(wire)
    BY <1>3, LenProperties
  <2>2. QED
    BY <2>1, <1>4 DEF Follows
<1>6. QED
  BY <1>2, <1>5 DEF b, incoming, wire

----------------------------------------------------------------------------
(* What was sent on stays in order.                                        *)

Line(l) == link[l].got \o link[l].out

(* A message comes before what is left of its source after the step.      *)
BeforeTo(m, e) ==
    \A p \in Passed(e)' + 1 .. Len(script[e]) :
        script[e][p].source = e => m.number < script[e][p].number

(* A message that is sent on is the next of its source.                    *)
IsNextOf(m, e) ==
    /\ Passed(e) \in Nat
    /\ Passed(e) + 1 \in DOMAIN script[e]
    /\ script[e][Passed(e) + 1].source = e
    /\ script[e][Passed(e) + 1].number = m.number
    /\ Passed(e)' = Passed(e) + 1

(* What came before the rest of a script still does when more was passed.  *)
LEMMA BeforeNext ==
  ASSUME TurnsIInv, script' = script, NEW m, NEW e \in NodeIds, m.source = e, IsBefore(m),
         Passed(e) \in Int, Passed(e)' \in Int, Passed(e)' >= Passed(e)
  PROVE  BeforeTo(m, e)
<1>1. Len(script[e]) \in Nat
  BY LengthFacts DEF TurnsIInv, NodeIds
<1>2. ASSUME NEW p \in Passed(e)' + 1 .. Len(script[e]), script[e][p].source = e
      PROVE  m.number < script[e][p].number
  <2>1. p \in Passed(e) + 1 .. Len(script[e])
    BY <1>1, <1>2
  <2>2. QED
    BY <1>2, <2>1 DEF IsBefore
<1>3. QED
  BY <1>2 DEF BeforeTo

(* The next message of a source comes before what is left then.            *)
LEMMA NextIsBefore ==
  ASSUME TurnsIInv, script' = script, NEW m, NEW e \in NodeIds, m.source = e, IsNextOf(m, e)
  PROVE  BeforeTo(m, e)
<1>1. TurnsTypeOK /\ e \in Links
  BY DEF TurnsIInv, NodeIds
<1>2. Len(script[e]) \in Nat /\ DOMAIN script[e] = 1 .. Len(script[e])
  BY <1>1, LengthFacts
<1> DEFINE q == Passed(e) + 1
<1>3. q \in DOMAIN script[e] /\ script[e][q].source = e /\ script[e][q].number = m.number /\ Passed(e)' = q
  BY DEF IsNextOf
<1> HIDE DEF q
<1>4. ASSUME NEW p \in q + 1 .. Len(script[e]), script[e][p].source = e
      PROVE  m.number < script[e][p].number
  <2>1. p \in DOMAIN script[e] /\ q < p
    BY <1>2, <1>3
  <2>2. script[e][q].number < script[e][p].number
    BY <2>1, <1>1, <1>3, <1>4, ScriptOrder
  <2>3. QED
    BY <2>2, <1>3
<1>5. QED
  BY <1>3, <1>4 DEF BeforeTo

(* One message more that is after all of its source.                       *)
LEMMA OrderSteady ==
  ASSUME NEW s \in Seq(Messages), NEW m \in Messages, InOrder(s), NEW e, m.source = e,
         \A i \in DOMAIN s : s[i].source = e => s[i].number < m.number
  PROVE  InOrder(Append(s, m))
<1> DEFINE z == Append(s, m)
<1>1. /\ Len(s) \in Nat
      /\ DOMAIN s = 1 .. Len(s)
      /\ DOMAIN z = 1 .. Len(s) + 1
      /\ \A i \in DOMAIN s : z[i] = s[i]
      /\ z[Len(s) + 1] = m
  OBVIOUS
<1> HIDE DEF z
<1>2. ASSUME NEW i \in DOMAIN z, NEW j \in DOMAIN z, i < j, z[i].source = z[j].source,
             z[i].source \in NodeIds
      PROVE  z[i].number < z[j].number
  <2>1. i \in DOMAIN s
    BY <1>1, <1>2
  <2>2. CASE j \in DOMAIN s
    BY <2>1, <2>2, <1>1, <1>2 DEF InOrder
  <2>3. CASE j \notin DOMAIN s
    <3>1. z[j] = m
      BY <2>3, <1>1
    <3>2. QED
      BY <3>1, <2>1, <1>1, <1>2
  <2>4. QED
    BY <2>2, <2>3
<1>3. InOrder(z)
  BY <1>2 DEF InOrder
<1>4. QED
  BY <1>3 DEF z

(* One message more of a source whose order is not kept.                   *)
LEMMA OrderForeign ==
  ASSUME NEW s \in Seq(Messages), NEW m \in Messages, InOrder(s), m.source \notin NodeIds
  PROVE  InOrder(Append(s, m))
<1> DEFINE z == Append(s, m)
<1>1. /\ Len(s) \in Nat
      /\ DOMAIN s = 1 .. Len(s)
      /\ DOMAIN z = 1 .. Len(s) + 1
      /\ \A i \in DOMAIN s : z[i] = s[i]
      /\ z[Len(s) + 1] = m
  OBVIOUS
<1> HIDE DEF z
<1>2. ASSUME NEW i \in DOMAIN z, NEW j \in DOMAIN z, i < j, z[i].source = z[j].source,
             z[i].source \in NodeIds
      PROVE  z[i].number < z[j].number
  <2>1. i \in DOMAIN s /\ j \in DOMAIN s
    BY <1>1, <1>2
  <2>2. QED
    BY <2>1, <1>1, <1>2 DEF InOrder
<1>3. InOrder(z)
  BY <1>2 DEF InOrder
<1>4. QED
  BY <1>3 DEF z

(* A line after a step: as it was, or with one message more.               *)
LineGrows(l, m) ==
    /\ Line(l)' = Append(Line(l), m)
    /\ \A e \in NodeIds : m.source = e => IsNextOf(m, e)

LEMMA LineNow ==
  ASSUME TurnsIInv, NEW l \in Links
  PROVE  /\ Line(l) \in Seq(Messages)
         /\ InOrder(Line(l))
         /\ \A i \in DOMAIN Line(l) : Line(l)[i].source \in NodeIds => IsBefore(Line(l)[i])
<1>1. Line(l) \in Seq(Messages)
  BY LengthFacts DEF Line, TurnsIInv
<1>2. QED
  BY <1>1 DEF TurnsIInv, OrderIsKept, Line

(* What OrderIsKept says of a line.                                        *)
LineIsKept(z) ==
    /\ InOrder(z)
    /\ \A i \in DOMAIN z, e \in NodeIds : z[i].source = e => BeforeTo(z[i], e)

(* The order after a step in which each line is as it was or one longer.   *)
LEMMA OrderNext ==
  ASSUME TurnsIInv, script' = script,
         \A e \in NodeIds : Passed(e) \in Int /\ Passed(e)' \in Int /\ Passed(e)' >= Passed(e),
         \A l \in Links : Line(l)' = Line(l) \/ \E m \in Messages : LineGrows(l, m)
  PROVE  OrderIsKept'
<1>1. ASSUME NEW l \in Links PROVE LineIsKept(Line(l)')
  <2> DEFINE s == Line(l)
  <2>1. /\ s \in Seq(Messages)
        /\ InOrder(s)
        /\ \A i \in DOMAIN s : s[i].source \in NodeIds => IsBefore(s[i])
    BY LineNow
  <2>2. \A i \in DOMAIN s, e \in NodeIds : s[i].source = e => BeforeTo(s[i], e)
    <3> SUFFICES ASSUME NEW i \in DOMAIN s, NEW e \in NodeIds, s[i].source = e PROVE BeforeTo(s[i], e)
      OBVIOUS
    <3> DEFINE m == s[i]
    <3>1. m.source = e /\ IsBefore(m)
      BY <2>1
    <3> HIDE DEF m
    <3>2. BeforeTo(m, e)
      BY <3>1, BeforeNext
    <3>3. QED
      BY <3>2 DEF m
  <2>3. CASE Line(l)' = s
    BY <2>1, <2>2, <2>3 DEF LineIsKept
  <2>4. CASE \E m \in Messages : LineGrows(l, m)
    <3>1. PICK m \in Messages : LineGrows(l, m)
      BY <2>4
    <3>2. Line(l)' = Append(s, m) /\ \A e \in NodeIds : m.source = e => IsNextOf(m, e)
      BY <3>1 DEF LineGrows
    <3> DEFINE z == Append(s, m)
    <3> HIDE DEF s
    <3>3. InOrder(z)
      <4>1. CASE m.source \in NodeIds
        <5>1. PICK e \in NodeIds : m.source = e
          BY <4>1
        <5>2. /\ Passed(e) + 1 \in DOMAIN script[e]
              /\ script[e][Passed(e) + 1].source = e
              /\ script[e][Passed(e) + 1].number = m.number
              /\ Passed(e) \in Nat
          BY <3>2, <5>1 DEF IsNextOf
        <5>3. DOMAIN script[e] = 1 .. Len(script[e]) /\ Len(script[e]) \in Nat
          BY LengthFacts DEF TurnsIInv, NodeIds
        <5>4. Passed(e) + 1 \in Passed(e) + 1 .. Len(script[e])
          BY <5>2, <5>3
        <5>5. \A i \in DOMAIN s : s[i].source = e => s[i].number < m.number
          BY <2>1, <5>2, <5>4 DEF IsBefore
        <5>6. QED
          BY <2>1, <5>1, <5>5, OrderSteady
      <4>2. CASE m.source \notin NodeIds
        BY <2>1, <4>2, OrderForeign
      <4>3. QED
        BY <4>1, <4>2
    <3>4. /\ DOMAIN z = DOMAIN s \cup {Len(s) + 1}
          /\ \A i \in DOMAIN s : z[i] = s[i]
          /\ z[Len(s) + 1] = m
      BY <2>1
    <3> HIDE DEF z
    <3>5. \A e \in NodeIds : m.source = e => BeforeTo(m, e)
      BY <3>2, NextIsBefore
    <3>6. \A i \in DOMAIN z, e \in NodeIds : z[i].source = e => BeforeTo(z[i], e)
      <4> SUFFICES ASSUME NEW i \in DOMAIN z, NEW e \in NodeIds, z[i].source = e PROVE BeforeTo(z[i], e)
        OBVIOUS
      <4>1. CASE i \in DOMAIN s
        <5>1. z[i] = s[i]
          BY <3>4, <4>1
        <5>2. BeforeTo(s[i], e)
          BY <2>2, <4>1, <5>1
        <5>3. QED
          BY <5>1, <5>2
      <4>2. CASE i = Len(s) + 1
        <5>1. z[i] = m
          BY <3>4, <4>2
        <5>2. QED
          BY <5>1, <3>5
      <4>3. QED
        BY <3>4, <4>1, <4>2
    <3>7. LineIsKept(z)
      BY <3>3, <3>6 DEF LineIsKept
    <3>8. QED
      BY <3>2, <3>7 DEF z
  <2>5. QED
    BY <2>3, <2>4
<1>2. \A l \in Links : LineIsKept(link'[l].got \o link'[l].out)
  BY <1>1 DEF Line
<1>3. Links' = Links /\ NodeIds' = NodeIds
  BY DEF Links, NodeIds
<1>4. QED
  BY <1>2, <1>3 DEF OrderIsKept, LineIsKept, InOrder, IsBefore, BeforeTo

----------------------------------------------------------------------------
(* The infos follow the messages that were handled.                        *)

SameInput(e) == link'[e].incoming = link[e].incoming /\ link'[e].wire = link[e].wire

(* A step that neither takes in hand nor passes anything of a link.        *)
LEMMA SteadyLink ==
  ASSUME TurnsIInv, TurnsTypeOK', script' = script, NEW e \in Links, SameView(e), SameInput(e)
  PROVE  /\ FollowsTo(e, Passed(e))
         /\ Passed(e) \in Nat
         /\ Passed(e)' = Passed(e)
         /\ Handled(e)' = Handled(e)
<1>1. FollowsAt(e)
  BY FollowsNow
<1>2. FollowsTo(e, Passed(e))
  BY <1>1 DEF FollowsAt, FollowsTo, SameView, SameInput
<1>3. Passed(e) \in Nat
  BY <1>1 DEF FollowsAt, Follows
<1>4. Passed(e)' = Passed(e)
  BY <1>2, PassedIs
<1>5. Handled(e)' = Handled(e)
  BY <1>4 DEF Handled, SameView
<1>6. QED
  BY <1>2, <1>3, <1>4, <1>5

(* One message more that was handled.                                      *)
LEMMA SubscribedMore ==
  ASSUME NEW e, NEW q \in Nat
  PROVE  /\ Says(e, q + 1, "subscribTo") => Asked(e, q + 1) = {e}
         /\ Says(e, q + 1, "byeByeEndp") => Asked(e, q + 1) = {}
         /\ ~Says(e, q + 1, "subscribTo") /\ ~Says(e, q + 1, "byeByeEndp") => Asked(e, q + 1) = Asked(e, q)
<1>1. ASSUME Says(e, q + 1, "subscribTo") PROVE Subscribed(e, q + 1)
  <2>1. q + 1 \in 1 .. q + 1 /\ \A k \in q + 1 + 1 .. q + 1 : FALSE
    OBVIOUS
  <2>2. QED
    BY <1>1, <2>1 DEF Subscribed
<1>2. ASSUME Says(e, q + 1, "byeByeEndp") PROVE ~Subscribed(e, q + 1)
  <2>1. SUFFICES ASSUME NEW i \in 1 .. q + 1, Says(e, i, "subscribTo"),
                        \A k \in i + 1 .. q + 1 : ~Says(e, k, "byeByeEndp")
                 PROVE  FALSE
    BY DEF Subscribed
  <2>2. i # q + 1
    BY <1>2, <2>1 DEF Says
  <2>3. q + 1 \in i + 1 .. q + 1
    BY <2>2
  <2>4. QED
    BY <1>2, <2>1, <2>3
<1>3. ASSUME ~Says(e, q + 1, "subscribTo"), ~Says(e, q + 1, "byeByeEndp")
      PROVE  Subscribed(e, q + 1) = Subscribed(e, q)
  <2>1. ASSUME Subscribed(e, q + 1) PROVE Subscribed(e, q)
    <3>1. PICK i \in 1 .. q + 1 : Says(e, i, "subscribTo") /\ \A k \in i + 1 .. q + 1 : ~Says(e, k, "byeByeEndp")
      BY <2>1 DEF Subscribed
    <3>2. i # q + 1
      BY <3>1, <1>3
    <3>3. i \in 1 .. q /\ \A k \in i + 1 .. q : k \in i + 1 .. q + 1
      BY <3>2
    <3>4. QED
      BY <3>1, <3>3 DEF Subscribed
  <2>2. ASSUME Subscribed(e, q) PROVE Subscribed(e, q + 1)
    <3>1. PICK i \in 1 .. q : Says(e, i, "subscribTo") /\ \A k \in i + 1 .. q : ~Says(e, k, "byeByeEndp")
      BY <2>2 DEF Subscribed
    <3>2. i \in 1 .. q + 1 /\ \A k \in i + 1 .. q + 1 : k \in i + 1 .. q \/ k = q + 1
      OBVIOUS
    <3>3. \A k \in i + 1 .. q + 1 : ~Says(e, k, "byeByeEndp")
      BY <3>1, <3>2, <1>3
    <3>4. QED
      BY <3>1, <3>2, <3>3 DEF Subscribed
  <2>3. QED
    BY <2>1, <2>2 DEF Subscribed
<1>4. QED
  BY <1>1, <1>2, <1>3 DEF Asked

(* How the info of an endpoint changes: not at all, or by the message that *)
(* was handled.                                                            *)
InfoSteady(e) == Handled(e)' = Handled(e) /\ subs'[e] = subs[e]
InfoMoves(e) ==
    LET q == Handled(e)
    IN  /\ q \in Nat
        /\ Handled(e)' = q + 1
        /\ \/ Says(e, q + 1, "subscribTo") /\ subs'[e] = subs[e] \cup {e}
           \/ Says(e, q + 1, "byeByeEndp") /\ subs'[e] = {}
           \/ ~Says(e, q + 1, "subscribTo") /\ ~Says(e, q + 1, "byeByeEndp") /\ subs'[e] = subs[e]

(* The infos after a step that handles at most one message of a link.      *)
LEMMA InfosNext ==
  ASSUME TurnsIInv, script' = script, stale => stale',
         ~stale' => \A e \in NodeIds : InfoSteady(e) \/ InfoMoves(e)
  PROVE  InfosFollow'
<1> SUFFICES ASSUME ~stale', NEW e \in NodeIds PROVE subs'[e] = Asked(e, Handled(e)')
  BY DEF InfosFollow, NodeIds, Links, Asked, Subscribed, Says
<1>1. subs[e] = Asked(e, Handled(e))
  BY DEF TurnsIInv, InfosFollow
<1>2. CASE InfoSteady(e)
  BY <1>1, <1>2 DEF InfoSteady
<1>3. CASE InfoMoves(e)
  <2> DEFINE q == Handled(e)
  <2>1. q \in Nat /\ Handled(e)' = q + 1 /\ subs[e] = Asked(e, q)
    BY <1>1, <1>3 DEF InfoMoves
  <2>2. \/ Says(e, q + 1, "subscribTo") /\ subs'[e] = subs[e] \cup {e}
        \/ Says(e, q + 1, "byeByeEndp") /\ subs'[e] = {}
        \/ ~Says(e, q + 1, "subscribTo") /\ ~Says(e, q + 1, "byeByeEndp") /\ subs'[e] = subs[e]
    BY <1>3 DEF InfoMoves
  <2> HIDE DEF q
  <2>3. subs[e] \subseteq {e}
    BY <2>1 DEF Asked
  <2>4. subs'[e] = Asked(e, q + 1)
    BY <2>1, <2>2, <2>3, SubscribedMore
  <2>5. QED
    BY <2>1, <2>4
<1>4. QED
  BY <1>2, <1>3

----------------------------------------------------------------------------
(* The messages of a state after each step: the main thread.               *)

(* A step that touches the messages of one link only.                      *)
LEMMA DataNext ==
  ASSUME TurnsIInv, TurnsTypeOK', script' = script,
         NEW o \in Links, NEW p \in Nat, FollowsTo(o, p), p >= Passed(o),
         \A e \in Links : e # o => SameView(e) /\ SameInput(e),
         stale => stale',
         ~stale' => /\ o \in NodeIds => InfoSteady(o) \/ InfoMoves(o)
                    /\ \A e \in NodeIds : e # o => subs'[e] = subs[e],
         \A l \in Links : Line(l)' = Line(l) \/ \E m \in Messages : LineGrows(l, m)
  PROVE  ScriptsAreFollowed' /\ OrderIsKept' /\ InfosFollow'
<1>1. ASSUME NEW e \in Links, e # o
      PROVE  FollowsTo(e, Passed(e)) /\ Passed(e) \in Nat /\ Passed(e)' = Passed(e) /\ Handled(e)' = Handled(e)
  BY <1>1, SteadyLink
<1>2. Passed(o)' = p /\ Passed(o) \in Int
  BY PassedIs, LengthFacts DEF TurnsIInv
<1>3. ScriptsAreFollowed'
  <2>1. \A e \in Links : \E q \in Nat : FollowsTo(e, q)
    BY <1>1
  <2>2. QED
    BY <2>1, FollowsNext
<1>4. OrderIsKept'
  <2>1. \A e \in NodeIds : Passed(e) \in Int /\ Passed(e)' \in Int /\ Passed(e)' >= Passed(e)
    <3> SUFFICES ASSUME NEW e \in NodeIds
                 PROVE  Passed(e) \in Int /\ Passed(e)' \in Int /\ Passed(e)' >= Passed(e)
      OBVIOUS
    <3>1. e \in Links
      BY DEF NodeIds
    <3>2. CASE e = o
      BY <3>2, <1>2
    <3>3. CASE e # o
      BY <3>1, <3>3, <1>1
    <3>4. QED
      BY <3>2, <3>3
  <2>2. QED
    BY <2>1, OrderNext
<1>5. InfosFollow'
  <2>1. ASSUME ~stale', NEW e \in NodeIds PROVE InfoSteady(e) \/ InfoMoves(e)
    <3>1. e \in Links
      BY DEF NodeIds
    <3>2. CASE e = o
      BY <2>1, <3>2
    <3>3. CASE e # o
      BY <2>1, <3>1, <3>3, <1>1 DEF InfoSteady
    <3>4. QED
      BY <3>2, <3>3
  <2>2. QED
    BY <2>1, InfosNext
<1>6. QED
  BY <1>3, <1>4, <1>5

(* Steps that leave what is in hand and what is to come as it is.          *)
LEMMA DataSteady ==
  ASSUME TurnsIInv, TurnsTypeOK', script' = script, subs' = subs, stale' = stale,
         \A e \in Links : SameView(e) /\ SameInput(e),
         \A l \in Links : Line(l)' = Line(l) \/ \E m \in Messages : LineGrows(l, m)
  PROVE  ScriptsAreFollowed' /\ OrderIsKept' /\ InfosFollow'
<1>1. Own \in Links
  BY LinkFacts DEF TurnsIInv
<1>2. FollowsTo(Own, Passed(Own)) /\ Passed(Own) \in Nat
  BY <1>1, SteadyLink
<1>3. Own \notin NodeIds
  BY DEF NodeIds
<1> DEFINE p == Passed(Own)
<1>4. p \in Nat /\ p >= Passed(Own) /\ FollowsTo(Own, p)
  BY <1>2
<1> HIDE DEF p
<1>5. QED
  BY <1>1, <1>3, <1>4, DataNext

LEMMA LinksSteady ==
  ASSUME link' = link
  PROVE  /\ \A e : SameInput(e)
         /\ \A l : Line(l)' = Line(l)
  BY DEF SameInput, Line

LEMMA JobsSteady ==
  ASSUME job' = job
  PROVE  \A e : SameView(e)
  BY DEF SameView, JobOf, Sending, Busy, Threads, Idle

LEMMA WaitData ==
  ASSUME TurnsIInv, WaitRouted \/ WaitUpdated
  PROVE  ScriptsAreFollowed' /\ OrderIsKept' /\ InfosFollow'
<1>1. UNCHANGED <<script, job, link, subs, stale>>
  BY DEF WaitRouted, WaitUpdated, tables
<1>2. TurnsTypeOK'
  BY WaitType
<1>3. QED
  BY <1>1, <1>2, LinksSteady, JobsSteady, DataSteady

LEMMA AppendBehind ==
  ASSUME NEW a \in Seq(Messages), NEW b \in Seq(Messages), NEW m \in Messages
  PROVE  a \o Append(b, m) = Append(a \o b, m)
<1>1. <<m>> \in Seq(Messages) /\ a \o b \in Seq(Messages)
  OBVIOUS
<1>2. Append(b, m) = b \o <<m>>
  BY AppendIsConcat
<1>3. Append(a \o b, m) = (a \o b) \o <<m>>
  BY <1>1, AppendIsConcat
<1>4. (a \o b) \o <<m>> = a \o (b \o <<m>>)
  BY <1>1, ConcatAssociative
<1>5. QED
  BY <1>2, <1>3, <1>4

LEMMA MaintainData ==
  ASSUME TurnsIInv, Maintain
  PROVE  ScriptsAreFollowed' /\ OrderIsKept' /\ InfosFollow'
<1>1. UNCHANGED <<script, job, subs, stale>>
  BY DEF Maintain
<1>2. PICK changed \in BOOLEAN : link' = SendFlowInfo(changed)
  BY DEF Maintain
<1>3. TurnsTypeOK /\ TurnsTypeOK'
  BY MaintainType DEF TurnsIInv
<1>4. CASE link' = link
  BY <1>1, <1>3, <1>4, LinksSteady, JobsSteady, DataSteady
<1>5. CASE link' = [l \in Links |-> IF l \in Nodes
                     THEN [link[l] EXCEPT !.out = Append(@, FlowInfo(l))] ELSE link[l]]
  <2>1. ASSUME NEW l \in Links
        PROVE  SameInput(l) /\ (Line(l)' = Line(l) \/ \E m \in Messages : LineGrows(l, m))
    <3>1. link[l] \in [wire : Seq(Messages), incoming : Seq(Messages), out : Seq(Messages), got : Seq(Messages)]
      BY <1>3 DEF TurnsTypeOK
    <3>2. CASE l \notin Nodes
      <4>1. link'[l] = link[l]
        BY <1>5, <3>2
      <4>2. QED
        BY <4>1 DEF SameInput, Line
    <3>3. CASE l \in Nodes
      <4> DEFINE m == FlowInfo(l)
      <4>1. m \in Messages
        BY <1>3, OwnMessages, LinkFacts
      <4>2. m.source = Own
        BY DEF FlowInfo
      <4>3. link'[l] = [link[l] EXCEPT !.out = Append(@, m)]
        BY <1>5, <3>3
      <4> HIDE DEF m
      <4>4. /\ link'[l].incoming = link[l].incoming
            /\ link'[l].wire = link[l].wire
            /\ link'[l].got = link[l].got
            /\ link'[l].out = Append(link[l].out, m)
        BY <4>3, <3>1
      <4>5. link[l].got \o Append(link[l].out, m) = Append(link[l].got \o link[l].out, m)
        BY <3>1, <4>1, AppendBehind
      <4>6. LineGrows(l, m)
        BY <4>2, <4>4, <4>5 DEF LineGrows, Line, NodeIds
      <4>7. QED
        BY <4>1, <4>4, <4>6 DEF SameInput
    <3>4. QED
      BY <3>2, <3>3
  <2>2. QED
    BY <2>1, <1>1, <1>3, JobsSteady, DataSteady
<1>6. QED
  BY <1>2, <1>4, <1>5 DEF SendFlowInfo

----------------------------------------------------------------------------
(* The messages of a state after each step: a unit begins or ends.         *)

LEMMA IdleIsNotBusy ==
  ASSUME NEW t, job[t] = Idle
  PROVE  ~Busy(t)
  BY IdleView DEF Busy

LEMMA UnitData ==
  ASSUME TurnsIInv, TurnsTypeOK', UnitsAreApart', NEW t \in Threads,
         \A u \in Threads : u # t => job'[u] = job[u],
         Busy(t) => job[t].batch = <<>> /\ job[t].at # "send",
         Busy(t)' => job'[t].batch = <<>> /\ job'[t].at # "send",
         UNCHANGED <<script, link, subs, stale>>
  PROVE  ScriptsAreFollowed' /\ OrderIsKept' /\ InfosFollow'
<1>1. \A e \in Links : SameView(e)
  BY ViewOfUnit
<1>2. QED
  BY <1>1, LinksSteady, DataSteady

LEMMA EnqueueData ==
  ASSUME TurnsIInv, EnqueueUnit
  PROVE  ScriptsAreFollowed' /\ OrderIsKept' /\ InfosFollow'
<1>1. UNCHANGED <<script, link, subs, stale>> /\ job[Main] = Idle
  BY DEF EnqueueUnit, tables
<1>2. TurnsTypeOK' /\ UnitsAreApart'
  BY EnqueueType, EnqueueUnits
<1>3. CASE useWorkers
  <2>1. job' = job
    BY <1>3, EnqueueFacts
  <2>2. QED
    BY <2>1, <1>1, <1>2, LinksSteady, JobsSteady, DataSteady
<1>4. CASE ~useWorkers
  <2> DEFINE n == Least(todo)
             k == Begun(phase, n)
  <2>1. job' = [job EXCEPT ![Main] = k]
    BY <1>4, EnqueueFacts
  <2>2. phase \in {"route", "update"} /\ n \in Nat
    BY EnqueueFacts, LinkFacts DEF EnqueueUnit, TurnsIInv
  <2>3. k.batch = <<>> /\ k.at = "take"
    BY <2>2, BegunIsJob
  <2>4. Main \in Threads /\ job \in [Threads -> Jobs]
    BY JobType DEF Threads
  <2> HIDE DEF k
  <2>5. job'[Main] = k /\ \A u \in Threads : u # Main => job'[u] = job[u]
    BY <2>1, <2>4
  <2>6. ~Busy(Main)
    BY <1>1, IdleIsNotBusy
  <2>7. QED
    BY <1>1, <1>2, <2>3, <2>4, <2>5, <2>6, UnitData
<1>5. QED
  BY <1>3, <1>4

LEMMA ParentData ==
  ASSUME TurnsIInv, ServeParent
  PROVE  ScriptsAreFollowed' /\ OrderIsKept' /\ InfosFollow'
<1>1. UNCHANGED <<script, link, subs, stale>> /\ job[Main] = Idle
  BY DEF ServeParent, tables
<1>2. TurnsTypeOK' /\ UnitsAreApart'
  BY ParentType, ParentUnits
<1> DEFINE k == Begun(phase, Own)
<1>3. job' = [job EXCEPT ![Main] = k]
  BY DEF ServeParent
<1>4. phase \in {"route", "update"} /\ Own \in Nat
  BY LinkFacts DEF ServeParent, TurnsIInv
<1>5. k.batch = <<>> /\ k.at = "take"
  BY <1>4, BegunIsJob
<1>6. Main \in Threads /\ job \in [Threads -> Jobs]
  BY JobType DEF Threads
<1> HIDE DEF k
<1>7. job'[Main] = k /\ \A u \in Threads : u # Main => job'[u] = job[u]
  BY <1>3, <1>6
<1>8. ~Busy(Main)
  BY <1>1, IdleIsNotBusy
<1>9. QED
  BY <1>1, <1>2, <1>5, <1>6, <1>7, <1>8, UnitData

LEMMA TakeData ==
  ASSUME TurnsIInv, NEW w \in Workers, TakeUnit(w)
  PROVE  ScriptsAreFollowed' /\ OrderIsKept' /\ InfosFollow'
<1>1. UNCHANGED <<script, link, subs, stale>> /\ job[w] = Idle
  BY DEF TakeUnit, tables
<1>2. w \in Threads
  BY DEF Threads
<1>3. TurnsTypeOK' /\ UnitsAreApart'
  BY <1>2, TakeType, TakeUnits
<1>4. job' = [job EXCEPT ![w] = Head(queue)] /\ queue # <<>>
  BY DEF TakeUnit
<1>5. Head(queue).at = "take" /\ Head(queue).batch = <<>>
  <2>1. 1 \in DOMAIN queue /\ Head(queue) = queue[1]
    BY <1>4, QueueFacts
  <2>2. queue[1].at = "take" /\ JobIsSound(queue[1])
    BY <2>1 DEF TurnsIInv, JobsAreSound
  <2>3. QED
    BY <2>1, <2>2 DEF JobIsSound
<1>6. job \in [Threads -> Jobs]
  BY <1>2, JobType
<1>7. job'[w] = Head(queue) /\ \A u \in Threads : u # w => job'[u] = job[u]
  BY <1>2, <1>4, <1>6
<1>8. ~Busy(w)
  BY <1>1, IdleIsNotBusy
<1>9. QED
  BY <1>1, <1>2, <1>3, <1>5, <1>7, <1>8, UnitData

LEMMA FinishJob ==
  ASSUME TurnsIInv, NEW t \in Threads, Finish(t)
  PROVE  /\ job'[t] = Idle
         /\ \A u \in Threads : u # t => job'[u] = job[u]
         /\ ~Busy(t)'
<1>1. job \in [Threads -> Jobs]
  BY JobType
<1>2. job'[t] = Idle /\ \A u \in Threads : u # t => job'[u] = job[u]
  BY <1>1 DEF Finish
<1>3. QED
  BY <1>2, IdleView DEF Busy

LEMMA RouteDoneData ==
  ASSUME TurnsIInv, NEW t \in Threads, RouteDone(t)
  PROVE  ScriptsAreFollowed' /\ OrderIsKept' /\ InfosFollow'
<1>1. UNCHANGED <<script, link, subs, stale>> /\ Finish(t) /\ job[t].batch = <<>> /\ job[t].at = "next"
  BY DEF RouteDone, tables
<1>2. TurnsTypeOK' /\ UnitsAreApart'
  BY RouteDoneType, RouteDoneUnits
<1>3. QED
  BY <1>1, <1>2, FinishJob, UnitData

LEMMA UpdateData ==
  ASSUME TurnsIInv, NEW t \in Threads, UpdateConnection(t)
  PROVE  ScriptsAreFollowed' /\ OrderIsKept' /\ InfosFollow'
<1>1. /\ UNCHANGED <<script, subs, stale>>
      /\ Finish(t)
      /\ job[t].at = "take"
  BY DEF UpdateConnection, tables
<1>2. TurnsTypeOK' /\ UnitsAreApart' /\ TurnsTypeOK
  BY UpdateType, UpdateUnits DEF TurnsIInv
<1>3. Busy(t) /\ job[t].batch = <<>>
  <2>1. JobIsSound(job[t])
    BY DEF TurnsIInv, JobsAreSound
  <2>2. QED
    BY <1>1, <2>1 DEF JobIsSound, Busy
<1>4. \A e \in Links : SameView(e)
  BY <1>1, <1>2, <1>3, FinishJob, ViewOfUnit
<1>5. PICK o \in Links : o = job[t].of
  BY <1>3, OfFacts DEF TurnsIInv
<1>6. /\ link[o] \in [wire : Seq(Messages), incoming : Seq(Messages), out : Seq(Messages), got : Seq(Messages)]
      /\ link' = [link EXCEPT ![o] =
            [wire |-> <<>>, incoming |-> @.incoming \o @.wire, out |-> <<>>, got |-> @.got \o @.out]]
      /\ DOMAIN link = Links
  BY <1>2, <1>5 DEF UpdateConnection, TurnsTypeOK
<1>7. /\ link'[o].wire = <<>>
      /\ link'[o].incoming = link[o].incoming \o link[o].wire
      /\ link'[o].out = <<>>
      /\ link'[o].got = link[o].got \o link[o].out
      /\ \A e \in Links : e # o => link'[e] = link[e]
  BY <1>5, <1>6
<1>8. \A l \in Links : Line(l)' = Line(l)
  <2> SUFFICES ASSUME NEW l \in Links PROVE Line(l)' = Line(l)
    OBVIOUS
  <2>1. CASE l # o
    BY <2>1, <1>7 DEF Line
  <2>2. CASE l = o
    <3>1. link[o].got \o link[o].out \in Seq(Messages)
      BY <1>6
    <3>2. (link[o].got \o link[o].out) \o <<>> = link[o].got \o link[o].out
      BY <3>1, ConcatEmptySeq
    <3>3. QED
      BY <2>2, <3>2, <1>7 DEF Line
  <2>3. QED
    BY <2>1, <2>2
<1>9. FollowsAt(o) /\ Passed(o) \in Nat
  BY FollowsNow DEF FollowsAt, Follows
<1>10. FollowsTo(o, Passed(o))
  <2> DEFINE s == script[o]
             p == Passed(o)
             b == JobOf(o).batch
             i == link[o].incoming
             w == link[o].wire
  <2>1. /\ s \in Seq(Messages) /\ b \in Seq(Messages) /\ i \in Seq(Messages) /\ w \in Seq(Messages)
    BY <1>2, LinkFacts, LengthFacts
  <2>2. Follows(s, p, b, i, w)
    BY <1>9 DEF FollowsAt
  <2> HIDE DEF s, p, b, i, w
  <2>3. Follows(s, p, b, i \o w, <<>>)
    BY <2>1, <2>2, FollowsUpdate
  <2>4. JobOf(o)'.batch = b
    BY <1>4 DEF SameView, b
  <2>5. QED
    BY <2>3, <2>4, <1>7 DEF FollowsTo, s, p, b, i, w
<1>11. Passed(o)' = Passed(o)
  BY <1>1, <1>2, <1>10, PassedIs
<1>12. InfoSteady(o)
  BY <1>1, <1>4, <1>11 DEF InfoSteady, Handled, SameView
<1>13. \A e \in Links : e # o => SameView(e) /\ SameInput(e)
  BY <1>4, <1>7 DEF SameInput
<1> DEFINE p == Passed(o)
<1>14. p \in Nat /\ p >= Passed(o) /\ FollowsTo(o, p)
  BY <1>9, <1>10
<1> HIDE DEF p
<1>15. QED
  BY <1>1, <1>2, <1>8, <1>12, <1>13, <1>14, DataNext

----------------------------------------------------------------------------
(* The messages of a state after each step: one message is handled.        *)

(* What a unit has in hand, before a step.                                 *)
LEMMA InHandNow ==
  ASSUME TurnsIInv, NEW t \in Threads, Busy(t), NEW o \in Links, job[t].of = o
  PROVE  /\ Follows(script[o], Passed(o), job[t].batch, link[o].incoming, link[o].wire)
         /\ Passed(o) \in Nat
         /\ job[t].at = "send" /\ job[t].answers = 0 => Handled(o) = Passed(o) + 1
         /\ ~(job[t].at = "send" /\ job[t].answers = 0) => Handled(o) = Passed(o)
         /\ script[o] \in Seq(Messages)
         /\ link[o].incoming \in Seq(Messages)
         /\ link[o].wire \in Seq(Messages)
         /\ job[t].batch \in Seq(Messages)
<1>1. JobOf(o) = job[t]
  BY JobOfBusy DEF TurnsIInv
<1>2. Follows(script[o], Passed(o), job[t].batch, link[o].incoming, link[o].wire)
  BY <1>1, FollowsNow DEF FollowsAt
<1>3. Passed(o) \in Nat
  BY <1>2 DEF Follows
<1>4. Sending(o) = (job[t].at = "send" /\ job[t].answers = 0)
  BY <1>1 DEF Sending
<1>5. /\ job[t].at = "send" /\ job[t].answers = 0 => Handled(o) = Passed(o) + 1
      /\ ~(job[t].at = "send" /\ job[t].answers = 0) => Handled(o) = Passed(o)
  BY <1>3, <1>1 DEF Handled, Sending
<1>6. TurnsTypeOK
  BY DEF TurnsIInv
<1>7. script[o] \in Seq(Messages) /\ link[o].incoming \in Seq(Messages) /\ link[o].wire \in Seq(Messages)
  BY <1>6, LinkFacts, LengthFacts
<1>8. QED
  BY <1>2, <1>3, <1>5, <1>7, JobType

(* What it has in hand after the step.                                     *)
LEMMA InHandNext ==
  ASSUME TurnsIInv, TurnsTypeOK', UnitsAreApart', script' = script,
         NEW t \in Threads, Busy(t), NEW o \in Links, job[t].of = o,
         NEW at \in {"next", "add", "send"}, NEW b, NEW n, Becomes(t, at, b, n),
         NEW p \in Nat, Follows(script[o], p, b, link'[o].incoming, link'[o].wire)
  PROVE  /\ FollowsTo(o, p)
         /\ Passed(o)' = p
         /\ at = "send" /\ n = 0 => Handled(o)' = p + 1
         /\ ~(at = "send" /\ n = 0) => Handled(o)' = p
         /\ \A e \in Links : e # o => SameView(e)
<1>1. /\ JobOf(o)'.batch = b
      /\ Sending(o)' = (at = "send" /\ n = 0)
      /\ \A e \in Links : e # o => SameView(e)
  BY ViewInUnit
<1>2. FollowsTo(o, p)
  BY <1>1 DEF FollowsTo
<1>3. Passed(o)' = p
  BY <1>2, PassedIs
<1>4. /\ at = "send" /\ n = 0 => Handled(o)' = p + 1
      /\ ~(at = "send" /\ n = 0) => Handled(o)' = p
  BY <1>1, <1>3 DEF Handled, Sending
<1>5. QED
  BY <1>1, <1>2, <1>3, <1>4

(* The message in hand is the next of the script.                          *)
LEMMA HeadFacts ==
  ASSUME TurnsIInv, NEW t \in Threads, Busy(t), job[t].batch # <<>>, NEW o \in Links, job[t].of = o
  PROVE  /\ Passed(o) + 1 \in DOMAIN script[o]
         /\ Head(job[t].batch).source = script[o][Passed(o) + 1].source
         /\ Head(job[t].batch).number = script[o][Passed(o) + 1].number
         /\ Head(job[t].batch).kind # "cast" => script[o][Passed(o) + 1].kind = Head(job[t].batch).kind
         /\ Head(job[t].batch).kind = "cast" => script[o][Passed(o) + 1].kind \in {"cast", "topoQuery"}
         /\ Head(job[t].batch).source \in NodeIds => Head(job[t].batch).source = o
<1>1. TurnsTypeOK /\ UnitsAreApart /\ ScriptsAreFollowed
  BY DEF TurnsIInv
<1>2. Passed(o) + 1 \in DOMAIN script[o] /\ Same(Head(job[t].batch), script[o][Passed(o) + 1])
  BY <1>1, CurrentFacts
<1>3. Head(job[t].batch).source \in NodeIds => Head(job[t].batch).source = o
  BY <1>1, CurrentSource
<1>4. QED
  BY <1>2, <1>3 DEF Same

(* A step of a unit that sends nothing and fetches nothing.                *)
LEMMA QuietStep ==
  ASSUME TurnsIInv, TurnsTypeOK', UnitsAreApart', UNCHANGED <<script, link>>,
         NEW t \in Threads, Busy(t), NEW o \in Links, job[t].of = o,
         NEW at \in {"next", "add", "send"}, NEW b, NEW n, Becomes(t, at, b, n),
         NEW p \in Nat, Follows(script[o], p, b, link[o].incoming, link[o].wire), p >= Passed(o),
         stale => stale',
         ~stale' => /\ o \in NodeIds => InfoSteady(o) \/ InfoMoves(o)
                    /\ \A e \in NodeIds : e # o => subs'[e] = subs[e]
  PROVE  ScriptsAreFollowed' /\ OrderIsKept' /\ InfosFollow'
<1>1. FollowsTo(o, p) /\ \A e \in Links : e # o => SameView(e)
  BY InHandNext
<1>2. \A e \in Links : e # o => SameView(e) /\ SameInput(e)
  BY <1>1, LinksSteady
<1>3. \A l \in Links : Line(l)' = Line(l)
  BY LinksSteady
<1>4. QED
  BY <1>1, <1>2, <1>3, DataNext

(* Nothing was handled yet: the next message is looked at, or the router   *)
(* looks for where an answer goes.                                         *)
LEMMA LookStep ==
  ASSUME TurnsIInv, TurnsTypeOK', UnitsAreApart', UNCHANGED <<script, link, subs, stale>>,
         NEW t \in Threads, Busy(t), ~(job[t].at = "send" /\ job[t].answers = 0), NEW o \in Links, job[t].of = o,
         NEW at \in {"next", "add", "send"}, NEW n, Becomes(t, at, job[t].batch, n),
         ~(at = "send" /\ n = 0)
  PROVE  ScriptsAreFollowed' /\ OrderIsKept' /\ InfosFollow'
<1> DEFINE p == Passed(o)
           b == job[t].batch
<1>1. p \in Nat /\ Follows(script[o], p, b, link[o].incoming, link[o].wire) /\ Handled(o) = p /\ p >= Passed(o)
  BY InHandNow
<1> HIDE DEF p, b
<1>2. Handled(o)' = p
  BY <1>1, InHandNext DEF b
<1>3. InfoSteady(o)
  BY <1>1, <1>2 DEF InfoSteady
<1>4. QED
  BY <1>1, <1>3, QuietStep DEF b

(* The message in hand is neither a subscription nor a bye-bye, and it is  *)
(* handled: it is dropped, or on its way.                                  *)
LEMMA NeutralMoves ==
  ASSUME TurnsIInv, NEW t \in Threads, Busy(t), job[t].batch # <<>>,
         ~(job[t].at = "send" /\ job[t].answers = 0), NEW o \in Links, job[t].of = o,
         Head(job[t].batch).kind \notin {"subscribTo", "byeByeEndp"},
         Handled(o)' = Passed(o) + 1, subs' = subs
  PROVE  InfoMoves(o)
<1>1. Handled(o) = Passed(o) /\ Passed(o) \in Nat
  BY InHandNow
<1>2. script[o][Passed(o) + 1].kind \notin {"subscribTo", "byeByeEndp"}
  BY HeadFacts
<1>3. ~Says(o, Passed(o) + 1, "subscribTo") /\ ~Says(o, Passed(o) + 1, "byeByeEndp")
  BY <1>2 DEF Says
<1>4. QED
  BY <1>1, <1>3 DEF InfoMoves

(* A message that changes no info goes on.                                 *)
LEMMA GoOnStep ==
  ASSUME TurnsIInv, TurnsTypeOK', UnitsAreApart', UNCHANGED <<script, link, subs, stale>>,
         NEW t \in Threads, Busy(t), job[t].at = "next", job[t].batch # <<>>,
         NEW o \in Links, job[t].of = o,
         Head(job[t].batch).kind \notin {"subscribTo", "byeByeEndp"},
         Becomes(t, "send", job[t].batch, 0)
  PROVE  ScriptsAreFollowed' /\ OrderIsKept' /\ InfosFollow'
<1> DEFINE p == Passed(o)
           b == job[t].batch
<1>1. p \in Nat /\ Follows(script[o], p, b, link[o].incoming, link[o].wire) /\ p >= Passed(o)
  BY InHandNow
<1> HIDE DEF p, b
<1>2. Becomes(t, "send", b, 0)
  BY DEF b
<1>3. Handled(o)' = p + 1
  BY <1>1, <1>2, InHandNext
<1>4. InfoMoves(o)
  BY <1>3, NeutralMoves DEF p
<1>5. QED
  BY <1>1, <1>2, <1>4, QuietStep

(* A message that changes no info is dropped, or answered instead, or it   *)
(* came from the parent.                                                   *)
LEMMA DropStep ==
  ASSUME TurnsIInv, TurnsTypeOK', UnitsAreApart', UNCHANGED <<script, link, subs, stale>>,
         NEW t \in Threads, Busy(t), job[t].at = "next", job[t].batch # <<>>,
         NEW o \in Links, job[t].of = o,
         Head(job[t].batch).kind \notin {"subscribTo", "byeByeEndp"} \/ o = Own,
         NEW n, Becomes(t, "next", Tail(job[t].batch), n)
  PROVE  ScriptsAreFollowed' /\ OrderIsKept' /\ InfosFollow'
<1> DEFINE p == Passed(o) + 1
           b == Tail(job[t].batch)
           s == script[o]
           i == link[o].incoming
           w == link[o].wire
<1>1. p \in Nat /\ p >= Passed(o) /\ Follows(s, p, b, i, w)
  <2> DEFINE q == Passed(o)
             c == job[t].batch
  <2>1. q \in Nat /\ Follows(s, q, c, i, w) /\ s \in Seq(Messages) /\ i \in Seq(Messages)
        /\ w \in Seq(Messages) /\ c \in Seq(Messages) /\ c # <<>>
    BY InHandNow
  <2> HIDE DEF q, c, s, i, w
  <2>2. Follows(s, q + 1, Tail(c), i, w)
    BY <2>1, FollowsDrop
  <2>3. q + 1 \in Nat /\ q + 1 >= q
    BY <2>1
  <2>4. QED
    BY <2>2, <2>3 DEF q, c
<1> HIDE DEF p, b
<1>2. Becomes(t, "next", b, n)
  BY DEF b
<1>3. Handled(o)' = p
  BY <1>1, <1>2, InHandNext
<1>4. o \in NodeIds => InfoMoves(o)
  <2>1. o \in NodeIds => Head(job[t].batch).kind \notin {"subscribTo", "byeByeEndp"}
    BY DEF NodeIds
  <2>2. QED
    BY <1>3, <2>1, NeutralMoves DEF p
<1>5. QED
  BY <1>1, <1>2, <1>4, QuietStep

LEMMA UpdateInfoData ==
  ASSUME TurnsIInv, NEW t \in Threads, UpdateEndpointInfo(t)
  PROVE  ScriptsAreFollowed' /\ OrderIsKept' /\ InfosFollow'
<1>1. IsNext(t, {"subscribTo"}) /\ UNCHANGED <<script, link, subs, stale>>
  BY DEF UpdateEndpointInfo
<1>2. Busy(t) /\ job[t].at = "next" /\ job[t].of \in Links
  BY <1>1, NextMessage
<1>3. PICK o \in Links : job[t].of = o
  BY <1>2
<1>4. TurnsTypeOK' /\ UnitsAreApart' /\ Becomes(t, "add", job[t].batch, 0)
  BY UpdateInfoType, UpdateInfoBecomes, HandlingUnits
<1>5. QED
  BY <1>1, <1>2, <1>3, <1>4, LookStep

LEMMA OutgoingData ==
  ASSUME TurnsIInv, NEW t \in Threads, FindOutgoing(t)
  PROVE  ScriptsAreFollowed' /\ OrderIsKept' /\ InfosFollow'
<1>1. UNCHANGED <<script, link, subs, stale>>
  BY DEF FindOutgoing, tables
<1>2. /\ Busy(t)
      /\ job[t].at = "next"
      /\ job[t].of \in Links
      /\ ~Answering(t) => /\ job[t].batch # <<>>
                          /\ job[t].answers = 0
                          /\ Message(t) = Head(job[t].batch)
                          /\ Message(t).kind \in {"data", "answer", "ping"}
      /\ Becomes(t, "send", job[t].batch, job[t].answers)
  BY OutgoingBecomes
<1>3. PICK o \in Links : job[t].of = o
  BY <1>2
<1>4. TurnsTypeOK' /\ UnitsAreApart'
  BY OutgoingType, HandlingUnits
<1>5. CASE Answering(t)
  <2>1. PICK n \in Nat : n = job[t].answers
    BY JobType
  <2>2. Becomes(t, "send", job[t].batch, n)
    BY <1>2, <2>1 DEF Becomes
  <2>3. n # 0
    BY <1>5, <2>1 DEF Answering
  <2>4. Busy(t) /\ ~(job[t].at = "send" /\ job[t].answers = 0)
    BY <1>2
  <2>5. QED
    BY <1>1, <1>3, <1>4, <2>2, <2>3, <2>4, LookStep
<1>6. CASE ~Answering(t)
  <2>1. Becomes(t, "send", job[t].batch, 0)
    BY <1>2, <1>6
  <2>2. Head(job[t].batch).kind \notin {"subscribTo", "byeByeEndp"} /\ job[t].batch # <<>>
    BY <1>2, <1>6
  <2>3. QED
    BY <1>1, <1>2, <1>3, <1>4, <2>1, <2>2, GoOnStep
<1>7. QED
  BY <1>5, <1>6

LEMMA BroadcastData ==
  ASSUME TurnsIInv, NEW t \in Threads, Broadcast(t)
  PROVE  ScriptsAreFollowed' /\ OrderIsKept' /\ InfosFollow'
<1>1. UNCHANGED <<script, link, subs, stale>> /\ IsNext(t, {"cast", "notARouter"})
  BY DEF Broadcast, tables
<1>2. /\ Busy(t) /\ job[t].at = "next" /\ job[t].batch # <<>> /\ job[t].of \in Links
      /\ Head(job[t].batch).kind \in {"cast", "notARouter"}
  BY <1>1, NextMessage
<1>3. PICK o \in Links : job[t].of = o
  BY <1>2
<1>4. TurnsTypeOK' /\ UnitsAreApart' /\ Becomes(t, "send", job[t].batch, 0)
  BY BroadcastType, BroadcastBecomes, HandlingUnits
<1>5. QED
  BY <1>1, <1>2, <1>3, <1>4, GoOnStep

LEMMA NotRouterData ==
  ASSUME TurnsIInv, NEW t \in Threads, HandleNotARouter(t)
  PROVE  ScriptsAreFollowed' /\ OrderIsKept' /\ InfosFollow'
<1>1. UNCHANGED <<script, link, subs, stale>> /\ IsNext(t, {"notARouter"})
  BY DEF HandleNotARouter
<1>2. /\ Busy(t) /\ job[t].at = "next" /\ job[t].batch # <<>> /\ job[t].of \in Links
      /\ Head(job[t].batch).kind = "notARouter"
  BY <1>1, NextMessage
<1>3. PICK o \in Links : job[t].of = o
  BY <1>2
<1>4. TurnsTypeOK' /\ UnitsAreApart' /\ Becomes(t, "next", Tail(job[t].batch), 0)
  BY NotRouterType, NotRouterBecomes, HandlingUnits
<1>5. QED
  BY <1>1, <1>2, <1>3, <1>4, DropStep

LEMMA LogData ==
  ASSUME TurnsIInv, NEW t \in Threads, LogByeBye(t)
  PROVE  ScriptsAreFollowed' /\ OrderIsKept' /\ InfosFollow'
<1>1. UNCHANGED <<script, link, subs, stale>> /\ IsNext(t, {"byeByeEndp"}) /\ job[t].of = Own
  BY DEF LogByeBye, tables
<1>2. Busy(t) /\ job[t].at = "next" /\ job[t].batch # <<>> /\ job[t].of \in Links
  BY <1>1, NextMessage
<1>3. PICK o \in Links : job[t].of = o
  BY <1>2
<1>4. TurnsTypeOK' /\ UnitsAreApart' /\ Becomes(t, "next", Tail(job[t].batch), 0)
  BY LogType, LogBecomes, HandlingUnits
<1>5. QED
  BY <1>1, <1>2, <1>3, <1>4, DropStep

LEMMA PingData ==
  ASSUME TurnsIInv, NEW t \in Threads, HandlePing(t)
  PROVE  ScriptsAreFollowed' /\ OrderIsKept' /\ InfosFollow'
<1>1. UNCHANGED <<script, link, subs, stale>> /\ IsNext(t, {"ping"})
  BY DEF HandlePing, tables
<1>2. /\ Busy(t) /\ job[t].at = "next" /\ job[t].batch # <<>> /\ job[t].of \in Links
      /\ Head(job[t].batch).kind = "ping"
  BY <1>1, NextMessage
<1>3. PICK o \in Links : job[t].of = o
  BY <1>2
<1>4. TurnsTypeOK' /\ UnitsAreApart' /\ Becomes(t, "next", Tail(job[t].batch), 1)
  BY PingType, PingBecomes, HandlingUnits
<1>5. QED
  BY <1>1, <1>2, <1>3, <1>4, DropStep

LEMMA TopologyData ==
  ASSUME TurnsIInv, NEW t \in Threads, HandleTopologyQuery(t)
  PROVE  ScriptsAreFollowed' /\ OrderIsKept' /\ InfosFollow'
<1>1. UNCHANGED <<script, link, subs, stale>> /\ IsNext(t, {"topoQuery"})
  BY DEF HandleTopologyQuery, tables
<1>2. /\ Busy(t) /\ job[t].at = "next" /\ job[t].batch # <<>> /\ job[t].of \in Links
      /\ Head(job[t].batch).kind = "topoQuery"
  BY <1>1, NextMessage
<1>3. PICK o \in Links : job[t].of = o
  BY <1>2
<1>4. TurnsTypeOK' /\ UnitsAreApart'
  BY TopologyType, HandlingUnits
<1> DEFINE m == [Head(job[t].batch) EXCEPT !.kind = "cast"]
           b == <<m>> \o Tail(job[t].batch)
           n == Cardinality(Nodes) + 1
           p == Passed(o)
<1>5. Becomes(t, "next", b, n) /\ m \in Messages
  BY TopologyBecomes
<1>6. p \in Nat /\ p >= Passed(o) /\ Handled(o) = p
  BY <1>2, <1>3, InHandNow
<1>7. Follows(script[o], p, b, link[o].incoming, link[o].wire)
  <2> DEFINE s == script[o]
             i == link[o].incoming
             w == link[o].wire
             c == job[t].batch
             h == [Head(c) EXCEPT !.kind = "cast"]
  <2>1. Follows(s, p, c, i, w) /\ s \in Seq(Messages) /\ i \in Seq(Messages)
        /\ w \in Seq(Messages) /\ c \in Seq(Messages) /\ c # <<>> /\ Head(c).kind = "topoQuery"
    BY <1>2, <1>3, InHandNow
  <2>2. h \in Messages
    BY <1>5
  <2> HIDE DEF p, c, s, i, w
  <2>3. Follows(s, p, <<h>> \o Tail(c), i, w)
    BY <2>1, <2>2, FollowsCast
  <2>4. QED
    BY <2>3 DEF p, c, s, i, w
<1> HIDE DEF b, p, n
<1>8. Handled(o)' = p
  BY <1>1, <1>2, <1>3, <1>4, <1>5, <1>6, <1>7, InHandNext
<1>9. InfoSteady(o)
  BY <1>1, <1>6, <1>8 DEF InfoSteady
<1>10. QED
  BY <1>1, <1>2, <1>3, <1>4, <1>5, <1>6, <1>7, <1>9, QuietStep

(* A subscription or a bye-bye in hand changes the info of its source.     *)
LEMMA AddData ==
  ASSUME TurnsIInv, NEW t \in Threads, AddSubscription(t)
  PROVE  ScriptsAreFollowed' /\ OrderIsKept' /\ InfosFollow'
<1>1. UNCHANGED <<script, link>>
  BY DEF AddSubscription
<1>2. /\ Busy(t)
      /\ job[t].at = "add"
      /\ job[t].batch # <<>>
      /\ Message(t) = Head(job[t].batch)
      /\ Message(t).kind = "subscribTo"
      /\ job[t].of \in Links
      /\ Becomes(t, "send", job[t].batch, 0)
  BY AddBecomes
<1>3. PICK o \in Links : job[t].of = o
  BY <1>2
<1>4. TurnsTypeOK' /\ UnitsAreApart' /\ TurnsTypeOK
  BY AddType, HandlingUnits DEF TurnsIInv
<1> DEFINE p == Passed(o)
           b == job[t].batch
           m == Head(job[t].batch)
<1>5. p \in Nat /\ Follows(script[o], p, b, link[o].incoming, link[o].wire) /\ p >= Passed(o) /\ Handled(o) = p
  BY <1>2, <1>3, InHandNow
<1>6. /\ m.source = script[o][p + 1].source
      /\ script[o][p + 1].kind = "subscribTo"
      /\ m.source \in NodeIds => m.source = o
  BY <1>2, <1>3, HeadFacts
<1>7. stale' = (stale \/ job[t].moved)
  BY DEF AddSubscription
<1>8. ASSUME ~stale'
      PROVE  subs' = [f \in Endpoints |-> IF f = m.source THEN subs[f] \cup {m.source} ELSE subs[f]]
  <2>1. ~job[t].moved
    BY <1>7, <1>8
  <2>2. PICK e \in {Message(t).source} :
          subs' = [f \in Endpoints |-> IF f = e THEN subs[f] \cup {Message(t).source} ELSE subs[f]]
    BY <2>1 DEF AddSubscription
  <2>3. QED
    BY <2>2, <1>2
<1> HIDE DEF p, b, m
<1>9. Becomes(t, "send", b, 0)
  BY <1>2 DEF b
<1>10. Handled(o)' = p + 1
  BY <1>1, <1>2, <1>3, <1>4, <1>5, <1>9, InHandNext
<1>11. NodeIds \subseteq Endpoints
  BY <1>4, LinkFacts
<1>12. ASSUME ~stale', o \in NodeIds PROVE InfoMoves(o)
  <2>1. CASE m.source = o
    <3>1. Says(o, p + 1, "subscribTo")
      BY <2>1, <1>6 DEF Says
    <3>2. subs'[o] = subs[o] \cup {o}
      BY <2>1, <1>8, <1>11, <1>12
    <3>3. QED
      BY <3>1, <3>2, <1>5, <1>10 DEF InfoMoves
  <2>2. CASE m.source # o
    <3>1. ~Says(o, p + 1, "subscribTo") /\ ~Says(o, p + 1, "byeByeEndp")
      BY <2>2, <1>6 DEF Says
    <3>2. subs'[o] = subs[o]
      BY <2>2, <1>8, <1>11, <1>12
    <3>3. QED
      BY <3>1, <3>2, <1>5, <1>10 DEF InfoMoves
  <2>3. QED
    BY <2>1, <2>2
<1>13. ASSUME ~stale', NEW e \in NodeIds, e # o PROVE subs'[e] = subs[e]
  <2>1. e # m.source
    BY <1>6, <1>13
  <2>2. QED
    BY <2>1, <1>8, <1>11, <1>13
<1>14. stale => stale'
  BY <1>7
<1>15. QED
  BY <1>1, <1>2, <1>3, <1>4, <1>5, <1>9, <1>12, <1>13, <1>14, QuietStep

LEMMA ByeByeData ==
  ASSUME TurnsIInv, NEW t \in Threads, HandleByeBye(t)
  PROVE  ScriptsAreFollowed' /\ OrderIsKept' /\ InfosFollow'
<1>1. UNCHANGED <<script, link, stale>> /\ IsNext(t, {"byeByeEndp"})
  BY DEF HandleByeBye
<1>2. /\ Busy(t) /\ job[t].at = "next" /\ job[t].batch # <<>> /\ job[t].of \in Links
      /\ Message(t) = Head(job[t].batch) /\ Head(job[t].batch).kind = "byeByeEndp"
  BY <1>1, NextMessage
<1>3. PICK o \in Links : job[t].of = o
  BY <1>2
<1>4. TurnsTypeOK' /\ UnitsAreApart' /\ TurnsTypeOK
  BY ByeByeType, HandlingUnits DEF TurnsIInv
<1> DEFINE p == Passed(o)
           b == job[t].batch
           m == Head(job[t].batch)
<1>5. p \in Nat /\ Follows(script[o], p, b, link[o].incoming, link[o].wire) /\ p >= Passed(o) /\ Handled(o) = p
  BY <1>2, <1>3, InHandNow
<1>6. /\ m.source = script[o][p + 1].source
      /\ script[o][p + 1].kind = "byeByeEndp"
      /\ m.source \in NodeIds => m.source = o
  BY <1>2, <1>3, HeadFacts
<1>7. subs' = [subs EXCEPT ![m.source] = {}]
  BY <1>2 DEF HandleByeBye
<1>8. subs \in [Endpoints -> SUBSET Endpoints] /\ NodeIds \subseteq Endpoints
  BY <1>4, LinkFacts DEF TurnsTypeOK
<1>9. Becomes(t, "send", b, 0)
  BY ByeByeBecomes
<1> HIDE DEF p, b, m
<1>10. Handled(o)' = p + 1
  BY <1>1, <1>2, <1>3, <1>4, <1>5, <1>9, InHandNext
<1>11. ASSUME o \in NodeIds PROVE InfoMoves(o)
  <2>1. CASE m.source = o
    <3>1. Says(o, p + 1, "byeByeEndp")
      BY <2>1, <1>6 DEF Says
    <3>2. subs'[o] = {}
      BY <2>1, <1>7, <1>8, <1>11
    <3>3. QED
      BY <3>1, <3>2, <1>5, <1>10 DEF InfoMoves
  <2>2. CASE m.source # o
    <3>1. ~Says(o, p + 1, "subscribTo") /\ ~Says(o, p + 1, "byeByeEndp")
      BY <2>2, <1>6 DEF Says
    <3>2. subs'[o] = subs[o]
      BY <2>2, <1>7, <1>8, <1>11
    <3>3. QED
      BY <3>1, <3>2, <1>5, <1>10 DEF InfoMoves
  <2>3. QED
    BY <2>1, <2>2
<1>12. ASSUME NEW e \in NodeIds, e # o PROVE subs'[e] = subs[e]
  <2>1. e # m.source
    BY <1>6, <1>12
  <2>2. QED
    BY <2>1, <1>7, <1>8, <1>12
<1>13. QED
  BY <1>1, <1>2, <1>3, <1>4, <1>5, <1>9, <1>11, <1>12, QuietStep

(* What was received is taken in hand.                                     *)
LEMMA FetchData ==
  ASSUME TurnsIInv, NEW t \in Threads, FetchMessages(t)
  PROVE  ScriptsAreFollowed' /\ OrderIsKept' /\ InfosFollow'
<1>1. UNCHANGED <<script, subs, stale>>
  BY DEF FetchMessages, tables
<1>2. /\ Busy(t)
      /\ job[t].at = "take" /\ job[t].batch = <<>>
      /\ job[t].of \in Links
      /\ Becomes(t, "next", link[job[t].of].incoming, 0)
  BY FetchBecomes
<1>3. PICK o \in Links : job[t].of = o
  BY <1>2
<1>4. TurnsTypeOK' /\ UnitsAreApart' /\ TurnsTypeOK
  BY FetchType, HandlingUnits DEF TurnsIInv
<1>5. /\ link[o] \in [wire : Seq(Messages), incoming : Seq(Messages), out : Seq(Messages), got : Seq(Messages)]
      /\ link' = [link EXCEPT ![o].incoming = <<>>]
      /\ DOMAIN link = Links
  BY <1>3, <1>4 DEF FetchMessages, TurnsTypeOK
<1>6. /\ link'[o].wire = link[o].wire
      /\ link'[o].incoming = <<>>
      /\ link'[o].out = link[o].out
      /\ link'[o].got = link[o].got
      /\ \A e \in Links : e # o => link'[e] = link[e]
  BY <1>3, <1>5
<1>7. \A l \in Links : Line(l)' = Line(l)
  <2> SUFFICES ASSUME NEW l \in Links PROVE Line(l)' = Line(l)
    OBVIOUS
  <2>1. CASE l = o
    BY <2>1, <1>6 DEF Line
  <2>2. CASE l # o
    BY <2>2, <1>6 DEF Line
  <2>3. QED
    BY <2>1, <2>2
<1> DEFINE p == Passed(o)
           s == script[o]
           i == link[o].incoming
           w == link[o].wire
<1>8. p \in Nat /\ p >= Passed(o) /\ Handled(o) = p /\ Follows(s, p, <<>>, i, w)
      /\ s \in Seq(Messages) /\ i \in Seq(Messages) /\ w \in Seq(Messages)
  BY <1>2, <1>3, InHandNow
<1>9. Becomes(t, "next", i, 0)
  BY <1>2, <1>3
<1> HIDE DEF p, s, i, w
<1>10. Follows(s, p, i, <<>>, w)
  BY <1>8, FollowsFetch
<1>11. Follows(script[o], p, i, link'[o].incoming, link'[o].wire)
  BY <1>6, <1>10 DEF s, w
<1>12. FollowsTo(o, p) /\ Handled(o)' = p /\ \A e \in Links : e # o => SameView(e)
  BY <1>1, <1>2, <1>3, <1>4, <1>8, <1>9, <1>11, InHandNext
<1>13. InfoSteady(o)
  BY <1>1, <1>8, <1>12 DEF InfoSteady
<1>14. \A e \in Links : e # o => SameView(e) /\ SameInput(e)
  BY <1>6, <1>12 DEF SameInput
<1>15. QED
  BY <1>1, <1>4, <1>7, <1>8, <1>12, <1>13, <1>14, DataNext

LEMMA SendLines ==
  ASSUME TurnsIInv, NEW t \in Threads, Send(t), NEW m \in Messages, m = Message(t), NEW l \in Links
  PROVE  /\ SameInput(l)
         /\ Line(l)' = Line(l) \/ Line(l)' = Append(Line(l), m)
<1>1. TurnsTypeOK
  BY DEF TurnsIInv
<1>2. link[l] \in [wire : Seq(Messages), incoming : Seq(Messages), out : Seq(Messages), got : Seq(Messages)]
  BY <1>1 DEF TurnsTypeOK
<1>3. link'[l] = IF l \in Outgoing(t) THEN [link[l] EXCEPT !.out = Append(@, m)] ELSE link[l]
  BY DEF Send
<1>4. CASE l \in Outgoing(t)
  <2>1. /\ link'[l].incoming = link[l].incoming
        /\ link'[l].wire = link[l].wire
        /\ link'[l].got = link[l].got
        /\ link'[l].out = Append(link[l].out, m)
    BY <1>2, <1>3, <1>4
  <2>2. link[l].got \o Append(link[l].out, m) = Append(link[l].got \o link[l].out, m)
    BY <1>2, AppendBehind
  <2>3. QED
    BY <2>1, <2>2 DEF SameInput, Line
<1>5. CASE l \notin Outgoing(t)
  BY <1>3, <1>5 DEF SameInput, Line
<1>6. QED
  BY <1>4, <1>5

LEMMA SendAnswerData ==
  ASSUME TurnsIInv, NEW t \in Threads, Send(t), Answering(t)
  PROVE  ScriptsAreFollowed' /\ OrderIsKept' /\ InfosFollow'
<1>1. UNCHANGED <<script, subs, stale>>
  BY DEF Send, tables
<1>2. /\ Busy(t)
      /\ job[t].at = "send"
      /\ job[t].of \in Links
      /\ Becomes(t, "next", job[t].batch, job[t].answers - 1)
  BY SendBecomes
<1>3. PICK o \in Links : job[t].of = o
  BY <1>2
<1>4. TurnsTypeOK' /\ UnitsAreApart'
  BY SendType, HandlingUnits
<1>5. PICK m \in Messages : m = Message(t)
  BY SendType
<1>6. m.source = Own
  BY <1>5 DEF Message, Answer
<1>7. ASSUME NEW l \in Links
      PROVE  SameInput(l) /\ (Line(l)' = Line(l) \/ \E x \in Messages : LineGrows(l, x))
  <2>1. SameInput(l) /\ (Line(l)' = Line(l) \/ Line(l)' = Append(Line(l), m))
    BY <1>5, SendLines
  <2>2. Line(l)' = Append(Line(l), m) => LineGrows(l, m)
    BY <1>6 DEF LineGrows, NodeIds
  <2>3. QED
    BY <2>1, <2>2
<1>8. PICK n \in Int : n = job[t].answers - 1
  BY JobType
<1>9. Becomes(t, "next", job[t].batch, n)
  BY <1>2, <1>8 DEF Becomes
<1> DEFINE p == Passed(o)
           b == job[t].batch
<1>10. job[t].answers # 0
  BY JobType DEF Answering
<1>11. p \in Nat /\ p >= Passed(o) /\ Handled(o) = p
      /\ Follows(script[o], p, b, link[o].incoming, link[o].wire)
  BY <1>2, <1>3, <1>10, InHandNow
<1> HIDE DEF p
<1>12. Follows(script[o], p, b, link'[o].incoming, link'[o].wire)
  BY <1>7, <1>11 DEF SameInput
<1>13. FollowsTo(o, p) /\ Handled(o)' = p /\ \A e \in Links : e # o => SameView(e)
  BY <1>1, <1>2, <1>3, <1>4, <1>9, <1>11, <1>12, InHandNext
<1>14. InfoSteady(o)
  BY <1>1, <1>11, <1>13 DEF InfoSteady
<1>15. QED
  BY <1>1, <1>4, <1>7, <1>11, <1>13, <1>14, DataNext

LEMMA SendOnData ==
  ASSUME TurnsIInv, NEW t \in Threads, Send(t), ~Answering(t)
  PROVE  ScriptsAreFollowed' /\ OrderIsKept' /\ InfosFollow'
<1>1. UNCHANGED <<script, subs, stale>>
  BY DEF Send, tables
<1>2. /\ Busy(t)
      /\ job[t].at = "send"
      /\ job[t].of \in Links
      /\ job[t].batch # <<>>
      /\ job[t].answers = 0
      /\ Message(t) = Head(job[t].batch)
      /\ Becomes(t, "next", Tail(job[t].batch), 0)
  BY SendBecomes
<1>3. PICK o \in Links : job[t].of = o
  BY <1>2
<1>4. TurnsTypeOK' /\ UnitsAreApart'
  BY SendType, HandlingUnits
<1>5. PICK m \in Messages : m = Message(t)
  BY SendType
<1> DEFINE q == Passed(o)
           p == q + 1
           b == Tail(job[t].batch)
           s == script[o]
           i == link[o].incoming
           w == link[o].wire
<1>6. q \in Nat /\ p \in Nat /\ p >= q /\ Handled(o) = p /\ Follows(s, p, b, i, w)
  <2> DEFINE c == job[t].batch
  <2>1. q \in Nat /\ Follows(s, q, c, i, w) /\ s \in Seq(Messages) /\ i \in Seq(Messages)
        /\ w \in Seq(Messages) /\ c \in Seq(Messages) /\ c # <<>> /\ Handled(o) = q + 1
    BY <1>2, <1>3, InHandNow
  <2> HIDE DEF q, c, s, i, w
  <2>2. Follows(s, q + 1, Tail(c), i, w)
    BY <2>1, FollowsDrop
  <2>3. q + 1 \in Nat /\ q + 1 >= q
    BY <2>1
  <2>4. QED
    BY <2>1, <2>2, <2>3 DEF c
<1>7. /\ q + 1 \in DOMAIN s
      /\ m.source = s[q + 1].source
      /\ m.number = s[q + 1].number
      /\ m.source \in NodeIds => m.source = o
  BY <1>2, <1>3, <1>5, HeadFacts
<1>8. SameInput(o)
  BY <1>5, SendLines
<1>9. Follows(script[o], p, b, link'[o].incoming, link'[o].wire)
  BY <1>6, <1>8 DEF SameInput
<1> HIDE DEF p, b
<1>10. FollowsTo(o, p) /\ Passed(o)' = p /\ Handled(o)' = p /\ \A e \in Links : e # o => SameView(e)
  <2>1. Becomes(t, "next", b, 0)
    BY <1>2 DEF b
  <2>2. QED
    BY <2>1, <1>1, <1>2, <1>3, <1>4, <1>6, <1>9, InHandNext
<1>11. ASSUME NEW e \in NodeIds, m.source = e PROVE IsNextOf(m, e)
  <2>1. e = o
    BY <1>7, <1>11
  <2>2. IsNextOf(m, o)
    BY <2>1, <1>6, <1>7, <1>10, <1>11 DEF IsNextOf, p
  <2>3. QED
    BY <2>1, <2>2
<1>12. ASSUME NEW l \in Links
      PROVE  SameInput(l) /\ (Line(l)' = Line(l) \/ \E x \in Messages : LineGrows(l, x))
  <2>1. SameInput(l) /\ (Line(l)' = Line(l) \/ Line(l)' = Append(Line(l), m))
    BY <1>5, SendLines
  <2>2. Line(l)' = Append(Line(l), m) => LineGrows(l, m)
    BY <1>11 DEF LineGrows
  <2>3. QED
    BY <2>1, <2>2
<1>13. InfoSteady(o)
  BY <1>1, <1>6, <1>10 DEF InfoSteady
<1>14. QED
  BY <1>1, <1>4, <1>6, <1>10, <1>12, <1>13, DataNext

----------------------------------------------------------------------------
(* The invariant holds at first and is kept by every step.                 *)

LEMMA TypesAtFirst ==
  ASSUME TurnsInit
  PROVE  TurnsTypeOK
<1>1. script \in Scripts /\ IsScript(script)
  BY WorkersAssumption DEF TurnsInit
<1>2. /\ IsFiniteSet(Links)
      /\ Links \subseteq Endpoints
      /\ FirstNodes \subseteq NodeIds
      /\ \A l \in Links : script[l] \in Seq(Messages)
  BY <1>1 DEF IsScript, Links, NodeIds
<1>3. /\ phase \in {"maintain", "route", "wait routed", "update", "wait updated"}
      /\ todo \subseteq NodeIds
      /\ rounds \in Nat
      /\ worked \in BOOLEAN
      /\ latch \in Int
  <2>1. phase = "maintain" /\ todo = {} /\ latch = 0
    BY DEF TurnsInit
  <2>3. worked \in BOOLEAN
    BY DEF TurnsInit
  <2>2. rounds \in Nat
    BY WorkersAssumption DEF TurnsInit
  <2>4. QED
    BY <2>1, <2>2, <2>3
<1>4. queue \in Seq(Jobs) /\ job \in [Threads -> Jobs]
  BY IdleIsJob DEF TurnsInit
<1>5. /\ Nodes \subseteq NodeIds
      /\ node \in [Nodes -> [connected : BOOLEAN, mayRoute : BOOLEAN, bye : BOOLEAN]]
      /\ useWorkers \in BOOLEAN
      /\ gone \subseteq NodeIds
  BY <1>2 DEF TurnsInit, Nodes, NewNode
<1>6. /\ idx \in [Endpoints -> Nat]
      /\ subs \in [Endpoints -> SUBSET Endpoints]
      /\ known \subseteq Endpoints
  BY DEF TurnsInit
<1>7. link \in [Links -> [wire : Seq(Messages), incoming : Seq(Messages),
                          out : Seq(Messages), got : Seq(Messages)]]
  <2>1. link = [l \in Links |-> [wire |-> script[l], incoming |-> <<>>, out |-> <<>>, got |-> <<>>]]
    BY DEF TurnsInit
  <2>2. <<>> \in Seq(Messages)
    OBVIOUS
  <2>3. QED
    BY <2>1, <2>2, <1>2
<1>8. flows \in Nat /\ stale \in BOOLEAN
  BY DEF TurnsInit
<1>9. QED
  BY <1>1, <1>3, <1>4, <1>5, <1>6, <1>7, <1>8 DEF TurnsTypeOK

(* No thread has anything to do at first.                                  *)
LEMMA QuietAtFirst ==
  ASSUME TurnsInit
  PROVE  /\ \A t \in Threads : ~Busy(t) /\ job[t] = Idle
         /\ \A e : JobOf(e) = Idle
<1>1. \A t \in Threads : job[t] = Idle
  BY DEF TurnsInit
<1>2. \A t \in Threads : ~Busy(t)
  BY <1>1, IdleView DEF Busy
<1>3. QED
  BY <1>1, <1>2, JobOfNobody

(* The router starts in the invariant, whatever the scripts are.           *)
THEOREM TurnsStart == TurnsInit => TurnsIInv
<1> SUFFICES ASSUME TurnsInit PROVE TurnsIInv
  OBVIOUS
<1>1. TurnsTypeOK
  BY TypesAtFirst
<1>2. /\ \A t \in Threads : ~Busy(t) /\ job[t] = Idle
      /\ \A e : JobOf(e) = Idle
  BY QuietAtFirst
<1>3. queue = <<>> /\ todo = {} /\ DOMAIN queue = {}
  BY DEF TurnsInit
<1>4. UnitsAreApart
  BY <1>2, <1>3 DEF UnitsAreApart, Threads
<1>5. LatchCounts
  <2>1. QueuedUnits = {} /\ BusyUnits = {}
    BY <1>2, <1>3 DEF QueuedUnits, BusyUnits, Threads
  <2>2. Cardinality(Units) = 0
    BY <2>1, <1>3, FS_EmptySet DEF Units
  <2>3. latch = 0 /\ phase = "maintain" /\ \A n \in Nodes : node[n].connected
    BY DEF TurnsInit, Nodes, NewNode
  <2>4. QED
    BY <1>2, <1>3, <2>2, <2>3 DEF LatchCounts, Quiet, Threads
<1>6. JobsAreSound
  <2>1. JobIsSound(Idle)
    BY DEF JobIsSound, Idle
  <2>2. QED
    BY <2>1, <1>2, <1>3 DEF JobsAreSound
<1>7. ASSUME NEW e \in Links
      PROVE  /\ link[e].wire = script[e]
             /\ link[e].incoming = <<>>
             /\ Line(e) = <<>>
             /\ Fetched(e) = 0
             /\ Passed(e) = 0
             /\ Handled(e) = 0
  <2>1. link[e] = [wire |-> script[e], incoming |-> <<>>, out |-> <<>>, got |-> <<>>]
    BY DEF TurnsInit
  <2>2. link[e].wire = script[e] /\ link[e].incoming = <<>> /\ link[e].out = <<>> /\ link[e].got = <<>>
    BY <2>1
  <2>3. Len(script[e]) \in Nat
    BY <1>1, LengthFacts
  <2>4. Fetched(e) = 0
    BY <2>2, <2>3 DEF Fetched
  <2>5. JobOf(e).batch = <<>> /\ JobOf(e).at = "idle"
    BY <1>2, IdleView
  <2>6. Passed(e) = 0
    <3>1. Len(JobOf(e).batch) = 0
      BY <2>5
    <3>2. QED
      BY <2>4, <3>1 DEF Passed
  <2>7. Handled(e) = 0
    BY <2>5, <2>6 DEF Handled, Sending
  <2>8. QED
    BY <2>2, <2>4, <2>6, <2>7 DEF Line
<1>8. ScriptsAreFollowed
  <2> SUFFICES ASSUME NEW e \in Links
               PROVE  /\ Passed(e) \in Nat
                      /\ \A i \in DOMAIN JobOf(e).batch : Same(JobOf(e).batch[i], script[e][Passed(e) + i])
                      /\ \A i \in DOMAIN link[e].incoming : link[e].incoming[i] = script[e][Fetched(e) + i]
                      /\ \A i \in DOMAIN link[e].wire :
                          link[e].wire[i] = script[e][Fetched(e) + Len(link[e].incoming) + i]
    BY DEF ScriptsAreFollowed
  <2>1. JobOf(e).batch = <<>>
    BY <1>2, IdleView
  <2>2. \A i \in DOMAIN script[e] : script[e][i] = script[e][0 + 0 + i]
    BY <1>1, LengthFacts
  <2>3. QED
    BY <1>7, <2>1, <2>2
<1>9. OrderIsKept
  <2>1. \A l \in Links : LET s == Line(l)
                         IN  InOrder(s) /\ \A i \in DOMAIN s : s[i].source \in NodeIds => IsBefore(s[i])
    BY <1>7 DEF InOrder
  <2>2. QED
    BY <2>1 DEF OrderIsKept, Line
<1>10. InfosFollow
  <2>1. \A e \in NodeIds : Handled(e) = 0 /\ subs[e] = {}
    <3>1. NodeIds \subseteq Links /\ Links \subseteq Endpoints
      BY <1>1, LinkFacts
    <3>2. QED
      BY <3>1, <1>7 DEF TurnsInit
  <2>2. \A e : Asked(e, 0) = {}
    BY DEF Asked, Subscribed
  <2>3. QED
    BY <2>1, <2>2 DEF InfosFollow
<1>11. QED
  BY <1>1, <1>4, <1>5, <1>6, <1>8, <1>9, <1>10 DEF TurnsIInv

LEMMA TurnsStutter ==
  ASSUME TurnsIInv, UNCHANGED turnsVars
  PROVE  TurnsIInv'
<1>1. TurnsTypeOK'
  BY DEF TurnsIInv, TurnsTypeOK, turnsVars, Links, NodeIds, Nodes, Threads
<1>2. UnitsAreApart'
  BY DEF TurnsIInv, UnitsAreApart, turnsVars, Nodes, Threads, Busy
<1>3. LatchCounts'
  <2>1. Units' = Units
    BY DEF turnsVars, Units, QueuedUnits, BusyUnits, Busy
  <2>2. QED
    BY <2>1 DEF TurnsIInv, LatchCounts, turnsVars, Quiet, Nodes, Threads, Busy
<1>4. JobsAreSound'
  BY DEF TurnsIInv, JobsAreSound, turnsVars, Threads
<1>5. UNCHANGED <<script, job, link, subs, stale>>
  BY DEF turnsVars
<1>6. ScriptsAreFollowed' /\ OrderIsKept' /\ InfosFollow'
  BY <1>1, <1>5, LinksSteady, JobsSteady, DataSteady
<1>7. QED
  BY <1>1, <1>2, <1>3, <1>4, <1>6 DEF TurnsIInv

LEMMA WorkStep ==
  ASSUME TurnsIInv, NEW t \in Threads, Work(t)
  PROVE  TurnsIInv'
<1>1. CASE UpdateConnection(t)
  BY <1>1, UpdateType, UpdateUnits, UpdateData DEF TurnsIInv
<1>2. CASE FetchMessages(t)
  BY <1>2, FetchType, HandlingUnits, FetchData DEF TurnsIInv
<1>3. CASE RouteDone(t)
  BY <1>3, RouteDoneType, RouteDoneUnits, RouteDoneData DEF TurnsIInv
<1>4. CASE UpdateEndpointInfo(t)
  BY <1>4, UpdateInfoType, HandlingUnits, UpdateInfoData DEF TurnsIInv
<1>5. CASE AddSubscription(t)
  BY <1>5, AddType, HandlingUnits, AddData DEF TurnsIInv
<1>6. CASE HandleByeBye(t)
  BY <1>6, ByeByeType, HandlingUnits, ByeByeData DEF TurnsIInv
<1>7. CASE HandleNotARouter(t)
  BY <1>7, NotRouterType, HandlingUnits, NotRouterData DEF TurnsIInv
<1>8. CASE HandlePing(t)
  BY <1>8, PingType, HandlingUnits, PingData DEF TurnsIInv
<1>9. CASE HandleTopologyQuery(t)
  BY <1>9, TopologyType, HandlingUnits, TopologyData DEF TurnsIInv
<1>10. CASE FindOutgoing(t)
  BY <1>10, OutgoingType, HandlingUnits, OutgoingData DEF TurnsIInv
<1>11. CASE Broadcast(t)
  BY <1>11, BroadcastType, HandlingUnits, BroadcastData DEF TurnsIInv
<1>12. CASE Send(t)
  BY <1>12, SendType, HandlingUnits, SendAnswerData, SendOnData DEF TurnsIInv
<1>13. CASE LogByeBye(t)
  BY <1>13, LogType, HandlingUnits, LogData DEF TurnsIInv
<1>14. QED
  BY <1>1, <1>2, <1>3, <1>4, <1>5, <1>6, <1>7, <1>8, <1>9, <1>10, <1>11, <1>12, <1>13 DEF Work

(* Every step of the main thread and of every worker keeps the invariant.  *)
THEOREM TurnsStep == TurnsIInv /\ [TurnsNext]_turnsVars => TurnsIInv'
<1> SUFFICES ASSUME TurnsIInv, [TurnsNext]_turnsVars PROVE TurnsIInv'
  OBVIOUS
<1>1. CASE Maintain
  BY <1>1, MaintainType, MaintainUnits, MaintainData DEF TurnsIInv
<1>2. CASE EnqueueUnit
  BY <1>2, EnqueueType, EnqueueUnits, EnqueueData DEF TurnsIInv
<1>3. CASE ServeParent
  BY <1>3, ParentType, ParentUnits, ParentData DEF TurnsIInv
<1>4. CASE WaitRouted
  BY <1>4, WaitType, WaitRoutedUnits, WaitData DEF TurnsIInv
<1>5. CASE WaitUpdated
  BY <1>5, WaitType, WaitUpdatedUnits, WaitData DEF TurnsIInv
<1>6. CASE Work(Main)
  <2>1. Main \in Threads
    BY DEF Threads
  <2>2. QED
    BY <1>6, <2>1, WorkStep
<1>7. ASSUME NEW w \in Workers, WorkerStep(w) PROVE TurnsIInv'
  <2>1. w \in Threads
    BY DEF Threads
  <2>2. CASE TakeUnit(w)
    BY <2>1, <2>2, TakeType, TakeUnits, TakeData DEF TurnsIInv
  <2>3. CASE Work(w)
    BY <2>1, <2>3, WorkStep
  <2>4. QED
    BY <1>7, <2>2, <2>3 DEF WorkerStep
<1>8. CASE UNCHANGED turnsVars
  BY <1>8, TurnsStutter
<1>9. QED
  BY <1>1, <1>2, <1>3, <1>4, <1>5, <1>6, <1>7, <1>8 DEF TurnsNext, MainStep

(* What the invariant says of the turns and of the infos.                  *)
LEMMA SoundNow ==
  ASSUME TurnsIInv
  PROVE  TurnsAreSound
<1>1. TurnsAreSerial
  <2>1. phase = "maintain" => Quiet
    BY DEF TurnsIInv, LatchCounts
  <2>2. \A l \in Links : InOrder(link[l].got \o link[l].out)
    BY DEF TurnsIInv, OrderIsKept
  <2>3. QED
    BY <2>1, <2>2 DEF TurnsAreSerial
<1>2. InfosAreExact
  <2> SUFFICES ASSUME Quiet, ~stale, NEW e \in NodeIds PROVE subs[e] = Asked(e, Fetched(e))
    BY DEF InfosAreExact
  <2>1. \A t \in Threads : ~Busy(t)
    BY IdleIsNotBusy DEF Quiet
  <2>2. JobOf(e) = Idle
    BY <2>1, JobOfNobody
  <2>3. JobOf(e).batch = <<>> /\ ~Sending(e)
    BY <2>2, IdleView DEF Sending
  <2>4. Fetched(e) \in Int
    BY LengthFacts DEF TurnsIInv, NodeIds
  <2>5. Passed(e) = Fetched(e)
    BY <2>3, <2>4 DEF Passed
  <2>6. Handled(e) = Fetched(e)
    BY <2>3, <2>4, <2>5 DEF Handled
  <2>7. QED
    BY <2>6 DEF TurnsIInv, InfosFollow
<1>3. QED
  BY <1>1, <1>2 DEF TurnsAreSound

(* The inductive invariant holds in every state of every behaviour.        *)
THEOREM TurnsInvariant == TurnsSpec => []TurnsIInv
  BY TurnsStart, TurnsStep, PTL DEF TurnsSpec

(* Whatever the workers are and however their steps interleave: no unit    *)
(* runs during maintenance, what a node has sent is passed on to each      *)
(* other node in the order in which it was sent, and the infos are those   *)
(* of the messages that were handled, unless a reference was used after    *)
(* the table had moved.                                                    *)
THEOREM TurnsAreSoundAlways == TurnsSpec => []TurnsAreSound
<1>1. TurnsIInv => TurnsAreSound
  BY SoundNow
<1>2. QED
  BY <1>1, TurnsInvariant, PTL

=============================================================================
