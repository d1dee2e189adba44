--------------------------- MODULE Services_proofs ---------------------------
(***************************************************************************)
(* Proofs about what services are built upon: remote calls, and the        *)
(* subscriptions of the objects that handle messages; and about the        *)
(* tracker of nodes, which is built upon most services.                    *)
(*                                                                         *)
(* Remote calls, for every number of clients, servers, calls and faults,   *)
(* and every choice of skeletons: a call ends at most once and with its    *)
(* own result, and an answer ends all calls that are overdue.  The         *)
(* argument is Calls!IInv: a future that is still there is waited for, and *)
(* what is not waited for is never touched again.                          *)
(*                                                                         *)
(* Subscriptions, for every number of endpoints, programs, types, messages *)
(* and priorities: no message is handled twice, and what an observer hears *)
(* of a process is true.  The argument is Subscriptions!SubsIInv: a        *)
(* message says what is true of its sender and stays true, and the number  *)
(* of a data message waits in one place of an endpoint.                    *)
(*                                                                         *)
(* The tracker, for all nodes, routers, links, hosts and faults, whatever  *)
(* order the messages of several nodes come in: what is shown is of the    *)
(* process that is there.  The argument is TrackerIInv: a bye-bye is the   *)
(* last word of a process, and what an endpoint tells of itself comes with *)
(* its announcement or after it.                                           *)
(***************************************************************************)
EXTENDS Calls, Subscriptions, Tracker, SequenceTheorems, FiniteSetTheorems, WellFoundedInduction, TLAPS

-----------------------------------------------------------------------------
(* Remote calls.                                                           *)

Values  == (Clients \X Nat) \cup {Timeout}
Futures == [kept : BOOLEAN, late : BOOLEAN, ends : Seq(Values)]
Pending == [from : Clients, late : BOOLEAN, finished : BOOLEAN]

-----------------------------------------------------------------------------
(* Sequences and functions.                                                *)

(* A function on the domain of a sequence, with values in T, is one too.   *)
LEMMA SameDomainIsSeq ==
  ASSUME NEW S, NEW T, NEW s \in Seq(S), NEW t,
         t = [k \in DOMAIN s |-> t[k]], \A k \in DOMAIN s : t[k] \in T
  PROVE  t \in Seq(T) /\ DOMAIN t = DOMAIN s
<1>1. DOMAIN s = 1 .. Len(s) /\ Len(s) \in Nat
  BY LenProperties
<1>2. t \in [1 .. Len(s) -> T]
  BY <1>1
<1>3. QED
  BY <1>1, <1>2, SeqDef

(* Appending to the empty sequence.                                        *)
LEMMA AppendToNone ==
  ASSUME NEW S, NEW v \in S
  PROVE  /\ Append(<<>>, v) = <<v>>
         /\ <<v>> \in Seq(S) /\ Len(<<v>>) = 1 /\ <<v>> # <<>>
         /\ Range(<<v>>) = {v}
  BY DEF Range

(* The empty sequence has no elements.                                     *)
LEMMA NoneHasNoRange == Range(<<>>) = {}
  BY DEF Range

-----------------------------------------------------------------------------
(* What happens to one future.                                             *)

(* Fulfilling a future, or finding it overdue, keeps its type and never    *)
(* gives it a second end.                                                  *)
LEMMA FutureSteps ==
  ASSUME NEW f \in Futures, NEW v \in Values, f.kept => f.ends = <<>>
  PROVE  /\ Fulfilled(f, v) \in Futures /\ ~Fulfilled(f, v).kept
         /\ Fulfilled(f, v).ends = IF ~f.kept THEN f.ends
                                   ELSE IF f.late THEN <<Timeout>> ELSE <<v>>
         /\ Fulfilled(f, v).late = f.late
         /\ TimedOut(f) \in Futures
         /\ TimedOut(f).kept = (f.kept /\ ~f.late)
         /\ TimedOut(f).ends = IF f.kept /\ f.late THEN <<Timeout>> ELSE f.ends
         /\ TimedOut(f).late = f.late
<1>1. Timeout \in Values
  BY DEF Values
<1>2. <<Timeout>> \in Seq(Values) /\ <<v>> \in Seq(Values)
  BY <1>1
<1>3. CASE ~f.kept
  BY <1>3 DEF Futures, Fulfilled, TimedOut
<1>4. CASE f.kept
  <2>1. Append(f.ends, Timeout) = <<Timeout>> /\ Append(f.ends, v) = <<v>>
    BY <1>4, <1>1, AppendToNone
  <2>2. QED
    BY <1>4, <2>1, <1>2 DEF Futures, Fulfilled, TimedOut
<1>5. QED
  BY <1>3, <1>4 DEF Futures

(* So the ends of a future stay what the invariant says, whether its call  *)
(* is answered or found overdue.                                           *)
LEMMA EndsStayRight ==
  ASSUME NEW c \in Clients, NEW k \in Nat, NEW f \in Futures,
         f.kept => f.ends = <<>>, Len(f.ends) <= 1, Range(f.ends) \subseteq {<<c, k>>, Timeout}
  PROVE  /\ Len(Fulfilled(f, <<c, k>>).ends) <= 1
         /\ Range(Fulfilled(f, <<c, k>>).ends) \subseteq {<<c, k>>, Timeout}
         /\ ~Fulfilled(f, <<c, k>>).kept
         /\ Len(TimedOut(f).ends) <= 1
         /\ Range(TimedOut(f).ends) \subseteq {<<c, k>>, Timeout}
         /\ TimedOut(f).kept => ~ShouldBeRemoved(f) /\ TimedOut(f).ends = <<>>
<1> DEFINE v == <<c, k>>
<1>1. v \in Values
  BY DEF Values
<1> HIDE DEF v
<1>2. /\ Len(<<Timeout>>) = 1 /\ Range(<<Timeout>>) = {Timeout}
      /\ Len(<<v>>) = 1 /\ Range(<<v>>) = {v}
  BY AppendToNone
<1>3. /\ ~Fulfilled(f, v).kept
      /\ Fulfilled(f, v).ends = IF ~f.kept THEN f.ends
                                ELSE IF f.late THEN <<Timeout>> ELSE <<v>>
      /\ TimedOut(f).kept = (f.kept /\ ~f.late)
      /\ TimedOut(f).ends = IF f.kept /\ f.late THEN <<Timeout>> ELSE f.ends
  BY <1>1, FutureSteps
<1>4. Range(f.ends) \subseteq {v, Timeout}
  BY DEF v
<1>5. Len(Fulfilled(f, v).ends) <= 1 /\ Range(Fulfilled(f, v).ends) \subseteq {v, Timeout}
  <2>1. CASE ~f.kept
    BY <2>1, <1>3, <1>4
  <2>2. CASE f.kept /\ f.late
    BY <2>2, <1>2, <1>3
  <2>3. CASE f.kept /\ ~f.late
    BY <2>3, <1>2, <1>3
  <2>4. QED
    BY <2>1, <2>2, <2>3
<1>6. Len(TimedOut(f).ends) <= 1 /\ Range(TimedOut(f).ends) \subseteq {v, Timeout}
  <2>1. CASE f.kept /\ f.late
    BY <2>1, <1>2, <1>3
  <2>2. CASE ~(f.kept /\ f.late)
    BY <2>2, <1>3, <1>4
  <2>3. QED
    BY <2>1, <2>2
<1>7. TimedOut(f).kept => ~ShouldBeRemoved(f) /\ TimedOut(f).ends = <<>>
  BY <1>3 DEF ShouldBeRemoved
<1>8. QED
  BY <1>3, <1>5, <1>6, <1>7 DEF v

(* What an answer does to the futures of its client, one by one: that of   *)
(* its number is fulfilled, the others that are waited for are looked over.*)
LEMMA AfterFulfilFacts ==
  ASSUME TypeOK, PromisesAreOfCalls, KeptAreAwaited,
         NEW c \in Clients, NEW n \in Nat, NEW v \in Values
  PROVE  LET after == AfterFulfil(c, n, v)
         IN  /\ after.futures \in Seq(Futures)
             /\ DOMAIN after.futures = DOMAIN calls[c]
             /\ \A k \in DOMAIN calls[c] :
                   after.futures[k] =
                      IF k \notin promises[c] THEN calls[c][k]
                      ELSE IF k = n THEN Fulfilled(calls[c][k], v)
                      ELSE TimedOut(calls[c][k])
             /\ after.waiting =
                   {k \in promises[c] \ {n} : ~ShouldBeRemoved(calls[c][k])}
<1> DEFINE set   == IF n \in promises[c]
                    THEN [calls[c] EXCEPT ![n] = Fulfilled(@, v)] ELSE calls[c]
           left  == promises[c] \ {n}
           after == AfterFulfil(c, n, v)
           old   == calls[c]
<1>1. old \in Seq(Futures) /\ promises[c] \subseteq DOMAIN old
  BY DEF TypeOK, PromisesAreOfCalls, Futures, Values
<1>2. \A k \in DOMAIN old : old[k] \in Futures /\ (old[k].kept => old[k].ends = <<>>)
  BY <1>1, LenProperties DEF KeptAreAwaited
<1>3. /\ DOMAIN set = DOMAIN old
      /\ \A k \in DOMAIN old :
            set[k] = IF k = n /\ n \in promises[c] THEN Fulfilled(old[k], v) ELSE old[k]
  BY <1>1, LenProperties
<1>4. /\ after.futures = [k \in DOMAIN set |-> IF k \in left THEN TimedOut(set[k]) ELSE set[k]]
      /\ after.waiting = {k \in left : ~ShouldBeRemoved(set[k])}
  BY DEF AfterFulfil
<1> HIDE DEF set, after
<1>5. \A k \in DOMAIN old :
         after.futures[k] = IF k \notin promises[c] THEN old[k]
                            ELSE IF k = n THEN Fulfilled(old[k], v)
                            ELSE TimedOut(old[k])
  BY <1>3, <1>4
<1>6. \A k \in DOMAIN old : after.futures[k] \in Futures
  <2>1. \A k \in DOMAIN old : Fulfilled(old[k], v) \in Futures /\ TimedOut(old[k]) \in Futures
    BY <1>2, FutureSteps
  <2>2. QED
    BY <1>2, <1>5, <2>1
<1>7. after.futures = [k \in DOMAIN old |-> after.futures[k]]
  BY <1>3, <1>4
<1>8. after.futures \in Seq(Futures) /\ DOMAIN after.futures = DOMAIN old
  BY <1>1, <1>6, <1>7, SameDomainIsSeq
<1>9. after.waiting = {k \in left : ~ShouldBeRemoved(old[k])}
  BY <1>1, <1>3, <1>4
<1>10. QED
  BY <1>5, <1>8, <1>9 DEF after

-----------------------------------------------------------------------------
(* The clients.                                                            *)

(* What the invariant says of the clients, seen from one call.             *)
LEMMA CallFacts ==
  ASSUME IInv, NEW c \in Clients
  PROVE  /\ calls[c] \in Seq(Futures) /\ Len(calls[c]) \in Nat
         /\ DOMAIN calls[c] = 1 .. Len(calls[c])
         /\ promises[c] \subseteq DOMAIN calls[c]
         /\ \A n \in DOMAIN calls[c] :
               /\ calls[c][n] \in Futures
               /\ calls[c][n].kept => n \in promises[c] /\ calls[c][n].ends = <<>>
               /\ Len(calls[c][n].ends) <= 1
               /\ Range(calls[c][n].ends) \subseteq {<<c, n>>, Timeout}
<1>1. calls[c] \in Seq(Futures)
  BY DEF IInv, TypeOK, Futures, Values
<1>2. QED
  BY <1>1, LenProperties
     DEF IInv, PromisesAreOfCalls, KeptAreAwaited, CallEndsOnce, ResultIsOfItsCall

(* The part of the invariant that is about the clients.                    *)
ClientSide ==
    /\ calls \in [Clients -> Seq(Futures)] /\ promises \in [Clients -> SUBSET Nat]
    /\ PromisesAreOfCalls /\ KeptAreAwaited /\ CallEndsOnce /\ ResultIsOfItsCall

(* If the calls of one client alone change, and as the invariant says, the *)
(* invariant holds afterwards.                                             *)
LEMMA OneClientChanges ==
  ASSUME IInv, NEW c \in Clients, NEW F \in Seq(Futures), NEW W \in SUBSET DOMAIN F,
         calls' = [calls EXCEPT ![c] = F], promises' = [promises EXCEPT ![c] = W],
         \A n \in DOMAIN F : /\ F[n].kept => n \in W /\ F[n].ends = <<>>
                             /\ Len(F[n].ends) <= 1
                             /\ Range(F[n].ends) \subseteq {<<c, n>>, Timeout}
  PROVE  ClientSide'
<1>1. DOMAIN F \subseteq Nat
  BY LenProperties
<1>2. /\ calls \in [Clients -> Seq(Futures)] /\ promises \in [Clients -> SUBSET Nat]
      /\ DOMAIN calls = Clients /\ DOMAIN promises = Clients
  BY DEF IInv, TypeOK, Futures, Values
<1>3. calls' \in [Clients -> Seq(Futures)] /\ promises' \in [Clients -> SUBSET Nat]
  BY <1>1, <1>2
<1>4. calls'[c] = F /\ promises'[c] = W
  BY <1>2
<1>5. \A d \in Clients \ {c} : calls'[d] = calls[d] /\ promises'[d] = promises[d]
  BY <1>2
<1>6. PromisesAreOfCalls'
  BY <1>4, <1>5, CallFacts DEF PromisesAreOfCalls
<1>7. KeptAreAwaited'
  BY <1>4, <1>5, CallFacts DEF KeptAreAwaited
<1>8. CallEndsOnce'
  BY <1>4, <1>5, CallFacts DEF CallEndsOnce
<1>9. ResultIsOfItsCall'
  BY <1>4, <1>5, CallFacts DEF ResultIsOfItsCall
<1>10. QED
  BY <1>3, <1>6, <1>7, <1>8, <1>9 DEF ClientSide

(* A client calls.                                                         *)
LEMMA InvokeClientSide ==
  ASSUME IInv, NEW c \in Clients, NEW sent \in BOOLEAN, NEW kept \in BOOLEAN,
         Invoke(c, sent, kept)
  PROVE  ClientSide'
<1> DEFINE n == Len(calls[c]) + 1
           f == Future(sent /\ kept)
           F == Append(calls[c], f)
           W == promises[c] \cup {n}
<1>1. f \in Futures /\ f.ends = <<>>
  BY EmptySeq DEF Future, Futures
<1>2. /\ F \in Seq(Futures) /\ DOMAIN F = DOMAIN calls[c] \cup {n} /\ n \notin DOMAIN calls[c]
      /\ F[n] = f /\ \A k \in DOMAIN calls[c] : F[k] = calls[c][k]
  <2>1. /\ F \in Seq(Futures) /\ Len(F) = Len(calls[c]) + 1 /\ F[n] = f
        /\ \A k \in 1 .. Len(calls[c]) : F[k] = calls[c][k]
    BY <1>1, CallFacts, AppendProperties
  <2>2. DOMAIN F = 1 .. (Len(calls[c]) + 1)
    BY <2>1, LenProperties
  <2>3. QED
    BY <2>1, <2>2, CallFacts
<1>3. W \in SUBSET DOMAIN F
  BY <1>2, CallFacts
<1>4. \A k \in DOMAIN F : /\ F[k].kept => k \in W /\ F[k].ends = <<>>
                          /\ Len(F[k].ends) <= 1
                          /\ Range(F[k].ends) \subseteq {<<c, k>>, Timeout}
  <2>1. ASSUME NEW k \in DOMAIN calls[c]
        PROVE  /\ F[k].kept => k \in W /\ F[k].ends = <<>>
               /\ Len(F[k].ends) <= 1
               /\ Range(F[k].ends) \subseteq {<<c, k>>, Timeout}
    BY <1>2, CallFacts
  <2>2. /\ F[n].ends = <<>> /\ Len(F[n].ends) <= 1 /\ n \in W
        /\ Range(F[n].ends) \subseteq {<<c, n>>, Timeout}
    BY <1>1, <1>2, NoneHasNoRange
  <2>3. QED
    BY <1>2, <2>1, <2>2
<1>5. calls' = [calls EXCEPT ![c] = F] /\ promises' = [promises EXCEPT ![c] = W]
  BY DEF Invoke
<1> HIDE DEF F, W
<1>6. QED
  BY <1>2, <1>3, <1>4, <1>5, OneClientChanges

(* A deadline passes.                                                      *)
LEMMA DeadlineClientSide ==
  ASSUME IInv, NEW c \in Clients, NEW n \in promises[c], DeadlinePasses(c, n)
  PROVE  ClientSide'
<1> DEFINE F == [calls[c] EXCEPT ![n] = [@ EXCEPT !.late = TRUE]]
<1>1. n \in DOMAIN calls[c] /\ DOMAIN F = DOMAIN calls[c]
  BY CallFacts
<1>2. ASSUME NEW k \in DOMAIN calls[c]
      PROVE  /\ F[k] \in Futures /\ F[k].kept = calls[c][k].kept
             /\ F[k].ends = calls[c][k].ends
  <2>1. calls[c][k] \in Futures
    BY CallFacts
  <2>2. F[k] = IF k = n THEN [calls[c][k] EXCEPT !.late = TRUE] ELSE calls[c][k]
    BY <1>1, CallFacts
  <2>3. QED
    BY <2>1, <2>2 DEF Futures
<1>3. F \in Seq(Futures)
  <2>1. F = [k \in DOMAIN calls[c] |-> F[k]]
    BY <1>1, CallFacts
  <2>2. calls[c] \in Seq(Futures) /\ \A k \in DOMAIN calls[c] : F[k] \in Futures
    BY <1>2, CallFacts
  <2> HIDE DEF F
  <2>3. QED
    BY <2>1, <2>2, SameDomainIsSeq
<1>4. calls' = [calls EXCEPT ![c] = F] /\ promises' = [promises EXCEPT ![c] = promises[c]]
  BY DEF DeadlinePasses, IInv, TypeOK
<1>5. \A k \in DOMAIN F : /\ F[k].kept => k \in promises[c] /\ F[k].ends = <<>>
                          /\ Len(F[k].ends) <= 1
                          /\ Range(F[k].ends) \subseteq {<<c, k>>, Timeout}
  BY <1>1, <1>2, CallFacts
<1>6. promises[c] \in SUBSET DOMAIN F
  BY <1>1, CallFacts
<1> HIDE DEF F
<1>7. QED
  BY <1>3, <1>4, <1>5, <1>6, OneClientChanges

(* An answer comes.                                                        *)
LEMMA FulfillClientSide ==
  ASSUME IInv, NEW m \in answers, FulfillBy(m)
  PROVE  ClientSide'
<1> DEFINE c == m.to
           n == m.number
           F == AfterFulfil(c, n, m.value).futures
           W == AfterFulfil(c, n, m.value).waiting
<1>1. c \in Clients /\ n \in Nat /\ m.value \in Values /\ m.value = <<c, n>>
  BY DEF IInv, TypeOK, AnswersAreTrue, Values
<1>2. /\ F \in Seq(Futures) /\ DOMAIN F = DOMAIN calls[c]
      /\ \A k \in DOMAIN calls[c] :
            F[k] = IF k \notin promises[c] THEN calls[c][k]
                   ELSE IF k = n THEN Fulfilled(calls[c][k], m.value)
                   ELSE TimedOut(calls[c][k])
      /\ W = {k \in promises[c] \ {n} : ~ShouldBeRemoved(calls[c][k])}
  <2> DEFINE v == m.value
             after == AfterFulfil(c, n, v)
  <2>1. TypeOK /\ PromisesAreOfCalls /\ KeptAreAwaited
    BY DEF IInv
  <2>2. c \in Clients /\ n \in Nat /\ v \in Values
    BY <1>1
  <2> HIDE DEF c, n, v
  <2>3. /\ after.futures \in Seq(Futures) /\ DOMAIN after.futures = DOMAIN calls[c]
        /\ \A k \in DOMAIN calls[c] :
              after.futures[k] = IF k \notin promises[c] THEN calls[c][k]
                                 ELSE IF k = n THEN Fulfilled(calls[c][k], v)
                                 ELSE TimedOut(calls[c][k])
        /\ after.waiting = {k \in promises[c] \ {n} : ~ShouldBeRemoved(calls[c][k])}
    BY <2>1, <2>2, AfterFulfilFacts
  <2>4. F = after.futures /\ W = after.waiting
    BY DEF v
  <2> HIDE DEF after, F, W
  <2>5. QED
    BY <2>3, <2>4 DEF v
<1>3. calls' = [calls EXCEPT ![c] = F] /\ promises' = [promises EXCEPT ![c] = W]
  BY DEF FulfillBy
<1> HIDE DEF F, W, c, n
<1>4. W \in SUBSET DOMAIN F
  BY <1>1, <1>2, CallFacts
<1>5. \A k \in DOMAIN F : /\ F[k].kept => k \in W /\ F[k].ends = <<>>
                          /\ Len(F[k].ends) <= 1
                          /\ Range(F[k].ends) \subseteq {<<c, k>>, Timeout}
  <2> SUFFICES ASSUME NEW k \in DOMAIN calls[c]
               PROVE  /\ F[k].kept => k \in W /\ F[k].ends = <<>>
                      /\ Len(F[k].ends) <= 1
                      /\ Range(F[k].ends) \subseteq {<<c, k>>, Timeout}
    BY <1>2
  <2>1. /\ calls[c][k] \in Futures /\ k \in Nat
        /\ calls[c][k].kept => k \in promises[c] /\ calls[c][k].ends = <<>>
        /\ Len(calls[c][k].ends) <= 1 /\ Range(calls[c][k].ends) \subseteq {<<c, k>>, Timeout}
    BY <1>1, CallFacts
  <2>2. CASE k \notin promises[c]
    BY <1>2, <2>1, <2>2
  <2>3. CASE k \in promises[c] /\ k = n
    <3>1. F[k] = Fulfilled(calls[c][k], <<c, k>>)
      BY <1>1, <1>2, <2>3
    <3>2. QED
      BY <1>1, <2>1, <3>1, EndsStayRight
  <2>4. CASE k \in promises[c] /\ k # n
    <3>1. F[k] = TimedOut(calls[c][k])
      BY <1>2, <2>4
    <3>2. F[k].kept => ~ShouldBeRemoved(calls[c][k]) /\ F[k].ends = <<>>
      BY <1>1, <2>1, <3>1, EndsStayRight
    <3>3. F[k].kept => k \in W
      BY <1>2, <2>4, <3>2
    <3>4. QED
      BY <1>1, <2>1, <3>1, <3>2, <3>3, EndsStayRight
  <2>5. QED
    BY <2>2, <2>3, <2>4
<1>6. QED
  BY <1>1, <1>2, <1>3, <1>4, <1>5, OneClientChanges

(* Every step keeps what holds of the clients.                             *)
LEMMA ClientSideStep == IInv /\ [Next]_vars => ClientSide'
<1> SUFFICES ASSUME IInv, [Next]_vars PROVE ClientSide'
  OBVIOUS
<1>1. ASSUME UNCHANGED <<calls, promises>> PROVE ClientSide'
  BY <1>1 DEF IInv, TypeOK, Futures, Values, ClientSide, PromisesAreOfCalls, KeptAreAwaited,
              CallEndsOnce, ResultIsOfItsCall
<1>2. ASSUME NEW c \in Clients, NEW sent \in BOOLEAN, NEW kept \in BOOLEAN,
             Invoke(c, sent, kept)
      PROVE  ClientSide'
  BY <1>2, InvokeClientSide
<1>3. ASSUME NEW c \in Clients, NEW n \in promises[c], DeadlinePasses(c, n) PROVE ClientSide'
  BY <1>3, DeadlineClientSide
<1>4. ASSUME NEW m \in answers, FulfillBy(m) PROVE ClientSide'
  BY <1>4, FulfillClientSide
<1>5. ASSUME NEW m \in requests, Calculate(m.to, m) PROVE ClientSide'
  BY <1>1, <1>5 DEF Calculate
<1>6. ASSUME NEW s \in Servers, CallIsLate(s) PROVE ClientSide'
  BY <1>1, <1>6 DEF CallIsLate
<1>7. ASSUME NEW s \in Servers, HandleOne(s) PROVE ClientSide'
  BY <1>1, <1>7 DEF HandleOne
<1>8. ASSUME NEW s \in Servers, NEW n \in DOMAIN pending[s], Work(s, n) PROVE ClientSide'
  BY <1>1, <1>8 DEF Work
<1>9. CASE Lose
  BY <1>1, <1>9 DEF Lose
<1>10. CASE UNCHANGED vars
  BY <1>1, <1>10 DEF vars
<1>11. QED
  BY <1>2, <1>3, <1>4, <1>5, <1>6, <1>7, <1>8, <1>9, <1>10 DEF Next

-----------------------------------------------------------------------------
(* The servers and the messages.                                           *)

(* The part of the invariant that is about them.                           *)
ServerSide ==
    /\ requests \subseteq [to : Servers, from : Clients, number : Nat]
    /\ answers \subseteq [to : Clients, number : Nat, value : Clients \X Nat, by : Servers]
    /\ DOMAIN pending = Servers
    /\ \A s \in Servers : /\ DOMAIN pending[s] \subseteq Nat
                          /\ \A n \in DOMAIN pending[s] : pending[s][n] \in Pending
    /\ AnswersAreTrue /\ faults \in Nat

(* What the invariant says of the servers.                                 *)
LEMMA ServerFacts == IInv => ServerSide
  BY DEF IInv, TypeOK, ServerSide, Pending

(* An answer to a call says the result of this call.                       *)
LEMMA AnswerIsTrue ==
  ASSUME NEW c \in Clients, NEW n \in Nat, NEW s \in Servers
  PROVE  /\ AnswerTo(c, n, <<c, n>>, s)
               \in [to : Clients, number : Nat, value : Clients \X Nat, by : Servers]
         /\ AnswerTo(c, n, <<c, n>>, s).value =
               <<AnswerTo(c, n, <<c, n>>, s).to, AnswerTo(c, n, <<c, n>>, s).number>>
  BY DEF AnswerTo

(* What becomes of the calls that a skeleton has not answered.             *)
LEMMA PendingSteps ==
  ASSUME NEW p \in Pending
  PROVE  [p EXCEPT !.late = TRUE] \in Pending /\ [p EXCEPT !.finished = TRUE] \in Pending
  BY DEF Pending

(* A nonempty set of numbers has a smallest one.                           *)
LEMMA MinIsIn ==
  ASSUME NEW T \in SUBSET Nat, T # {}
  PROVE  Min(T) \in T
<1>1. PICK x \in T : \A y \in T : ~(<<y, x>> \in OpToRel(<, Nat))
  BY NatLessThanWellFounded, WFMin
<1>2. OpToRel(<, Nat) = {ss \in Nat \X Nat : ss[1] < ss[2]}
  BY DEF OpToRel
<1>3. ASSUME NEW y \in T PROVE x <= y
  <2>1. ~(y < x)
    BY <1>1, <1>2
  <2>2. QED
    BY <2>1
<1>4. QED
  BY <1>3 DEF Min

(* The calls that are answered are pending.                                *)
LEMMA AnsweredArePending ==
  ASSUME ServerSide, NEW s \in Servers
  PROVE  /\ LazyNumbers(s).answered \subseteq DOMAIN pending[s]
         /\ AsyncNumbers(s).answered \subseteq DOMAIN pending[s]
<1>1. \A T \in SUBSET DOMAIN pending[s] : T # {} => Min(T) \in DOMAIN pending[s]
  BY MinIsIn DEF ServerSide
<1>2. QED
  BY <1>1 DEF LazyNumbers, AsyncNumbers

(* Every step keeps what holds of the servers.                             *)
LEMMA ServerSideStep == IInv /\ [Next]_vars => ServerSide'
<1> SUFFICES ASSUME IInv, ServerSide, [Next]_vars PROVE ServerSide'
  BY ServerFacts
<1> USE CallsAssumption
<1>1. ASSUME NEW c \in Clients, NEW sent \in BOOLEAN, NEW kept \in BOOLEAN,
             Invoke(c, sent, kept)
      PROVE  ServerSide'
  <2>1. {[to |-> s, from |-> c, number |-> Len(calls[c]) + 1] :
            s \in IF sent THEN Servers ELSE {}}
           \subseteq [to : Servers, from : Clients, number : Nat]
    BY CallFacts
  <2>2. QED
    BY <1>1, <2>1 DEF Invoke, ServerSide, AnswersAreTrue
<1>2. ASSUME NEW c \in Clients, NEW n \in promises[c], DeadlinePasses(c, n) PROVE ServerSide'
  BY <1>2 DEF DeadlinePasses, ServerSide, AnswersAreTrue
<1>3. ASSUME NEW m \in answers, FulfillBy(m) PROVE ServerSide'
  BY <1>3 DEF FulfillBy, ServerSide, AnswersAreTrue
<1>4. ASSUME NEW m \in requests, Calculate(m.to, m) PROVE ServerSide'
  <2>1. m.to \in Servers /\ m.from \in Clients /\ m.number \in Nat
    BY DEF ServerSide
  <2>2. CASE InvokeBy(m.to, m)
    <3>1. answers' = answers \cup {AnswerTo(m.from, m.number, <<m.from, m.number>>, m.to)}
      BY <2>2 DEF InvokeBy
    <3>2. /\ answers' \subseteq [to : Clients, number : Nat, value : Clients \X Nat, by : Servers]
          /\ AnswersAreTrue'
      <4> DEFINE a == AnswerTo(m.from, m.number, <<m.from, m.number>>, m.to)
                 Both == [to : Clients, number : Nat, value : Clients \X Nat, by : Servers]
      <4>1. a \in Both /\ a.value = <<a.to, a.number>>
        BY <2>1, AnswerIsTrue, SMTT(30)
      <4> HIDE DEF a, Both
      <4>2. answers' = answers \cup {a} /\ answers \subseteq Both
        BY <3>1 DEF a, Both, ServerSide
      <4>3. answers' \subseteq Both
        BY <4>1, <4>2
      <4>4. AnswersAreTrue'
        BY <4>1, <4>2 DEF ServerSide, AnswersAreTrue
      <4>5. QED
        BY <4>3, <4>4 DEF Both
    <3>3. QED
      BY <1>4, <2>2, <3>2 DEF Calculate, InvokeBy, ServerSide
  <2>3. CASE Enqueue(m.to, m)
    <3>1. CASE m.number \in DOMAIN pending[m.to]
      BY <1>4, <2>3, <3>1 DEF Calculate, Enqueue, ServerSide, AnswersAreTrue
    <3>2. CASE m.number \notin DOMAIN pending[m.to]
      <4> DEFINE call == [from |-> m.from, late |-> FALSE, finished |-> FALSE]
                 new  == [n \in DOMAIN pending[m.to] \cup {m.number} |->
                            IF n = m.number THEN call ELSE pending[m.to][n]]
      <4>1. call \in Pending
        BY <2>1 DEF Pending
      <4>2. /\ DOMAIN new = DOMAIN pending[m.to] \cup {m.number}
            /\ \A n \in DOMAIN new : new[n] = IF n = m.number THEN call ELSE pending[m.to][n]
        OBVIOUS
      <4>3. pending' = [pending EXCEPT ![m.to] = new]
        BY <2>3, <3>2 DEF Enqueue
      <4> HIDE DEF new, call
      <4>4. /\ DOMAIN pending' = Servers
            /\ \A s \in Servers : /\ DOMAIN pending'[s] \subseteq Nat
                                  /\ \A n \in DOMAIN pending'[s] : pending'[s][n] \in Pending
        <5>1. DOMAIN new \subseteq Nat /\ \A n \in DOMAIN new : new[n] \in Pending
          BY <2>1, <4>1, <4>2 DEF ServerSide
        <5>2. QED
          BY <2>1, <4>3, <5>1 DEF ServerSide
      <4>5. QED
        BY <1>4, <2>3, <4>4 DEF Calculate, Enqueue, ServerSide, AnswersAreTrue
    <3>3. QED
      BY <3>1, <3>2
  <2>4. QED
    BY <1>4, <2>2, <2>3 DEF Calculate
<1>5. ASSUME NEW s \in Servers, CallIsLate(s) PROVE ServerSide'
  <2>1. PICK n \in DOMAIN pending[s] : pending' = [pending EXCEPT ![s][n].late = TRUE]
    BY <1>5 DEF CallIsLate
  <2> DEFINE p == [pending[s][n] EXCEPT !.late = TRUE]
  <2>2. p \in Pending
    BY PendingSteps DEF ServerSide
  <2>3. pending' = [pending EXCEPT ![s] = [@ EXCEPT ![n] = p]]
    BY <2>1
  <2> HIDE DEF p
  <2>4. UNCHANGED <<requests, answers>> /\ faults' = faults + 1
    BY <1>5 DEF CallIsLate
  <2>5. QED
    BY <2>2, <2>3, <2>4 DEF ServerSide, AnswersAreTrue
<1>6. ASSUME NEW s \in Servers, NEW n \in DOMAIN pending[s], Work(s, n) PROVE ServerSide'
  <2>1. [pending[s][n] EXCEPT !.finished = TRUE] \in Pending
    BY PendingSteps DEF ServerSide
  <2>2. pending' = [pending EXCEPT ![s] = [@ EXCEPT ![n] = [pending[s][n] EXCEPT !.finished = TRUE]]]
    BY <1>6 DEF Work
  <2>3. QED
    BY <1>6, <2>1, <2>2 DEF Work, ServerSide, AnswersAreTrue
<1>7. ASSUME NEW s \in Servers, HandleOne(s) PROVE ServerSide'
  <2>1. PICK done \in {LazyNumbers(s), AsyncNumbers(s)} :
           /\ answers' = answers \cup {AnswerOf(s, n) : n \in done.answered}
           /\ pending' = [pending EXCEPT ![s] = Restrict(@, DOMAIN @ \ done.forgotten)]
    BY <1>7 DEF HandleOne
  <2>2. done.answered \subseteq DOMAIN pending[s]
    BY <2>1, AnsweredArePending
  <2>3. \A n \in done.answered :
           /\ AnswerOf(s, n) \in [to : Clients, number : Nat, value : Clients \X Nat, by : Servers]
           /\ AnswerOf(s, n).value = <<AnswerOf(s, n).to, AnswerOf(s, n).number>>
    BY <2>2, AnswerIsTrue DEF AnswerOf, ServerSide, Pending
  <2>4. /\ answers' \subseteq [to : Clients, number : Nat, value : Clients \X Nat, by : Servers]
        /\ AnswersAreTrue'
    BY <2>1, <2>3 DEF ServerSide, AnswersAreTrue
  <2>5. /\ DOMAIN pending' = Servers
        /\ \A t \in Servers : /\ DOMAIN pending'[t] \subseteq Nat
                              /\ \A n \in DOMAIN pending'[t] : pending'[t][n] \in Pending
    BY <2>1 DEF ServerSide, Restrict
  <2>6. QED
    BY <1>7, <2>4, <2>5 DEF HandleOne, ServerSide
<1>8. CASE Lose
  BY <1>8 DEF Lose, ServerSide, AnswersAreTrue
<1>9. CASE UNCHANGED vars
  BY <1>9 DEF vars, ServerSide, AnswersAreTrue
<1>10. QED
  BY <1>1, <1>2, <1>3, <1>4, <1>5, <1>6, <1>7, <1>8, <1>9 DEF Next

-----------------------------------------------------------------------------
(* The inductive invariant.                                                *)

(* At the start no call was made, so nothing is there to be matched.       *)
LEMMA InitIInv == Init => IInv
<1> SUFFICES ASSUME Init PROVE IInv
  OBVIOUS
<1> USE DEF Init
<1>1. TypeOK
  BY EmptySeq DEF TypeOK
<1>2. PromisesAreOfCalls /\ KeptAreAwaited /\ CallEndsOnce /\ ResultIsOfItsCall
  BY DEF PromisesAreOfCalls, KeptAreAwaited, CallEndsOnce, ResultIsOfItsCall
<1>3. QED
  BY <1>1, <1>2 DEF IInv, AnswersAreTrue

(* Every step keeps the invariant.                                         *)
LEMMA StepIInv == IInv /\ [Next]_vars => IInv'
<1> SUFFICES ASSUME IInv, [Next]_vars PROVE IInv'
  OBVIOUS
<1>1. ClientSide' /\ ServerSide'
  BY ClientSideStep, ServerSideStep
<1>2. TypeOK'
  BY <1>1 DEF ClientSide, ServerSide, TypeOK, Futures, Values, Pending
<1>3. QED
  BY <1>1, <1>2 DEF IInv, ClientSide, ServerSide

(* The state of clients, servers and messages keeps its type, and the      *)
(* invariant behind the properties of the futures holds: what a future     *)
(* that is still there needs is in the invoker's table of promises.        *)
THEOREM InvariantHolds == Spec => []IInv
  BY InitIInv, StepIInv, PTL DEF Spec

(* However many servers answer a call and however late, at most one        *)
(* handler of its future is called (future.cpp, promise::fulfill and       *)
(* pending_promises::update).                                              *)
THEOREM CallsEndOnce == Spec => []CallEndsOnce
<1>1. IInv => CallEndsOnce
  BY DEF IInv
<1>2. QED
  BY <1>1, InvariantHolds, PTL

(* A result that a future is given is that of its very call, although the  *)
(* calls of all clients have the same numbers and each skeleton knows its  *)
(* pending calls by their number alone (invoker.cpp, skeleton.cpp).        *)
THEOREM ResultsAreOfTheirCalls == Spec => []ResultIsOfItsCall
<1>1. IInv => ResultIsOfItsCall
  BY DEF IInv
<1>2. QED
  BY <1>1, InvariantHolds, PTL

-----------------------------------------------------------------------------
(* What an answer does to all calls of its client.                         *)

EndsOverdue ==
    \A m \in answers \ answers' : faults' = faults =>
        \A n \in DOMAIN calls[m.to] : calls[m.to][n].late =>
            n \notin promises'[m.to] /\ (calls[m.to][n].kept => calls'[m.to][n].ends # <<>>)

(* An answer ends the calls that are overdue.                              *)
LEMMA FulfillEndsOverdue ==
  ASSUME IInv, NEW m \in answers, FulfillBy(m)
  PROVE  EndsOverdue
<1> DEFINE c == m.to
           F == AfterFulfil(c, m.number, m.value).futures
           W == AfterFulfil(c, m.number, m.value).waiting
<1>1. c \in Clients /\ m.number \in Nat /\ m.value \in Values
  BY DEF IInv, TypeOK, Values
<1>2. /\ \A k \in DOMAIN calls[c] :
            F[k] = IF k \notin promises[c] THEN calls[c][k]
                   ELSE IF k = m.number THEN Fulfilled(calls[c][k], m.value)
                   ELSE TimedOut(calls[c][k])
      /\ W = {k \in promises[c] \ {m.number} : ~ShouldBeRemoved(calls[c][k])}
  BY <1>1, AfterFulfilFacts DEF IInv
<1>3. calls'[c] = F /\ promises'[c] = W /\ answers' = answers \ {m}
  <2>1. DOMAIN calls = Clients /\ DOMAIN promises = Clients
    BY DEF IInv, TypeOK
  <2>2. QED
    BY <1>1, <2>1 DEF FulfillBy
<1> HIDE DEF F, W
<1>4. ASSUME NEW n \in DOMAIN calls[c], calls[c][n].late
      PROVE  n \notin W /\ (calls[c][n].kept => F[n].ends # <<>>)
  <2>1. n \notin W
    BY <1>2, <1>4 DEF ShouldBeRemoved
  <2>2. ASSUME calls[c][n].kept PROVE F[n].ends # <<>>
    <3>1. calls[c][n] \in Futures /\ n \in promises[c] /\ calls[c][n].ends = <<>>
      BY <1>1, <2>2, CallFacts
    <3>2. CASE n = m.number
      <4>1. F[n] = Fulfilled(calls[c][n], m.value)
        BY <1>2, <3>1, <3>2
      <4>2. Fulfilled(calls[c][n], m.value).ends = <<Timeout>>
        BY <1>1, <1>4, <2>2, <3>1, FutureSteps
      <4>3. QED
        BY <4>1, <4>2
    <3>3. CASE n # m.number
      <4>1. F[n] = TimedOut(calls[c][n])
        BY <1>2, <3>1, <3>3
      <4>2. TimedOut(calls[c][n]).ends = <<Timeout>>
        BY <1>1, <1>4, <2>2, <3>1, FutureSteps
      <4>3. QED
        BY <4>1, <4>2
    <3>4. QED
      BY <3>2, <3>3
  <2>3. QED
    BY <2>1, <2>2
<1>5. QED
  BY <1>3, <1>4 DEF EndsOverdue

(* No other step has to.                                                   *)
LEMMA StepEndsOverdue == IInv /\ [Next]_vars => [EndsOverdue]_vars
<1> SUFFICES ASSUME IInv, Next PROVE EndsOverdue
  OBVIOUS
<1>1. ASSUME answers \subseteq answers' PROVE EndsOverdue
  BY <1>1 DEF EndsOverdue
<1>2. ASSUME NEW c \in Clients, NEW sent \in BOOLEAN, NEW kept \in BOOLEAN,
             Invoke(c, sent, kept)
      PROVE  EndsOverdue
  BY <1>1, <1>2 DEF Invoke
<1>3. ASSUME NEW c \in Clients, NEW n \in promises[c], DeadlinePasses(c, n) PROVE EndsOverdue
  BY <1>1, <1>3 DEF DeadlinePasses
<1>4. ASSUME NEW m \in answers, FulfillBy(m) PROVE EndsOverdue
  BY <1>4, FulfillEndsOverdue
<1>5. ASSUME NEW m \in requests, Calculate(m.to, m) PROVE EndsOverdue
  BY <1>1, <1>5 DEF Calculate, InvokeBy, Enqueue
<1>6. ASSUME NEW s \in Servers, CallIsLate(s) PROVE EndsOverdue
  BY <1>1, <1>6 DEF CallIsLate
<1>7. ASSUME NEW s \in Servers, HandleOne(s) PROVE EndsOverdue
  <2>1. answers \subseteq answers'
    BY <1>7 DEF HandleOne
  <2>2. QED
    BY <1>1, <2>1
<1>8. ASSUME NEW s \in Servers, NEW n \in DOMAIN pending[s], Work(s, n) PROVE EndsOverdue
  BY <1>1, <1>8 DEF Work
<1>9. CASE Lose
  BY <1>9, ServerFacts DEF Lose, EndsOverdue, ServerSide
<1>10. QED
  BY <1>2, <1>3, <1>4, <1>5, <1>6, <1>7, <1>8, <1>9 DEF Next

(* When an answer comes, of whatever call, every call of this client that  *)
(* is overdue is ended and not waited for any more (future.cpp,            *)
(* pending_promises::update, called by fulfill).                           *)
THEOREM OverdueCallsAreEnded == Spec => OverdueAreEnded
<1>1. IInv /\ [Next]_vars => [EndsOverdue]_vars
  BY StepEndsOverdue
<1>2. Spec => [][EndsOverdue]_vars
  BY <1>1, InvariantHolds, PTL DEF Spec
<1>3. QED
  BY <1>2, PTL DEF OverdueAreEnded, EndsOverdue

-----------------------------------------------------------------------------
(* What is computed step by step, for sequences of any length.             *)

(* A set of numbers that is not empty has a smallest one.                  *)
LEMMA SmallestNumber ==
  ASSUME NEW S \in SUBSET Nat, S # {}
  PROVE  \E x \in S : \A y \in S : x <= y
<1>1. PICK x \in S : \A y \in S : ~(<<y, x>> \in OpToRel(<, Nat))
  BY NatLessThanWellFounded, WFMin
<1>2. OpToRel(<, Nat) = {ss \in Nat \X Nat : ss[1] < ss[2]}
  BY DEF OpToRel
<1>3. ASSUME NEW y \in S PROVE x <= y
  <2>1. ~(y < x)
    BY <1>1, <1>2
  <2>2. QED
    BY <2>1
<1>4. QED
  BY <1>3

(* Each step after the first leads from one of the sets to the next.       *)
LEMMA StepsStay ==
  ASSUME NEW N \in Nat, NEW T, 0 \in T,
         \A i \in 1 .. N : i - 1 \in T => i \in T
  PROVE  \A i \in 0 .. N : i \in T
<1> DEFINE U == (0 .. N) \ T
<1>1. SUFFICES ASSUME U # {} PROVE FALSE
  OBVIOUS
<1>2. PICK x \in U : \A y \in U : x <= y
  <2>1. U \in SUBSET Nat
    OBVIOUS
  <2> HIDE DEF U
  <2>2. QED
    BY <1>1, <2>1, SmallestNumber
<1>3. x \in 1 .. N /\ x \notin T /\ x - 1 \in 0 .. N /\ ~(x <= x - 1)
  OBVIOUS
<1>4. x - 1 \in T
  BY <1>2, <1>3
<1>5. QED
  BY <1>3, <1>4

(* What holds of the first value, and is kept, holds of all.               *)
LEMMA StaysWithin ==
  ASSUME NEW N \in Nat, NEW S, NEW f, f[0] \in S[0],
         \A i \in 1 .. N : f[i - 1] \in S[i - 1] => f[i] \in S[i]
  PROVE  \A i \in 0 .. N : f[i] \in S[i]
<1> DEFINE T == {i \in 0 .. N : f[i] \in S[i]}
<1>1. 0 \in T /\ \A i \in 1 .. N : i - 1 \in T => i \in T
  OBVIOUS
<1> HIDE DEF T
<1>2. \A i \in 0 .. N : i \in T
  BY <1>1, StepsStay
<1> USE DEF T
<1>3. QED
  BY <1>2

(* A computation of N steps F that begins with first, and that there is one. *)
Computes(f, N, first, F) ==
    f = [i \in 0 .. N |-> IF i = 0 THEN first ELSE F[<<i, f[i - 1]>>]]

(* There is a function that is computed step by step.                      *)
LEMMA StepByStep ==
  ASSUME NEW N \in Nat, NEW first, NEW F
  PROVE  \E f : Computes(f, N, first, F)
<1> USE DEF Computes
<1> DEFINE Is(f, k) == Computes(f, k, first, F)
           T == {k \in 0 .. N : \E f : Is(f, k)}
<1>1. 0 \in T
  <2> DEFINE f == [i \in 0 .. 0 |-> first]
             g == [i \in 0 .. 0 |-> IF i = 0 THEN first ELSE F[<<i, f[i - 1]>>]]
  <2>1. f = g
    <3>1. \A i \in 0 .. 0 : i = 0
      OBVIOUS
    <3>2. QED
      BY <3>1
  <2>2. Is(f, 0)
    BY <2>1
  <2> HIDE DEF Is, Computes
  <2>3. QED
    BY <2>2
<1>2. ASSUME NEW k \in 1 .. N, k - 1 \in T PROVE k \in T
  <2>1. PICK f : Is(f, k - 1)
    BY <1>2
  <2> DEFINE g == [i \in 0 .. k |-> IF i = k THEN F[<<k, f[k - 1]>>] ELSE f[i]]
             h == [i \in 0 .. k |-> IF i = 0 THEN first ELSE F[<<i, g[i - 1]>>]]
  <2>2. ASSUME NEW i \in 0 .. k PROVE g[i] = h[i]
    <3>1. CASE i = 0
      <4>1. i # k /\ i \in 0 .. k - 1
        BY <3>1
      <4>2. f[i] = first
        BY <2>1, <3>1, <4>1
      <4>3. QED
        BY <3>1, <4>1, <4>2
    <3>2. CASE i \in 1 .. k - 1
      <4>1. i # k /\ i # 0 /\ i - 1 \in 0 .. k /\ i - 1 # k /\ i \in 0 .. k - 1
        BY <3>2
      <4>2. f[i] = F[<<i, f[i - 1]>>]
        BY <2>1, <4>1
      <4>3. g[i] = f[i] /\ g[i - 1] = f[i - 1]
        BY <4>1
      <4>4. h[i] = F[<<i, g[i - 1]>>]
        BY <4>1
      <4> HIDE DEF g, h
      <4>5. QED
        BY <4>2, <4>3, <4>4
    <3>3. CASE i = k
      <4>1. i # 0 /\ i - 1 \in 0 .. k /\ i - 1 # k
        BY <3>3
      <4>2. g[i] = F[<<k, f[k - 1]>>] /\ g[i - 1] = f[k - 1]
        BY <3>3, <4>1
      <4>3. h[i] = F[<<i, g[i - 1]>>]
        BY <4>1
      <4> HIDE DEF g, h
      <4>4. QED
        BY <3>3, <4>2, <4>3
    <3>4. QED
      BY <3>1, <3>2, <3>3
  <2>3. g = h
    BY <2>2
  <2>4. Is(g, k)
    BY <2>3
  <2> HIDE DEF Is, Computes
  <2>5. QED
    BY <2>4
<1>3. N \in T
  <2> HIDE DEF T
  <2>1. \A i \in 0 .. N : i \in T
    BY <1>1, <1>2, StepsStay
  <2>2. QED
    BY <2>1
<1>4. \E f : Is(f, N)
  <2> HIDE DEF Is, Computes
  <2>1. QED
    BY <1>3
<1> HIDE DEF T, Computes
<1>5. QED
  BY <1>4, Zenon

ComputesWithin(f, N, S, first, F) ==
    /\ DOMAIN f = 0 .. N /\ f = [i \in 0 .. N |-> f[i]] /\ f[0] = first
    /\ \A i \in 1 .. N : f[i] = F[<<i, f[i - 1]>>]
    /\ \A i \in 0 .. N : f[i] \in S[i]

(* There is one whose values are what the steps keep them within.          *)
LEMMA StepsWithin ==
  ASSUME NEW N \in Nat, NEW S, NEW first \in S[0], NEW F,
         \A i \in 1 .. N : \A x \in S[i - 1] : F[<<i, x>>] \in S[i]
  PROVE  \E f : ComputesWithin(f, N, S, first, F)
<1>1. PICK f : Computes(f, N, first, F)
  BY StepByStep
<1>2. /\ DOMAIN f = 0 .. N /\ f = [i \in 0 .. N |-> f[i]] /\ f[0] = first
      /\ \A i \in 1 .. N : f[i] = F[<<i, f[i - 1]>>]
  <2>1. 0 \in 0 .. N /\ \A i \in 1 .. N : i \in 0 .. N /\ i # 0
    OBVIOUS
  <2>2. QED
    BY <1>1, <2>1 DEF Computes
<1>3. \A i \in 1 .. N : f[i - 1] \in S[i - 1] => f[i] \in S[i]
  BY <1>2
<1>4. \A i \in 0 .. N : f[i] \in S[i]
  BY <1>2, <1>3, StaysWithin
<1>5. ComputesWithin(f, N, S, first, F)
  BY <1>2, <1>4 DEF ComputesWithin
<1>6. QED
  BY <1>5

-----------------------------------------------------------------------------
(* The same of each recursive function of the model: what it computes stays *)
(* in the sets between which its steps lead.                               *)

(* What is picked from a queue                                             *)
LEMMA PickedStays ==
  ASSUME NEW queue, NEW at, Len(queue) \in Nat, NEW S, <<>> \in S[0],
         \A i \in 1 .. Len(queue) : \A s \in S[i - 1] : (IF i \in at THEN Append(s, queue[i]) ELSE s) \in S[i]
  PROVE  Picked(queue, at) \in S[Len(queue)]
<1> DEFINE N == Len(queue)
           First == <<>>
           all == UNION {S[i] : i \in 0 .. N}
           G(i, s) == IF i \in at THEN Append(s, queue[i]) ELSE s
           F == [z \in (1 .. N) \X all |-> G(z[1], z[2])]
           Eqn(f) == f = [i \in 0 .. N |-> IF i = 0 THEN First ELSE G(i, f[i - 1])]
           this == CHOOSE f : Eqn(f)
<1>1. Picked(queue, at) = this[N]
  BY DEF Picked
<1>2. N \in Nat /\ First \in S[0] /\ \A i \in 1 .. N : \A s \in S[i - 1] : G(i, s) \in S[i]
  OBVIOUS
<1> HIDE DEF N, First, G
<1>3. \A i \in 1 .. N : \A s \in S[i - 1] : F[<<i, s>>] = G(i, s)
  <2>1. \A i \in 1 .. N : i - 1 \in 0 .. N
    BY <1>2
  <2>2. QED
    BY <2>1
<1>4. ASSUME NEW i \in 1 .. N, NEW s \in S[i - 1] PROVE F[<<i, s>>] \in S[i]
  <2> HIDE DEF F
  <2>1. F[<<i, s>>] = G(i, s)
    BY <1>3
  <2>2. QED
    BY <1>2, <2>1
<1>5. PICK f : ComputesWithin(f, N, S, First, F)
  <2> HIDE DEF F
  <2>1. QED
    BY <1>2, <1>4, StepsWithin
<1> USE DEF ComputesWithin
<1>6. \A i \in 1 .. N : f[i] = G(i, f[i - 1])
  <2>1. \A i \in 1 .. N : i - 1 \in 0 .. N
    BY <1>2
  <2> HIDE DEF F
  <2>2. QED
    BY <1>3, <1>5, <2>1
<1>7. Eqn(f)
  <2> HIDE DEF F
  <2>1. \A i \in 0 .. N : f[i] = IF i = 0 THEN First ELSE G(i, f[i - 1])
    <3>1. \A i \in 0 .. N : i = 0 \/ i \in 1 .. N
      BY <1>2
    <3>2. QED
      BY <1>5, <1>6, <3>1
  <2>2. QED
    BY <1>5, <2>1
<1>8. Eqn(this)
  <2> HIDE DEF Eqn
  <2>1. QED
    BY <1>7
<1>9. this[0] = First /\ \A i \in 1 .. N : this[i] = G(i, this[i - 1])
  <2> HIDE DEF this
  <2>1. 0 \in 0 .. N /\ \A i \in 1 .. N : i \in 0 .. N /\ i # 0
    BY <1>2
  <2>2. QED
    BY <1>8, <2>1
<1> HIDE DEF this
<1>10. \A i \in 1 .. N : this[i - 1] \in S[i - 1] => this[i] \in S[i]
  BY <1>2, <1>9
<1>11. \A i \in 0 .. N : this[i] \in S[i]
  BY <1>2, <1>9, <1>10, StaysWithin
<1>12. N \in 0 .. N
  BY <1>2
<1>13. QED
  BY <1>1, <1>11, <1>12 DEF N

(* What the observer hears                                                 *)
LEMMA HeardStays ==
  ASSUME NEW h, NEW messages, Len(messages) \in Nat, NEW S, h \in S[0],
         \A i \in 1 .. Len(messages) : \A s \in S[i - 1] : (Hear(s, messages[i])) \in S[i]
  PROVE  Heard(h, messages) \in S[Len(messages)]
<1> DEFINE N == Len(messages)
           First == h
           all == UNION {S[i] : i \in 0 .. N}
           G(i, s) == Hear(s, messages[i])
           F == [z \in (1 .. N) \X all |-> G(z[1], z[2])]
           Eqn(f) == f = [i \in 0 .. N |-> IF i = 0 THEN First ELSE G(i, f[i - 1])]
           this == CHOOSE f : Eqn(f)
<1>1. Heard(h, messages) = this[N]
  BY DEF Heard
<1>2. N \in Nat /\ First \in S[0] /\ \A i \in 1 .. N : \A s \in S[i - 1] : G(i, s) \in S[i]
  OBVIOUS
<1> HIDE DEF N, First, G
<1>3. \A i \in 1 .. N : \A s \in S[i - 1] : F[<<i, s>>] = G(i, s)
  <2>1. \A i \in 1 .. N : i - 1 \in 0 .. N
    BY <1>2
  <2>2. QED
    BY <2>1
<1>4. ASSUME NEW i \in 1 .. N, NEW s \in S[i - 1] PROVE F[<<i, s>>] \in S[i]
  <2> HIDE DEF F
  <2>1. F[<<i, s>>] = G(i, s)
    BY <1>3
  <2>2. QED
    BY <1>2, <2>1
<1>5. PICK f : ComputesWithin(f, N, S, First, F)
  <2> HIDE DEF F
  <2>1. QED
    BY <1>2, <1>4, StepsWithin
<1> USE DEF ComputesWithin
<1>6. \A i \in 1 .. N : f[i] = G(i, f[i - 1])
  <2>1. \A i \in 1 .. N : i - 1 \in 0 .. N
    BY <1>2
  <2> HIDE DEF F
  <2>2. QED
    BY <1>3, <1>5, <2>1
<1>7. Eqn(f)
  <2> HIDE DEF F
  <2>1. \A i \in 0 .. N : f[i] = IF i = 0 THEN First ELSE G(i, f[i - 1])
    <3>1. \A i \in 0 .. N : i = 0 \/ i \in 1 .. N
      BY <1>2
    <3>2. QED
      BY <1>5, <1>6, <3>1
  <2>2. QED
    BY <1>5, <2>1
<1>8. Eqn(this)
  <2> HIDE DEF Eqn
  <2>1. QED
    BY <1>7
<1>9. this[0] = First /\ \A i \in 1 .. N : this[i] = G(i, this[i - 1])
  <2> HIDE DEF this
  <2>1. 0 \in 0 .. N /\ \A i \in 1 .. N : i \in 0 .. N /\ i # 0
    BY <1>2
  <2>2. QED
    BY <1>8, <2>1
<1> HIDE DEF this
<1>10. \A i \in 1 .. N : this[i - 1] \in S[i - 1] => this[i] \in S[i]
  BY <1>2, <1>9
<1>11. \A i \in 0 .. N : this[i] \in S[i]
  BY <1>2, <1>9, <1>10, StaysWithin
<1>12. N \in 0 .. N
  BY <1>2
<1>13. QED
  BY <1>1, <1>11, <1>12 DEF N

(* What the router notes                                                   *)
LEMMA RoutedInfoStays ==
  ASSUME NEW known, NEW messages, Len(messages) \in Nat, NEW S, known \in S[0],
         \A i \in 1 .. Len(messages) : \A s \in S[i - 1] : (UpdatedInfo(s, messages[i])) \in S[i]
  PROVE  RoutedInfo(known, messages) \in S[Len(messages)]
<1> DEFINE N == Len(messages)
           First == known
           all == UNION {S[i] : i \in 0 .. N}
           G(i, s) == UpdatedInfo(s, messages[i])
           F == [z \in (1 .. N) \X all |-> G(z[1], z[2])]
           Eqn(f) == f = [i \in 0 .. N |-> IF i = 0 THEN First ELSE G(i, f[i - 1])]
           this == CHOOSE f : Eqn(f)
<1>1. RoutedInfo(known, messages) = this[N]
  BY DEF RoutedInfo
<1>2. N \in Nat /\ First \in S[0] /\ \A i \in 1 .. N : \A s \in S[i - 1] : G(i, s) \in S[i]
  OBVIOUS
<1> HIDE DEF N, First, G
<1>3. \A i \in 1 .. N : \A s \in S[i - 1] : F[<<i, s>>] = G(i, s)
  <2>1. \A i \in 1 .. N : i - 1 \in 0 .. N
    BY <1>2
  <2>2. QED
    BY <2>1
<1>4. ASSUME NEW i \in 1 .. N, NEW s \in S[i - 1] PROVE F[<<i, s>>] \in S[i]
  <2> HIDE DEF F
  <2>1. F[<<i, s>>] = G(i, s)
    BY <1>3
  <2>2. QED
    BY <1>2, <2>1
<1>5. PICK f : ComputesWithin(f, N, S, First, F)
  <2> HIDE DEF F
  <2>1. QED
    BY <1>2, <1>4, StepsWithin
<1> USE DEF ComputesWithin
<1>6. \A i \in 1 .. N : f[i] = G(i, f[i - 1])
  <2>1. \A i \in 1 .. N : i - 1 \in 0 .. N
    BY <1>2
  <2> HIDE DEF F
  <2>2. QED
    BY <1>3, <1>5, <2>1
<1>7. Eqn(f)
  <2> HIDE DEF F
  <2>1. \A i \in 0 .. N : f[i] = IF i = 0 THEN First ELSE G(i, f[i - 1])
    <3>1. \A i \in 0 .. N : i = 0 \/ i \in 1 .. N
      BY <1>2
    <3>2. QED
      BY <1>5, <1>6, <3>1
  <2>2. QED
    BY <1>5, <2>1
<1>8. Eqn(this)
  <2> HIDE DEF Eqn
  <2>1. QED
    BY <1>7
<1>9. this[0] = First /\ \A i \in 1 .. N : this[i] = G(i, this[i - 1])
  <2> HIDE DEF this
  <2>1. 0 \in 0 .. N /\ \A i \in 1 .. N : i \in 0 .. N /\ i # 0
    BY <1>2
  <2>2. QED
    BY <1>8, <2>1
<1> HIDE DEF this
<1>10. \A i \in 1 .. N : this[i - 1] \in S[i - 1] => this[i] \in S[i]
  BY <1>2, <1>9
<1>11. \A i \in 0 .. N : this[i] \in S[i]
  BY <1>2, <1>9, <1>10, StaysWithin
<1>12. N \in 0 .. N
  BY <1>2
<1>13. QED
  BY <1>1, <1>11, <1>12 DEF N

(* What an endpoint fetches                                                *)
LEMMA FetchedStays ==
  ASSUME NEW e, Len(toEp[e]) \in Nat, NEW S, [q |-> incoming[e], out |-> outgoing[e]] \in S[0],
         \A i \in 1 .. Len(toEp[e]) : \A s \in S[i - 1] : (IF Program(e).actor THEN Accept(e, s, toEp[e][i]) ELSE [s EXCEPT !.q = Store(@, toEp[e][i])]) \in S[i]
  PROVE  Fetched(e) \in S[Len(toEp[e])]
<1> DEFINE N == Len(toEp[e])
           First == [q |-> incoming[e], out |-> outgoing[e]]
           all == UNION {S[i] : i \in 0 .. N}
           G(i, s) == IF Program(e).actor THEN Accept(e, s, toEp[e][i]) ELSE [s EXCEPT !.q = Store(@, toEp[e][i])]
           F == [z \in (1 .. N) \X all |-> G(z[1], z[2])]
           Eqn(f) == f = [i \in 0 .. N |-> IF i = 0 THEN First ELSE G(i, f[i - 1])]
           this == CHOOSE f : Eqn(f)
<1>1. Fetched(e) = this[N]
  BY DEF Fetched
<1>2. N \in Nat /\ First \in S[0] /\ \A i \in 1 .. N : \A s \in S[i - 1] : G(i, s) \in S[i]
  OBVIOUS
<1> HIDE DEF N, First, G
<1>3. \A i \in 1 .. N : \A s \in S[i - 1] : F[<<i, s>>] = G(i, s)
  <2>1. \A i \in 1 .. N : i - 1 \in 0 .. N
    BY <1>2
  <2>2. QED
    BY <2>1
<1>4. ASSUME NEW i \in 1 .. N, NEW s \in S[i - 1] PROVE F[<<i, s>>] \in S[i]
  <2> HIDE DEF F
  <2>1. F[<<i, s>>] = G(i, s)
    BY <1>3
  <2>2. QED
    BY <1>2, <2>1
<1>5. PICK f : ComputesWithin(f, N, S, First, F)
  <2> HIDE DEF F
  <2>1. QED
    BY <1>2, <1>4, StepsWithin
<1> USE DEF ComputesWithin
<1>6. \A i \in 1 .. N : f[i] = G(i, f[i - 1])
  <2>1. \A i \in 1 .. N : i - 1 \in 0 .. N
    BY <1>2
  <2> HIDE DEF F
  <2>2. QED
    BY <1>3, <1>5, <2>1
<1>7. Eqn(f)
  <2> HIDE DEF F
  <2>1. \A i \in 0 .. N : f[i] = IF i = 0 THEN First ELSE G(i, f[i - 1])
    <3>1. \A i \in 0 .. N : i = 0 \/ i \in 1 .. N
      BY <1>2
    <3>2. QED
      BY <1>5, <1>6, <3>1
  <2>2. QED
    BY <1>5, <2>1
<1>8. Eqn(this)
  <2> HIDE DEF Eqn
  <2>1. QED
    BY <1>7
<1>9. this[0] = First /\ \A i \in 1 .. N : this[i] = G(i, this[i - 1])
  <2> HIDE DEF this
  <2>1. 0 \in 0 .. N /\ \A i \in 1 .. N : i \in 0 .. N /\ i # 0
    BY <1>2
  <2>2. QED
    BY <1>8, <2>1
<1> HIDE DEF this
<1>10. \A i \in 1 .. N : this[i - 1] \in S[i - 1] => this[i] \in S[i]
  BY <1>2, <1>9
<1>11. \A i \in 0 .. N : this[i] \in S[i]
  BY <1>2, <1>9, <1>10, StaysWithin
<1>12. N \in 0 .. N
  BY <1>2
<1>13. QED
  BY <1>1, <1>11, <1>12 DEF N

(* What its objects process                                                *)
LEMMA ProcessAllStays ==
  ASSUME NEW e, NEW q, NEW refused, Len(HandlersOf(e)) \in Nat, NEW S, [q |-> q, out |-> <<>>, handled |-> handled[e], heard |-> heard] \in S[0],
         \A i \in 1 .. Len(HandlersOf(e)) : \A s \in S[i - 1] : (ProcessType(e, s, HandlersOf(e)[i], refused)) \in S[i]
  PROVE  ProcessAll(e, q, refused) \in S[Len(HandlersOf(e))]
<1> DEFINE N == Len(HandlersOf(e))
           First == [q |-> q, out |-> <<>>, handled |-> handled[e], heard |-> heard]
           all == UNION {S[i] : i \in 0 .. N}
           G(i, s) == ProcessType(e, s, HandlersOf(e)[i], refused)
           F == [z \in (1 .. N) \X all |-> G(z[1], z[2])]
           Eqn(f) == f = [i \in 0 .. N |-> IF i = 0 THEN First ELSE G(i, f[i - 1])]
           this == CHOOSE f : Eqn(f)
<1>1. ProcessAll(e, q, refused) = this[N]
  BY DEF ProcessAll
<1>2. N \in Nat /\ First \in S[0] /\ \A i \in 1 .. N : \A s \in S[i - 1] : G(i, s) \in S[i]
  OBVIOUS
<1> HIDE DEF N, First, G
<1>3. \A i \in 1 .. N : \A s \in S[i - 1] : F[<<i, s>>] = G(i, s)
  <2>1. \A i \in 1 .. N : i - 1 \in 0 .. N
    BY <1>2
  <2>2. QED
    BY <2>1
<1>4. ASSUME NEW i \in 1 .. N, NEW s \in S[i - 1] PROVE F[<<i, s>>] \in S[i]
  <2> HIDE DEF F
  <2>1. F[<<i, s>>] = G(i, s)
    BY <1>3
  <2>2. QED
    BY <1>2, <2>1
<1>5. PICK f : ComputesWithin(f, N, S, First, F)
  <2> HIDE DEF F
  <2>1. QED
    BY <1>2, <1>4, StepsWithin
<1> USE DEF ComputesWithin
<1>6. \A i \in 1 .. N : f[i] = G(i, f[i - 1])
  <2>1. \A i \in 1 .. N : i - 1 \in 0 .. N
    BY <1>2
  <2> HIDE DEF F
  <2>2. QED
    BY <1>3, <1>5, <2>1
<1>7. Eqn(f)
  <2> HIDE DEF F
  <2>1. \A i \in 0 .. N : f[i] = IF i = 0 THEN First ELSE G(i, f[i - 1])
    <3>1. \A i \in 0 .. N : i = 0 \/ i \in 1 .. N
      BY <1>2
    <3>2. QED
      BY <1>5, <1>6, <3>1
  <2>2. QED
    BY <1>5, <2>1
<1>8. Eqn(this)
  <2> HIDE DEF Eqn
  <2>1. QED
    BY <1>7
<1>9. this[0] = First /\ \A i \in 1 .. N : this[i] = G(i, this[i - 1])
  <2> HIDE DEF this
  <2>1. 0 \in 0 .. N /\ \A i \in 1 .. N : i \in 0 .. N /\ i # 0
    BY <1>2
  <2>2. QED
    BY <1>8, <2>1
<1> HIDE DEF this
<1>10. \A i \in 1 .. N : this[i - 1] \in S[i - 1] => this[i] \in S[i]
  BY <1>2, <1>9
<1>11. \A i \in 0 .. N : this[i] \in S[i]
  BY <1>2, <1>9, <1>10, StaysWithin
<1>12. N \in 0 .. N
  BY <1>2
<1>13. QED
  BY <1>1, <1>11, <1>12 DEF N

(* What some sequences become, one after the other                         *)
LEMMA FlattenStays ==
  ASSUME NEW T, NEW seqs \in Seq(Seq(T)), NEW S, <<>> \in S[0],
         \A i \in 1 .. Len(seqs) : \A s \in S[i - 1] : s \o seqs[i] \in S[i]
  PROVE  FlattenSeq(seqs) \in S[Len(seqs)]
<1> DEFINE N == Len(seqs)
           all == UNION {S[i] : i \in 0 .. N}
           F == [z \in (1 .. N) \X all |-> z[2] \o seqs[z[1]]]
           First == <<>>
           Eqn(f) == f = [i \in 1 .. N |-> IF i = 1 THEN seqs[i] ELSE f[i - 1] \o seqs[i]]
           this == CHOOSE f : Eqn(f)
<1>1. N \in Nat /\ \A i \in 1 .. N : seqs[i] \in Seq(T)
  OBVIOUS
<1>2. CASE N = 0
  <2>1. FlattenSeq(seqs) = <<>>
    BY <1>2 DEF FlattenSeq
  <2>2. QED
    BY <1>2, <2>1
<1>3. CASE N # 0
  <2>1. FlattenSeq(seqs) = this[N]
    BY <1>3 DEF FlattenSeq
  <2>2. \A i \in 1 .. N : \A s \in S[i - 1] : s \o seqs[i] \in S[i]
    OBVIOUS
  <2> HIDE DEF N
  <2>3. \A i \in 1 .. N : \A s \in S[i - 1] : F[<<i, s>>] = s \o seqs[i]
    <3>1. \A i \in 1 .. N : i - 1 \in 0 .. N
      BY <1>1
    <3>2. QED
      BY <3>1
  <2>4. ASSUME NEW i \in 1 .. N, NEW s \in S[i - 1] PROVE F[<<i, s>>] \in S[i]
    <3> HIDE DEF F
    <3>1. F[<<i, s>>] = s \o seqs[i]
      BY <2>3
    <3>2. QED
      BY <2>2, <3>1
  <2>5. PICK f : ComputesWithin(f, N, S, First, F)
    <3>1. First \in S[0]
      OBVIOUS
    <3> HIDE DEF F, First
    <3>2. QED
      BY <1>1, <2>4, <3>1, StepsWithin
  <2>6. \A i \in 1 .. N : f[i] = f[i - 1] \o seqs[i]
    <3>1. \A i \in 1 .. N : i - 1 \in 0 .. N
      BY <1>1
    <3> HIDE DEF F
    <3>2. QED
      BY <2>3, <2>5, <3>1 DEF ComputesWithin
  <2>7. f[1] = seqs[1]
    <3>1. 1 \in 1 .. N /\ 1 - 1 = 0
      BY <1>1, <1>3
    <3> DEFINE before == f[1 - 1]
    <3>2. f[1] = <<>> \o seqs[1]
      <4>1. f[0] = <<>>
        BY <2>5 DEF ComputesWithin
      <4>2. f[1] = before \o seqs[1]
        <5> HIDE DEF F
        <5>1. QED
          BY <2>6, <3>1
      <4>3. before = <<>>
        BY <3>1, <4>1
      <4> HIDE DEF before
      <4>4. QED
        BY <4>2, <4>3
    <3>3. seqs[1] \in Seq(T)
      BY <1>1, <3>1
    <3>4. <<>> \o seqs[1] = seqs[1]
      BY <3>3, ConcatEmptySeq
    <3>5. QED
      BY <3>2, <3>4
  <2> DEFINE g == [i \in 1 .. N |-> f[i]]
  <2>8. Eqn(g)
    <3>1. \A i \in 1 .. N : g[i] = f[i]
      OBVIOUS
    <3>2. \A i \in 1 .. N : i = 1 \/ i - 1 \in 1 .. N
      BY <1>1
    <3>3. g = [i \in 1 .. N |-> g[i]] /\ DOMAIN g = 1 .. N
      OBVIOUS
    <3> HIDE DEF g, F
    <3>4. \A i \in 1 .. N : g[i] = IF i = 1 THEN seqs[i] ELSE g[i - 1] \o seqs[i]
      BY <2>6, <2>7, <3>1, <3>2
    <3>5. QED
      BY <3>3, <3>4
  <2>9. Eqn(this)
    <3> HIDE DEF Eqn
    <3>1. QED
      BY <2>8
  <2> HIDE DEF this, F, g
  <2>10. /\ this[1] = seqs[1]
         /\ \A i \in 2 .. N : this[i] = this[i - 1] \o seqs[i]
    <3>1. 1 \in 1 .. N /\ \A i \in 2 .. N : i \in 1 .. N /\ i # 1
      BY <1>1, <1>3
    <3>2. QED
      BY <2>9, <3>1
  <2> DEFINE U == {i \in 0 .. N : i = 0 \/ this[i] \in S[i]}
  <2>11. 0 \in U
    BY <1>1
  <2>12. ASSUME NEW i \in 1 .. N, i - 1 \in U PROVE i \in U
    <3>1. CASE i = 1
      <4>1. <<>> \o seqs[1] \in S[1] /\ 1 \in 1 .. N
        <5>1. 1 \in 1 .. N /\ 1 - 1 = 0
          BY <3>1
        <5>2. \A s \in S[1 - 1] : s \o seqs[1] \in S[1]
          BY <2>2, <5>1
        <5>3. <<>> \in S[1 - 1]
          BY <5>1
        <5> DEFINE none == <<>>
        <5>4. none \in S[1 - 1]
          BY <5>3
        <5> HIDE DEF none
        <5>5. none \o seqs[1] \in S[1]
          BY <5>2, <5>4
        <5>6. QED
          BY <5>1, <5>5 DEF none
      <4>2. <<>> \o seqs[1] = seqs[1]
        BY <1>1, <4>1, ConcatEmptySeq
      <4>3. QED
        BY <1>1, <2>10, <3>1, <4>1, <4>2
    <3>2. CASE i # 1
      <4>1. i \in 2 .. N /\ i - 1 # 0 /\ i \in 0 .. N
        BY <1>1, <3>2
      <4>2. this[i - 1] \in S[i - 1]
        BY <2>12, <4>1
      <4>3. this[i] \in S[i]
        BY <2>2, <2>10, <4>1, <4>2
      <4>4. QED
        BY <4>1, <4>3
    <3>3. QED
      BY <3>1, <3>2
  <2>13. N \in U
    <3> HIDE DEF U
    <3>1. \A i \in 0 .. N : i \in U
      BY <1>1, <2>11, <2>12, StepsStay
    <3>2. QED
      BY <1>1, <3>1
  <2>14. QED
    BY <1>3, <2>1, <2>13 DEF N
<1>4. QED
  BY <1>2, <1>3

-----------------------------------------------------------------------------
(* Queues, and the numbers of the data in them.                            *)

(* An empty queue holds no numbers.                                        *)
LEMMA NoNumbers == NumbersIn(<<>>) = {} /\ Single(<<>>)
  BY DEF NumbersIn, Single

(* A queue of one message.                                                 *)
LEMMA OneNumber ==
  ASSUME NEW M, NEW m \in M
  PROVE  <<m>> \in Seq(M) /\ NumbersIn(<<m>>) = {m.no} \ {0} /\ Single(<<m>>)
<1>1. <<m>> \in Seq(M) /\ DOMAIN <<m>> = 1 .. 1 /\ <<m>>[1] = m
  OBVIOUS
<1>2. \A i \in DOMAIN <<m>> : i = 1
  BY <1>1
<1>3. 1 \in DOMAIN <<m>>
  BY <1>1
<1> DEFINE s == <<m>>
<1>4. s[1] = m /\ s \in Seq(M) /\ 1 \in DOMAIN s /\ \A i \in DOMAIN s : i = 1
  BY <1>1, <1>2, <1>3
<1> HIDE DEF s
<1>5. NumbersIn(s) = {m.no} \ {0}
  BY <1>4 DEF NumbersIn
<1>6. Single(s)
  BY <1>4 DEF Single
<1>7. QED
  BY <1>4, <1>5, <1>6 DEF s

(* Two queues, one after the other.                                        *)
LEMMA ConcatNumbers ==
  ASSUME NEW M, NEW s \in Seq(M), NEW t \in Seq(M)
  PROVE  /\ s \o t \in Seq(M) /\ NumbersIn(s \o t) = NumbersIn(s) \cup NumbersIn(t)
         /\ Single(s) /\ Single(t) /\ NumbersIn(s) \cap NumbersIn(t) = {} => Single(s \o t)
<1> DEFINE w == s \o t
           a == Len(s)
           b == Len(t)
<1>1. /\ w \in Seq(M) /\ DOMAIN w = 1 .. a + b /\ DOMAIN s = 1 .. a /\ DOMAIN t = 1 .. b
      /\ a \in Nat /\ b \in Nat
  BY ConcatProperties, LenProperties
<1>2. \A i \in 1 .. a : w[i] = s[i] /\ i \in 1 .. a + b
  BY <1>1, ConcatProperties
<1>3. \A i \in 1 .. b : w[a + i] = t[i] /\ a + i \in 1 .. a + b
  <2>1. ASSUME NEW i \in 1 .. b PROVE w[a + i] = t[i] /\ a + i \in 1 .. a + b
    <3>1. a + i \in 1 .. a + b /\ ~(a + i <= a) /\ a + i - a = i
      BY <1>1
    <3>2. w[a + i] = t[a + i - a]
      BY <3>1, ConcatProperties
    <3>3. QED
      BY <3>1, <3>2
  <2>2. QED
    BY <2>1
<1>4. \A k \in 1 .. a + b : k \in 1 .. a \/ \E i \in 1 .. b : k = a + i
  <2>1. ASSUME NEW k \in 1 .. a + b, k \notin 1 .. a PROVE \E i \in 1 .. b : k = a + i
    <3>1. k - a \in 1 .. b /\ k = a + (k - a)
      BY <1>1, <2>1
    <3>2. QED
      BY <3>1
  <2>2. QED
    BY <2>1
<1> HIDE DEF w, a, b
<1>5. NumbersIn(w) = NumbersIn(s) \cup NumbersIn(t)
  <2>1. ASSUME NEW n \in NumbersIn(w) PROVE n \in NumbersIn(s) \cup NumbersIn(t)
    <3>1. PICK k \in 1 .. a + b : n = w[k].no /\ n # 0
      BY <1>1 DEF NumbersIn
    <3>2. CASE k \in 1 .. a
      BY <1>1, <1>2, <3>1, <3>2 DEF NumbersIn
    <3>3. CASE \E i \in 1 .. b : k = a + i
      BY <1>1, <1>3, <3>1, <3>3 DEF NumbersIn
    <3>4. QED
      BY <1>4, <3>2, <3>3
  <2>2. ASSUME NEW n \in NumbersIn(s) PROVE n \in NumbersIn(w)
    BY <1>1, <1>2 DEF NumbersIn
  <2>3. ASSUME NEW n \in NumbersIn(t) PROVE n \in NumbersIn(w)
    <3>1. PICK i \in 1 .. b : n = t[i].no /\ n # 0
      BY <1>1 DEF NumbersIn
    <3>2. w[a + i] = t[i] /\ a + i \in 1 .. a + b
      BY <1>3
    <3>3. QED
      BY <1>1, <3>1, <3>2 DEF NumbersIn
  <2>4. QED
    BY <2>1, <2>2, <2>3
<1>6. ASSUME Single(s), Single(t), NumbersIn(s) \cap NumbersIn(t) = {} PROVE Single(w)
  <2>1. SUFFICES ASSUME NEW k \in 1 .. a + b, NEW l \in 1 .. a + b, w[k].no = w[l].no, w[k].no # 0
                 PROVE  k = l
    BY <1>1 DEF Single
  <2>2. ASSUME NEW i \in 1 .. a, NEW j \in 1 .. b, s[i].no = t[j].no, s[i].no # 0 PROVE FALSE
    <3>1. s[i].no \in NumbersIn(s) /\ t[j].no \in NumbersIn(t)
      BY <1>1, <2>2 DEF NumbersIn
    <3>2. QED
      BY <1>6, <2>2, <3>1
  <2>3. CASE k \in 1 .. a /\ l \in 1 .. a
    BY <1>1, <1>2, <1>6, <2>1, <2>3 DEF Single
  <2>4. CASE k \in 1 .. a /\ l \notin 1 .. a
    <3>1. PICK j \in 1 .. b : l = a + j
      BY <1>4, <2>4
    <3>2. QED
      BY <1>2, <1>3, <2>1, <2>2, <2>4, <3>1
  <2>5. CASE k \notin 1 .. a /\ l \in 1 .. a
    <3>1. PICK j \in 1 .. b : k = a + j
      BY <1>4, <2>5
    <3>2. QED
      BY <1>2, <1>3, <2>1, <2>2, <2>5, <3>1
  <2>6. CASE k \notin 1 .. a /\ l \notin 1 .. a
    <3>1. PICK i \in 1 .. b : k = a + i
      BY <1>4, <2>6
    <3>2. PICK j \in 1 .. b : l = a + j
      BY <1>4, <2>6
    <3>3. t[i].no = t[j].no /\ t[i].no # 0
      BY <1>3, <2>1, <3>1, <3>2
    <3>4. i = j
      BY <1>1, <1>6, <3>3 DEF Single
    <3>5. QED
      BY <3>1, <3>2, <3>4
  <2>7. QED
    BY <2>3, <2>4, <2>5, <2>6
<1>7. QED
  BY <1>1, <1>5, <1>6 DEF w

(* A piece of a queue has no other numbers, and pieces that follow each    *)
(* other share none.                                                       *)
LEMMA PieceNumbers ==
  ASSUME NEW M, NEW s \in Seq(M), NEW k \in 0 .. Len(s)
  PROVE  /\ SubSeq(s, 1, k) \in Seq(M) /\ SubSeq(s, k + 1, Len(s)) \in Seq(M)
         /\ NumbersIn(SubSeq(s, 1, k)) \subseteq NumbersIn(s)
         /\ NumbersIn(SubSeq(s, k + 1, Len(s))) \subseteq NumbersIn(s)
         /\ Single(s) => /\ Single(SubSeq(s, 1, k)) /\ Single(SubSeq(s, k + 1, Len(s)))
                         /\ NumbersIn(SubSeq(s, 1, k)) \cap NumbersIn(SubSeq(s, k + 1, Len(s))) = {}
<1> DEFINE u == SubSeq(s, 1, k)
           v == SubSeq(s, k + 1, Len(s))
           b == Len(s)
<1>1. b \in Nat /\ k \in 0 .. b /\ DOMAIN s = 1 .. b /\ \A i \in 1 .. b : s[i] \in M
  OBVIOUS
<1>2. u \in Seq(M) /\ Len(u) = k /\ \A i \in 1 .. k : u[i] = s[i]
  <2>1. 1 \in Int /\ k \in Int /\ \A i \in 1 .. k : s[i] \in M
    BY <1>1
  <2>2. /\ u \in Seq(M) /\ Len(u) = (IF 1 <= k THEN k - 1 + 1 ELSE 0)
        /\ \A i \in 1 .. k - 1 + 1 : u[i] = s[1 + i - 1]
    BY <2>1, SubSeqProperties
  <2> HIDE DEF u
  <2>3. QED
    BY <1>1, <2>2
<1>3. v \in Seq(M) /\ Len(v) = b - k /\ \A i \in 1 .. b - k : v[i] = s[k + i]
  <2>1. k + 1 \in Int /\ b \in Int /\ \A i \in k + 1 .. b : s[i] \in M
    BY <1>1
  <2>2. /\ v \in Seq(M) /\ Len(v) = (IF k + 1 <= b THEN b - (k + 1) + 1 ELSE 0)
        /\ \A i \in 1 .. b - (k + 1) + 1 : v[i] = s[k + 1 + i - 1]
    BY <2>1, SubSeqProperties
  <2> HIDE DEF v, b
  <2>3. Len(v) = b - k /\ b - (k + 1) + 1 = b - k
    BY <1>1, <2>2
  <2>4. ASSUME NEW i \in 1 .. b - k PROVE v[i] = s[k + i]
    <3>1. k + 1 + i - 1 = k + i
      BY <1>1
    <3>2. QED
      BY <2>2, <2>3, <3>1
  <2>5. QED
    BY <2>2, <2>3, <2>4
<1>4. DOMAIN u = 1 .. k /\ DOMAIN v = 1 .. b - k
  BY <1>2, <1>3, LenProperties
<1> HIDE DEF u, v, b
<1>5. \A i \in 1 .. k : i \in 1 .. b
  BY <1>1
<1>6. \A i \in 1 .. b - k : k + i \in 1 .. b /\ k + i \notin 1 .. k
  BY <1>1
<1>7. NumbersIn(u) \subseteq NumbersIn(s)
  BY <1>1, <1>2, <1>4, <1>5 DEF NumbersIn
<1>8. NumbersIn(v) \subseteq NumbersIn(s)
  <2>1. SUFFICES ASSUME NEW n \in NumbersIn(v) PROVE n \in NumbersIn(s)
    OBVIOUS
  <2>2. PICK i \in 1 .. b - k : n = v[i].no /\ n # 0
    BY <1>4 DEF NumbersIn
  <2>3. n = s[k + i].no /\ k + i \in DOMAIN s
    BY <1>1, <1>3, <1>6, <2>2
  <2>4. QED
    BY <2>2, <2>3 DEF NumbersIn
<1>9. ASSUME Single(s) PROVE Single(u) /\ Single(v) /\ NumbersIn(u) \cap NumbersIn(v) = {}
  <2>1. \A x, y \in 1 .. b : s[x].no = s[y].no /\ s[x].no # 0 => x = y
    BY <1>1, <1>9 DEF Single
  <2>2. Single(u)
    BY <1>2, <1>4, <1>5, <2>1 DEF Single
  <2>3. Single(v)
    <3>1. SUFFICES ASSUME NEW i \in 1 .. b - k, NEW j \in 1 .. b - k, v[i].no = v[j].no, v[i].no # 0
                   PROVE  i = j
      BY <1>4 DEF Single
    <3>2. s[k + i].no = s[k + j].no /\ s[k + i].no # 0
      BY <1>3, <3>1
    <3>3. k + i = k + j
      BY <1>6, <2>1, <3>2
    <3>4. QED
      BY <1>1, <3>3
  <2>4. ASSUME NEW n \in NumbersIn(u), n \in NumbersIn(v) PROVE FALSE
    <3>1. PICK i \in 1 .. k : n = u[i].no /\ n # 0
      BY <1>4 DEF NumbersIn
    <3>2. PICK j \in 1 .. b - k : n = v[j].no
      BY <1>4, <2>4 DEF NumbersIn
    <3>3. s[i].no = s[k + j].no /\ s[i].no # 0
      BY <1>2, <1>3, <3>1, <3>2
    <3>4. i = k + j
      BY <1>5, <1>6, <2>1, <3>3
    <3>5. QED
      BY <1>6, <3>4
  <2>5. QED
    BY <2>2, <2>3, <2>4
<1>10. QED
  BY <1>2, <1>3, <1>7, <1>8, <1>9 DEF u, v, b

(* What inserting is.                                                      *)
LEMMA InsertIs ==
  ASSUME NEW s, NEW p, NEW m
  PROVE  InsertAt(s, p, m) = SubSeq(s, 1, p - 1) \o <<m>> \o SubSeq(s, p, Len(s))
  BY DEF InsertAt

(* A queue into which a message was inserted.                              *)
LEMMA InsertNumbers ==
  ASSUME NEW M, NEW s \in Seq(M), NEW m \in M, NEW k \in 0 .. Len(s)
  PROVE  /\ InsertAt(s, k + 1, m) \in Seq(M)
         /\ NumbersIn(InsertAt(s, k + 1, m)) \subseteq NumbersIn(s) \cup ({m.no} \ {0})
         /\ Single(s) /\ m.no \notin NumbersIn(s) => Single(InsertAt(s, k + 1, m))
<1> DEFINE u == SubSeq(s, 1, k)
           v == SubSeq(s, k + 1, Len(s))
           w == <<m>>
<1>1. /\ u \in Seq(M) /\ v \in Seq(M)
      /\ NumbersIn(u) \subseteq NumbersIn(s) /\ NumbersIn(v) \subseteq NumbersIn(s)
      /\ Single(s) => Single(u) /\ Single(v) /\ NumbersIn(u) \cap NumbersIn(v) = {}
  BY PieceNumbers
<1>2. w \in Seq(M) /\ NumbersIn(w) = {m.no} \ {0} /\ Single(w)
  BY OneNumber
<1>3. InsertAt(s, k + 1, m) = u \o w \o v
  <2> DEFINE p == k + 1
  <2>1. p - 1 = k /\ v = SubSeq(s, p, Len(s))
    OBVIOUS
  <2> HIDE DEF p
  <2>2. InsertAt(s, p, m) = SubSeq(s, 1, p - 1) \o <<m>> \o SubSeq(s, p, Len(s))
    BY InsertIs
  <2>3. InsertAt(s, p, m) = u \o w \o v
    <3> HIDE DEF v
    <3>1. QED
      BY <2>1, <2>2
  <2>4. QED
    BY <2>3 DEF p
<1> HIDE DEF u, v, w
<1>4. /\ u \o w \in Seq(M) /\ NumbersIn(u \o w) = NumbersIn(u) \cup NumbersIn(w)
      /\ Single(u) /\ Single(w) /\ NumbersIn(u) \cap NumbersIn(w) = {} => Single(u \o w)
  BY <1>1, <1>2, ConcatNumbers
<1> DEFINE x == u \o w
<1>5. x \in Seq(M)
  BY <1>4
<1> HIDE DEF x
<1>6. /\ x \o v \in Seq(M) /\ NumbersIn(x \o v) = NumbersIn(x) \cup NumbersIn(v)
      /\ Single(x) /\ Single(v) /\ NumbersIn(x) \cap NumbersIn(v) = {} => Single(x \o v)
  BY <1>1, <1>5, ConcatNumbers
<1>7. /\ InsertAt(s, k + 1, m) = x \o v /\ NumbersIn(x) = NumbersIn(u) \cup NumbersIn(w)
      /\ Single(u) /\ Single(w) /\ NumbersIn(u) \cap NumbersIn(w) = {} => Single(x)
  BY <1>3, <1>4 DEF x
<1>8. NumbersIn(InsertAt(s, k + 1, m)) \subseteq NumbersIn(s) \cup ({m.no} \ {0})
  BY <1>1, <1>2, <1>6, <1>7
<1>9. ASSUME Single(s), m.no \notin NumbersIn(s) PROVE Single(InsertAt(s, k + 1, m))
  <2>1. NumbersIn(u) \cap NumbersIn(w) = {} /\ NumbersIn(v) \cap NumbersIn(w) = {}
    BY <1>1, <1>2, <1>9
  <2>2. Single(x)
    BY <1>1, <1>2, <1>7, <1>9, <2>1
  <2>3. NumbersIn(x) \cap NumbersIn(v) = {}
    BY <1>1, <1>7, <1>9, <2>1
  <2>4. QED
    BY <1>1, <1>6, <1>7, <1>9, <2>2, <2>3
<1>10. QED
  BY <1>6, <1>7, <1>8, <1>9

(* A queue after a push, wherever the message was put.                     *)
LEMMA PushNumbers ==
  ASSUME NEW M, NEW s \in Seq(M), NEW m \in M
  PROVE  /\ Push(s, m) \in Seq(M)
         /\ NumbersIn(Push(s, m)) \subseteq NumbersIn(s) \cup ({m.no} \ {0})
         /\ Single(s) /\ m.no \notin NumbersIn(s) => Single(Push(s, m))
<1> DEFINE before == {i \in DOMAIN s : s[i].pri < m.pri}
           k == Cardinality(before)
<1>1. DOMAIN s = 1 .. Len(s) /\ Len(s) \in Nat
  BY LenProperties
<1>2. IsFiniteSet(1 .. Len(s)) /\ Cardinality(1 .. Len(s)) = Len(s)
  <2>1. 1 \in Int /\ Len(s) \in Int /\ (Len(s) = 0 \/ ~(1 > Len(s)))
    BY <1>1
  <2>2. IsFiniteSet(1 .. Len(s)) /\ Cardinality(1 .. Len(s)) = IF 1 > Len(s) THEN 0 ELSE Len(s) - 1 + 1
    BY <2>1, FS_Interval
  <2>3. QED
    BY <1>1, <2>1, <2>2
<1>3. k \in 0 .. Len(s)
  <2>1. before \in SUBSET (1 .. Len(s))
    BY <1>1
  <2> HIDE DEF before
  <2>2. IsFiniteSet(before) /\ k <= Len(s)
    BY <1>2, <2>1, FS_Subset
  <2>3. k \in Nat
    BY <2>2, FS_CardinalityType
  <2>4. QED
    BY <1>1, <2>2, <2>3
<1>4. Push(s, m) = InsertAt(s, 1 + k, m)
  BY DEF Push
<1> HIDE DEF k
<1>5. 1 + k = k + 1
  BY <1>3
<1>6. QED
  BY <1>3, <1>4, <1>5, InsertNumbers

(* What is picked from a queue is in it.                                   *)
LEMMA PickedNumbers ==
  ASSUME NEW M, NEW s \in Seq(M), NEW at
  PROVE  /\ Picked(s, at) \in Seq(M)
         /\ \A x \in 1 .. Len(Picked(s, at)) : \E j \in at \cap (1 .. Len(s)) : Picked(s, at)[x] = s[j]
         /\ Single(s) => Single(Picked(s, at))
<1> DEFINE N == Len(s)
           Of(t, i) == \A x \in 1 .. Len(t) : \E j \in at \cap (1 .. i) : t[x] = s[j]
           S == [i \in 0 .. N |-> {t \in Seq(M) : Of(t, i) /\ (Single(s) => Single(t))}]
           none == <<>>
<1>1. N \in Nat /\ DOMAIN s = 1 .. N /\ \A i \in 1 .. N : s[i] \in M /\ i \in 0 .. N /\ i - 1 \in 0 .. N
  OBVIOUS
<1>2. none \in S[0]
  <2>1. none \in Seq(M) /\ Of(none, 0) /\ Single(none) /\ 0 \in 0 .. N
    BY <1>1, NoNumbers
  <2> HIDE DEF Of, none
  <2>2. QED
    BY <2>1
<1>3. ASSUME NEW i \in 1 .. N, NEW t \in S[i - 1]
      PROVE  (IF i \in at THEN Append(t, s[i]) ELSE t) \in S[i]
  <2>1. t \in Seq(M) /\ Of(t, i - 1) /\ (Single(s) => Single(t))
    <3> HIDE DEF Of
    <3>1. QED
      BY <1>1
  <2>2. \A j \in 1 .. i - 1 : j \in 1 .. i /\ j # i /\ j \in 1 .. N
    OBVIOUS
  <2>3. CASE i \notin at
    <3>1. Of(t, i)
      BY <2>1, <2>2
    <3> HIDE DEF Of
    <3>2. QED
      BY <1>1, <2>1, <2>3, <3>1
  <2>4. CASE i \in at
    <3> DEFINE w == Append(t, s[i])
               b == Len(t)
    <3>1. /\ w \in Seq(M) /\ Len(w) = b + 1 /\ b \in Nat /\ w[b + 1] = s[i]
          /\ \A x \in 1 .. b : w[x] = t[x]
      BY <1>1, <2>1, AppendProperties
    <3>a. DOMAIN t = 1 .. b
      BY <2>1
    <3> HIDE DEF w, b
    <3>b. DOMAIN w = 1 .. b + 1
      BY <3>1
    <3>c. \A x \in 1 .. b + 1 : x \in 1 .. b \/ x = b + 1
      BY <3>1
    <3>2. DOMAIN w = 1 .. b + 1 /\ DOMAIN t = 1 .. b /\ \A x \in 1 .. b + 1 : x \in 1 .. b \/ x = b + 1
      BY <3>a, <3>b, <3>c
    <3>3. Of(w, i)
      <4>1. SUFFICES ASSUME NEW x \in 1 .. Len(w) PROVE \E j \in at \cap (1 .. i) : w[x] = s[j]
        OBVIOUS
      <4>2. CASE x = b + 1
        BY <2>4, <3>1, <4>2
      <4>3. CASE x \in 1 .. b
        <5>1. PICK j \in at \cap (1 .. i - 1) : t[x] = s[j]
          BY <2>1, <4>3 DEF b
        <5>2. QED
          BY <2>2, <3>1, <4>3, <5>1
      <4>4. QED
        BY <3>1, <3>2, <4>2, <4>3
    <3>4. ASSUME Single(s) PROVE Single(w)
      <4>1. \A x \in 1 .. b : t[x].no = s[i].no => s[i].no = 0
        <5>1. SUFFICES ASSUME NEW x \in 1 .. b, t[x].no = s[i].no, s[i].no # 0 PROVE FALSE
          OBVIOUS
        <5>2. PICK j \in at \cap (1 .. i - 1) : t[x] = s[j]
          BY <2>1, <5>1 DEF b
        <5>3. j = i
          BY <1>1, <2>2, <3>4, <5>1, <5>2 DEF Single
        <5>4. QED
          BY <2>2, <5>2, <5>3
      <4>2. \A x, y \in 1 .. b : t[x].no = t[y].no /\ t[x].no # 0 => x = y
        BY <2>1, <3>2, <3>4 DEF Single
      <4>3. SUFFICES ASSUME NEW x \in 1 .. b + 1, NEW y \in 1 .. b + 1, w[x].no = w[y].no, w[x].no # 0
                     PROVE  x = y
        BY <3>2 DEF Single
      <4>4. CASE x \in 1 .. b /\ y \in 1 .. b
        BY <3>1, <4>2, <4>3, <4>4
      <4>5. CASE x \in 1 .. b /\ y = b + 1
        BY <3>1, <4>1, <4>3, <4>5
      <4>6. CASE x = b + 1 /\ y \in 1 .. b
        BY <3>1, <4>1, <4>3, <4>6
      <4>7. QED
        BY <3>2, <4>4, <4>5, <4>6
    <3> HIDE DEF Of
    <3>5. w \in S[i]
      BY <1>1, <3>1, <3>3, <3>4
    <3>6. QED
      BY <2>4, <3>5 DEF w
  <2>5. QED
    BY <2>3, <2>4
<1>4. Picked(s, at) \in S[N]
  <2> HIDE DEF S
  <2>1. <<>> \in S[0]
    BY <1>2
  <2>2. QED
    BY <1>1, <1>3, <2>1, PickedStays
<1>5. /\ Picked(s, at) \in Seq(M) /\ Of(Picked(s, at), N)
      /\ Single(s) => Single(Picked(s, at))
  <2> HIDE DEF Of
  <2>1. N \in 0 .. N
    BY <1>1
  <2>2. QED
    BY <1>4, <2>1
<1>6. QED
  BY <1>5

(* What is kept and what is done share no data.                            *)
LEMMA KeptAndDone ==
  ASSUME NEW M, NEW s \in Seq(M), NEW refused, Single(s)
  PROVE  /\ Kept(s, refused) \in Seq(M) /\ Done(s, refused) \in Seq(M)
         /\ Single(Kept(s, refused)) /\ Single(Done(s, refused))
         /\ NumbersIn(Kept(s, refused)) \subseteq NumbersIn(s)
         /\ NumbersIn(Done(s, refused)) \subseteq NumbersIn(s)
         /\ NumbersIn(Kept(s, refused)) \cap NumbersIn(Done(s, refused)) = {}
<1> DEFINE a == {i \in DOMAIN s : s[i] \in refused}
           b == {i \in DOMAIN s : s[i] \notin refused}
           u == Kept(s, refused)
           v == Done(s, refused)
<1>1. a \cap b = {} /\ DOMAIN s = 1 .. Len(s)
  OBVIOUS
<1>2. u = Picked(s, a) /\ v = Picked(s, b)
  BY DEF Kept, Done
<1> HIDE DEF a, b, u, v
<1>3. /\ u \in Seq(M) /\ Single(u)
      /\ \A x \in 1 .. Len(u) : \E j \in a \cap (1 .. Len(s)) : u[x] = s[j]
  BY <1>2, PickedNumbers
<1>4. /\ v \in Seq(M) /\ Single(v)
      /\ \A x \in 1 .. Len(v) : \E j \in b \cap (1 .. Len(s)) : v[x] = s[j]
  BY <1>2, PickedNumbers
<1>5. DOMAIN u = 1 .. Len(u) /\ DOMAIN v = 1 .. Len(v)
  BY <1>3, <1>4, LenProperties
<1>6. \A n \in NumbersIn(u) : n # 0 /\ \E j \in a \cap (1 .. Len(s)) : n = s[j].no
  <2>1. SUFFICES ASSUME NEW n \in NumbersIn(u)
                 PROVE  n # 0 /\ \E j \in a \cap (1 .. Len(s)) : n = s[j].no
    OBVIOUS
  <2>2. PICK x \in 1 .. Len(u) : n = u[x].no /\ n # 0
    BY <1>5 DEF NumbersIn
  <2>3. QED
    BY <1>3, <2>2
<1>7. \A n \in NumbersIn(v) : n # 0 /\ \E j \in b \cap (1 .. Len(s)) : n = s[j].no
  <2>1. SUFFICES ASSUME NEW n \in NumbersIn(v)
                 PROVE  n # 0 /\ \E j \in b \cap (1 .. Len(s)) : n = s[j].no
    OBVIOUS
  <2>2. PICK x \in 1 .. Len(v) : n = v[x].no /\ n # 0
    BY <1>5 DEF NumbersIn
  <2>3. QED
    BY <1>4, <2>2
<1>8. NumbersIn(u) \subseteq NumbersIn(s) /\ NumbersIn(v) \subseteq NumbersIn(s)
  BY <1>1, <1>6, <1>7 DEF NumbersIn
<1>9. ASSUME NEW n \in NumbersIn(u), n \in NumbersIn(v) PROVE FALSE
  <2>1. PICK i \in a \cap (1 .. Len(s)) : n = s[i].no
    BY <1>6
  <2>2. PICK j \in b \cap (1 .. Len(s)) : n = s[j].no
    BY <1>7, <1>9
  <2>3. n # 0
    BY <1>6
  <2>4. i = j
    BY <1>1, <2>1, <2>2, <2>3 DEF Single
  <2>5. QED
    BY <1>1, <2>4
<1>10. QED
  BY <1>3, <1>4, <1>8, <1>9 DEF u, v

(* The messages that are no data have no number.                           *)
LEMMA WithoutNumbers ==
  ASSUME NEW M, NEW s \in Seq(M), \A m \in M : m.no = 0
  PROVE  NumbersIn(s) = {} /\ Single(s)
<1>1. \A i \in DOMAIN s : s[i] \in M
  OBVIOUS
<1>2. \A i \in DOMAIN s : s[i].no = 0
  BY <1>1
<1>3. QED
  BY <1>2 DEF NumbersIn, Single

(* A finite set as a sequence.                                             *)
LEMMA SetToSeqIsSeq ==
  ASSUME NEW S, IsFiniteSet(S)
  PROVE  SetToSeq(S) \in Seq(S)
<1> DEFINE n == Cardinality(S)
           P(f) == f \in [1 .. n -> S] /\ IsInjective(f)
<1>1. n \in Nat /\ Bijection(1 .. n, S) # {}
  BY FS_CardinalityType DEF ExistsBijection
<1>2. PICK f : f \in Bijection(1 .. n, S)
  BY <1>1
<1>3. P(f)
  BY <1>2 DEF Bijection, Injection
<1>4. SetToSeq(S) = CHOOSE g \in [1 .. n -> S] : IsInjective(g)
  BY DEF SetToSeq
<1>5. SetToSeq(S) \in [1 .. n -> S]
  <2> HIDE DEF n
  <2>1. QED
    BY <1>3, <1>4
<1> HIDE DEF n
<1>6. QED
  BY <1>1, <1>5

(* Sequences after each other are a sequence.                              *)
LEMMA FlattenIsSeq ==
  ASSUME NEW T, NEW seqs \in Seq(Seq(T))
  PROVE  FlattenSeq(seqs) \in Seq(T)
<1> DEFINE N == Len(seqs)
           S == [i \in 0 .. N |-> Seq(T)]
           none == <<>>
<1>1. /\ N \in Nat /\ \A i \in 1 .. N : seqs[i] \in Seq(T)
      /\ \A i \in 0 .. N : S[i] = Seq(T)
      /\ \A i \in 1 .. N : i \in 0 .. N /\ i - 1 \in 0 .. N
      /\ 0 \in 0 .. N /\ N \in 0 .. N
  OBVIOUS
<1>2. none \in S[0]
  BY <1>1
<1> HIDE DEF S
<1>3. ASSUME NEW i \in 1 .. N, NEW s \in S[i - 1] PROVE s \o seqs[i] \in S[i]
  <2>1. s \in Seq(T) /\ seqs[i] \in Seq(T)
    BY <1>1
  <2>2. s \o seqs[i] \in Seq(T)
    BY <2>1, ConcatProperties
  <2>3. QED
    BY <1>1, <2>2
<1>4. <<>> \in S[0]
  BY <1>2
<1>5. FlattenSeq(seqs) \in S[N]
  BY <1>3, <1>4, FlattenStays
<1>6. QED
  BY <1>1, <1>5

-----------------------------------------------------------------------------
(* What was true stays true.                                               *)

(* The lives of processes go on: they never become others, and none gets   *)
(* back an object that was removed.                                        *)
Onward ==
    /\ \A e \in Endpoints : \A k \in DOMAIN ran[e] :
          /\ k \in DOMAIN ran'[e] /\ ran'[e][k] = ran[e][k]
          /\ \A type \in AllTypes \cup {"none"} : StillHandles(e, k, type)' => StillHandles(e, k, type)
    /\ posts \in Nat /\ posts' \in Nat /\ posts <= posts'

(* What was genuine stays genuine.                                         *)
LEMMA GenuineGrows ==
  ASSUME Onward
  PROVE  Genuine \subseteq Genuine' /\ \A e \in Endpoints : GenuineOf(e) \subseteq GenuineOf(e)'
<1>1. ASSUME NEW m \in Genuine PROVE m \in Genuine'
  <2>1. /\ m \in Messages /\ m.inst \in DOMAIN ran[m.from]
        /\ m.type = "subscribTo" => m.about \in DataOf(ran[m.from][m.inst])
        /\ m.type \in {"unsubFrom", "notSubTo"} => ~StillHandles(m.from, m.inst, m.about)
        /\ IF m.type \in Types THEN m.no \in 1 .. posts /\ m.from = Observer ELSE m.no = 0
    BY DEF Genuine
  <2>2. m.from \in Endpoints /\ m.about \in AllTypes \cup {"none"}
    BY <2>1 DEF Messages, AllTypes
  <2>3. m.inst \in DOMAIN ran'[m.from] /\ ran'[m.from][m.inst] = ran[m.from][m.inst]
    BY <2>1, <2>2 DEF Onward
  <2>4. m.type \in {"unsubFrom", "notSubTo"} => ~StillHandles(m.from, m.inst, m.about)'
    BY <2>1, <2>2 DEF Onward
  <2>5. m.no \in 1 .. posts => m.no \in 1 .. posts'
    BY DEF Onward
  <2>6. m.type = "subscribTo" => m.about \in DataOf(ran'[m.from][m.inst])
    BY <2>1, <2>3
  <2> DEFINE data == m.type \in Types
  <2>7. IF data THEN m.no \in 1 .. posts' /\ m.from = Observer ELSE m.no = 0
    BY <2>1, <2>5
  <2>8. /\ m \in Messages' /\ (m.inst \in DOMAIN ran[m.from])'
        /\ (m.type = "subscribTo" => m.about \in DataOf(ran[m.from][m.inst]))'
        /\ (m.type \in {"unsubFrom", "notSubTo"} => ~StillHandles(m.from, m.inst, m.about))'
        /\ (IF m.type \in Types THEN m.no \in 1 .. posts /\ m.from = Observer ELSE m.no = 0)'
    BY <2>1, <2>3, <2>4, <2>6, <2>7 DEF Messages
  <2>9. QED
    BY <2>8 DEF Genuine
<1>2. QED
  BY <1>1 DEF GenuineOf

(* What the router knew stays true.                                        *)
LEMMA InfosGrow ==
  ASSUME Onward, NEW e \in Endpoints
  PROVE  GenuineInfos(e) \subseteq GenuineInfos(e)'
<1>1. SUFFICES ASSUME NEW i \in GenuineInfos(e) PROVE i \in GenuineInfos(e)'
  OBVIOUS
<1>2. CASE i = None
  BY <1>2 DEF GenuineInfos
<1>3. CASE i # None
  <2>1. /\ i \in [inst : Nat, subs : SUBSET Types, unsubs : SUBSET (Types \cup {"none"})]
        /\ i.inst \in DOMAIN ran[e] /\ i.subs \subseteq DataOf(ran[e][i.inst])
    BY <1>3 DEF GenuineInfos
  <2>2. i.inst \in DOMAIN ran'[e] /\ ran'[e][i.inst] = ran[e][i.inst]
    BY <2>1 DEF Onward
  <2>3. (i.inst \in DOMAIN ran[e] /\ i.subs \subseteq DataOf(ran[e][i.inst]))'
    BY <2>1, <2>2
  <2>4. QED
    BY <2>1, <2>3 DEF GenuineInfos
<1>4. QED
  BY <1>2, <1>3

(* A process is an endpoint and the number of its start.                   *)
LEMMA ProcessFacts ==
  ASSUME NEW p \in Processes
  PROVE  p[1] \in Endpoints /\ p[2] \in Nat /\ p = <<p[1], p[2]>>
<1>1. PICK e \in Endpoints, b \in Budgets : p \in {e} \X (1 .. b.starts[e])
  BY DEF Processes
<1>2. QED
  BY <1>1

(* What the observer has heard stays true.                                 *)
LEMMA ReportsGrow ==
  ASSUME Onward
  PROVE  GenuineReports \subseteq GenuineReports'
<1>1. SUFFICES ASSUME NEW h \in GenuineReports PROVE h \in GenuineReports'
  OBVIOUS
<1>2. h \in [Processes -> [yes : SUBSET Types, no : SUBSET (Types \cup {"none"})]]
  BY DEF GenuineReports
<1>3. ASSUME NEW p \in Processes
      PROVE  /\ h[p].yes \cup h[p].no # {} => p[2] \in DOMAIN ran'[p[1]]
             /\ \A type \in h[p].yes : type \in DataOf(ran'[p[1]][p[2]])
             /\ \A type \in h[p].no : ~StillHandles(p[1], p[2], type)'
  <2>1. p[1] \in Endpoints
    BY ProcessFacts
  <2>2. /\ h[p].yes \cup h[p].no # {} => p[2] \in DOMAIN ran[p[1]]
        /\ \A type \in h[p].yes : type \in DataOf(ran[p[1]][p[2]])
        /\ \A type \in h[p].no : ~StillHandles(p[1], p[2], type)
    BY DEF GenuineReports
  <2>3. p[2] \in DOMAIN ran[p[1]] =>
           /\ p[2] \in DOMAIN ran'[p[1]] /\ ran'[p[1]][p[2]] = ran[p[1]][p[2]]
           /\ \A type \in AllTypes \cup {"none"} : StillHandles(p[1], p[2], type)' => StillHandles(p[1], p[2], type)
    BY <2>1 DEF Onward
  <2>4. h[p].no \subseteq AllTypes \cup {"none"}
    BY <1>2 DEF AllTypes
  <2>5. CASE h[p].yes \cup h[p].no = {}
    BY <2>5
  <2>6. CASE h[p].yes \cup h[p].no # {}
    <3>1. /\ p[2] \in DOMAIN ran'[p[1]] /\ ran'[p[1]][p[2]] = ran[p[1]][p[2]]
          /\ \A type \in AllTypes \cup {"none"} : StillHandles(p[1], p[2], type)' => StillHandles(p[1], p[2], type)
      BY <2>2, <2>3, <2>6
    <3>2. \A type \in h[p].yes : type \in DataOf(ran'[p[1]][p[2]])
      BY <2>2, <3>1
    <3>3. \A type \in h[p].no : ~StillHandles(p[1], p[2], type)'
      BY <2>2, <2>4, <3>1
    <3>4. QED
      BY <3>1, <3>2, <3>3
  <2>7. QED
    BY <2>5, <2>6
<1>4. QED
  BY <1>2, <1>3 DEF GenuineReports

-----------------------------------------------------------------------------
(* The queues of an endpoint.                                              *)

OfType(M, t) == {m \in M : m.type = t}

(* What the queues of an endpoint are.                                     *)
LEMMA QueueFacts ==
  ASSUME NEW M, NEW q \in QueuesOf(M)
  PROVE  /\ DOMAIN q \subseteq AllTypes /\ q = [t \in DOMAIN q |-> q[t]]
         /\ \A t \in DOMAIN q : /\ q[t] \in [count : Nat, queue : Seq(M)]
                                /\ q[t].queue \in Seq(OfType(M, t))
<1>1. PICK types \in SUBSET AllTypes : q \in [types -> [count : Nat, queue : Seq(M)]]
  BY DEF QueuesOf
<1>2. \A t \in DOMAIN q : \A i \in DOMAIN q[t].queue : q[t].queue[i].type = t
  BY DEF QueuesOf
<1>3. ASSUME NEW t \in DOMAIN q PROVE q[t].queue \in Seq(OfType(M, t))
  <2> DEFINE s == q[t].queue
             T == OfType(M, t)
  <2>1. s \in Seq(M) /\ \A i \in DOMAIN s : s[i].type = t
    BY <1>1, <1>2
  <2> HIDE DEF s
  <2>2. s \in [1 .. Len(s) -> T] /\ Len(s) \in Nat
    BY <2>1 DEF OfType
  <2> HIDE DEF T
  <2>3. s \in Seq(T)
    BY <2>2
  <2>4. QED
    BY <2>3 DEF s, T
<1>4. QED
  BY <1>1, <1>3

(* And what is enough to be such queues.                                   *)
LEMMA IsQueues ==
  ASSUME NEW M, NEW q, DOMAIN q \subseteq AllTypes, q = [t \in DOMAIN q |-> q[t]],
         \A t \in DOMAIN q : q[t] \in [count : Nat, queue : Seq(OfType(M, t))]
  PROVE  q \in QueuesOf(M)
<1>1. ASSUME NEW t \in DOMAIN q
      PROVE  /\ q[t] \in [count : Nat, queue : Seq(M)]
             /\ \A i \in DOMAIN q[t].queue : q[t].queue[i].type = t
  <2> DEFINE s == q[t].queue
             T == OfType(M, t)
  <2>1. s \in Seq(T) /\ T \subseteq M /\ \A m \in T : m.type = t
    BY DEF OfType
  <2>2. q[t] \in [count : Nat, queue : Seq(T)]
    OBVIOUS
  <2> HIDE DEF s, T
  <2>3. s \in Seq(M)
    BY <2>1, SeqMonotonic
  <2>4. \A i \in DOMAIN s : s[i] \in T
    BY <2>1
  <2>5. q[t] \in [count : Nat, queue : Seq(M)]
    BY <2>2, <2>3 DEF s
  <2>6. QED
    BY <2>1, <2>4, <2>5 DEF s
<1>2. q \in [DOMAIN q -> [count : Nat, queue : Seq(M)]]
  BY <1>1
<1>3. QED
  BY <1>1, <1>2 DEF QueuesOf

(* Queues of some messages are queues of more.                             *)
LEMMA QueuesGrow ==
  ASSUME NEW M, NEW L, M \subseteq L
  PROVE  QueuesOf(M) \subseteq QueuesOf(L)
<1>1. SUFFICES ASSUME NEW q \in QueuesOf(M) PROVE q \in QueuesOf(L)
  OBVIOUS
<1>2. /\ DOMAIN q \subseteq AllTypes /\ q = [t \in DOMAIN q |-> q[t]]
      /\ \A t \in DOMAIN q : /\ q[t] \in [count : Nat, queue : Seq(M)]
                             /\ q[t].queue \in Seq(OfType(M, t))
  BY QueueFacts
<1>3. ASSUME NEW t \in DOMAIN q PROVE q[t] \in [count : Nat, queue : Seq(OfType(L, t))]
  <2> DEFINE A == OfType(M, t)
             B == OfType(L, t)
  <2>1. A \subseteq B /\ q[t].queue \in Seq(A) /\ q[t] \in [count : Nat, queue : Seq(M)]
    BY <1>2 DEF OfType
  <2> HIDE DEF A, B
  <2>2. q[t].queue \in Seq(B)
    BY <2>1, SeqMonotonic
  <2>3. q[t] \in [count : Nat, queue : Seq(B)]
    BY <2>1, <2>2
  <2>4. QED
    BY <2>3 DEF B
<1>4. QED
  BY <1>2, <1>3, IsQueues

(* One of the queues becomes another one.                                  *)
WithQueue(q, t, s) == [q EXCEPT ![t].queue = s]

(* One of the queues is replaced by another.                               *)
LEMMA OtherQueue ==
  ASSUME NEW M, NEW q \in QueuesOf(M), NEW t \in DOMAIN q,
         NEW s \in Seq(OfType(M, t)), AllSingle(q), Single(s),
         \A u \in DOMAIN q \ {t} : NumbersIn(s) \cap NumbersIn(q[u].queue) = {}
  PROVE  /\ WithQueue(q, t, s) \in QueuesOf(M) /\ AllSingle(WithQueue(q, t, s))
         /\ Queued(WithQueue(q, t, s)) = NumbersIn(s) \cup UNION {NumbersIn(q[u].queue) : u \in DOMAIN q \ {t}}
<1> DEFINE w == WithQueue(q, t, s)
<1>1. /\ DOMAIN q \subseteq AllTypes /\ q = [x \in DOMAIN q |-> q[x]]
      /\ \A x \in DOMAIN q : q[x] \in [count : Nat, queue : Seq(M)] /\ q[x].queue \in Seq(OfType(M, x))
  BY QueueFacts
<1>2. /\ DOMAIN w = DOMAIN q /\ w = [x \in DOMAIN q |-> w[x]]
      /\ w[t].queue = s /\ w[t] = [q[t] EXCEPT !.queue = s]
      /\ \A x \in DOMAIN q \ {t} : w[x] = q[x]
  BY <1>1 DEF WithQueue
<1> HIDE DEF w
<1>3. s \in Seq(OfType(M, t))
  OBVIOUS
<1>4. ASSUME NEW x \in DOMAIN q PROVE w[x] \in [count : Nat, queue : Seq(OfType(M, x))]
  <2>1. CASE x = t
    BY <1>1, <1>2, <1>3, <2>1
  <2>2. CASE x # t
    <3>1. w[x] = q[x] /\ q[x] \in [count : Nat, queue : Seq(M)] /\ q[x].queue \in Seq(OfType(M, x))
      BY <1>1, <1>2, <2>2
    <3>2. QED
      BY <3>1
  <2>3. QED
    BY <2>1, <2>2
<1>5. w \in QueuesOf(M)
  <2>1. DOMAIN w \subseteq AllTypes /\ w = [x \in DOMAIN w |-> w[x]]
    BY <1>1, <1>2
  <2>2. \A x \in DOMAIN w : w[x] \in [count : Nat, queue : Seq(OfType(M, x))]
    BY <1>2, <1>4
  <2>3. QED
    BY <2>1, <2>2, IsQueues
<1>6. AllSingle(w)
  <2>1. \A x \in DOMAIN w : Single(w[x].queue)
    BY <1>2 DEF AllSingle
  <2>2. ASSUME NEW x \in DOMAIN w, NEW y \in DOMAIN w, x # y
        PROVE  NumbersIn(w[x].queue) \cap NumbersIn(w[y].queue) = {}
    BY <1>2, <2>2 DEF AllSingle
  <2>3. QED
    BY <2>1, <2>2 DEF AllSingle
<1>7. Queued(w) = NumbersIn(s) \cup UNION {NumbersIn(q[u].queue) : u \in DOMAIN q \ {t}}
  <2>1. \A x \in DOMAIN q \ {t} : NumbersIn(w[x].queue) = NumbersIn(q[x].queue)
    BY <1>2
  <2>2. Queued(w) = UNION {NumbersIn(w[x].queue) : x \in DOMAIN q}
    BY <1>2 DEF Queued
  <2>3. NumbersIn(w[t].queue) = NumbersIn(s)
    BY <1>2
  <2>4. QED
    BY <2>1, <2>2, <2>3
<1>8. QED
  BY <1>5, <1>6, <1>7 DEF w

(* A queue that is not there is made, and it is empty.                     *)
LEMMA EnsuredFacts ==
  ASSUME NEW M, NEW q \in QueuesOf(M), NEW type \in AllTypes, AllSingle(q)
  PROVE  /\ Ensured(q, type) \in QueuesOf(M) /\ type \in DOMAIN Ensured(q, type)
         /\ AllSingle(Ensured(q, type)) /\ Queued(Ensured(q, type)) = Queued(q)
<1> DEFINE w == Ensured(q, type)
<1>1. /\ DOMAIN q \subseteq AllTypes /\ q = [x \in DOMAIN q |-> q[x]]
      /\ \A x \in DOMAIN q : q[x] \in [count : Nat, queue : Seq(M)] /\ q[x].queue \in Seq(OfType(M, x))
  BY QueueFacts
<1>2. /\ DOMAIN w = DOMAIN q \cup {type} /\ w = [x \in DOMAIN w |-> w[x]]
      /\ \A x \in DOMAIN q : w[x] = q[x]
      /\ type \notin DOMAIN q => w[type] = NoQueue
  BY DEF Ensured
<1>3. NoQueue.queue = <<>>
  BY DEF NoQueue
<1>4. NoQueue \in [count : Nat, queue : Seq(OfType(M, type))]
  <2>1. <<>> \in Seq(OfType(M, type)) /\ 0 \in Nat
    OBVIOUS
  <2>2. QED
    BY <2>1 DEF NoQueue
<1>5. NumbersIn(NoQueue.queue) = {} /\ Single(NoQueue.queue)
  BY <1>3, NoNumbers
<1> HIDE DEF w
<1>6. ASSUME NEW x \in DOMAIN w PROVE w[x] \in [count : Nat, queue : Seq(OfType(M, x))]
  <2>1. CASE x \in DOMAIN q
    <3>1. w[x] = q[x] /\ q[x] \in [count : Nat, queue : Seq(M)] /\ q[x].queue \in Seq(OfType(M, x))
      BY <1>1, <1>2, <2>1
    <3>2. QED
      BY <3>1
  <2>2. CASE x \notin DOMAIN q
    <3>1. x = type /\ w[x] = NoQueue
      BY <1>2, <2>2
    <3>2. QED
      BY <1>4, <3>1
  <2>3. QED
    BY <2>1, <2>2
<1>7. w \in QueuesOf(M)
  <2>1. DOMAIN w \subseteq AllTypes /\ w = [x \in DOMAIN w |-> w[x]]
    BY <1>1, <1>2
  <2>2. \A x \in DOMAIN w : w[x] \in [count : Nat, queue : Seq(OfType(M, x))]
    BY <1>6
  <2>3. QED
    BY <2>1, <2>2, IsQueues
<1>8. AllSingle(w)
  <2>1. \A x \in DOMAIN w : Single(w[x].queue)
    BY <1>2, <1>5 DEF AllSingle
  <2>2. ASSUME NEW x \in DOMAIN w, NEW y \in DOMAIN w, x # y
        PROVE  NumbersIn(w[x].queue) \cap NumbersIn(w[y].queue) = {}
    BY <1>2, <1>5, <2>2 DEF AllSingle
  <2>3. QED
    BY <2>1, <2>2 DEF AllSingle
<1>9. Queued(w) = Queued(q)
  <2>1. \A x \in DOMAIN w : x \in DOMAIN q \/ NumbersIn(w[x].queue) = {}
    BY <1>2, <1>5
  <2>2. \A x \in DOMAIN q : x \in DOMAIN w /\ NumbersIn(w[x].queue) = NumbersIn(q[x].queue)
    BY <1>2
  <2>3. QED
    BY <2>1, <2>2 DEF Queued
<1>10. QED
  BY <1>2, <1>7, <1>8, <1>9 DEF w

(* A message is stored in its queue.                                       *)
LEMMA StoreFacts ==
  ASSUME NEW M, NEW q \in QueuesOf(M), NEW m \in M, m.type \in AllTypes,
         AllSingle(q), m.no \notin Queued(q)
  PROVE  /\ Store(q, m) \in QueuesOf(M) /\ AllSingle(Store(q, m))
         /\ Queued(Store(q, m)) \subseteq Queued(q) \cup ({m.no} \ {0})
<1> DEFINE t == m.type
           w == Ensured(q, t)
           s == Push(w[t].queue, m)
<1>1. w \in QueuesOf(M) /\ t \in DOMAIN w /\ AllSingle(w) /\ Queued(w) = Queued(q)
  BY EnsuredFacts
<1> HIDE DEF w
<1>2. w[t].queue \in Seq(OfType(M, t)) /\ m \in OfType(M, t)
  BY <1>1, QueueFacts DEF OfType
<1>3. m.no \notin NumbersIn(w[t].queue) /\ Single(w[t].queue)
  BY <1>1 DEF AllSingle, Queued
<1> DEFINE r == w[t].queue
<1>4. s \in Seq(OfType(M, t)) /\ Single(s) /\ NumbersIn(s) \subseteq NumbersIn(r) \cup ({m.no} \ {0})
  <2>1. s = Push(r, m) /\ r \in Seq(OfType(M, t)) /\ m.no \notin NumbersIn(r) /\ Single(r)
    BY <1>2, <1>3
  <2> HIDE DEF r, s
  <2>2. QED
    BY <1>2, <2>1, PushNumbers
<1>5. \A u \in DOMAIN w \ {t} : NumbersIn(s) \cap NumbersIn(w[u].queue) = {}
  <2>1. SUFFICES ASSUME NEW u \in DOMAIN w \ {t} PROVE NumbersIn(s) \cap NumbersIn(w[u].queue) = {}
    OBVIOUS
  <2>2. NumbersIn(r) \cap NumbersIn(w[u].queue) = {}
    BY <1>1 DEF AllSingle
  <2>3. m.no \notin NumbersIn(w[u].queue)
    BY <1>1 DEF Queued
  <2> HIDE DEF r, s
  <2>4. QED
    BY <1>4, <2>2, <2>3
<1> DEFINE y == WithQueue(w, t, s)
<1>6. /\ y \in QueuesOf(M) /\ AllSingle(y)
      /\ Queued(y) = NumbersIn(s) \cup UNION {NumbersIn(w[u].queue) : u \in DOMAIN w \ {t}}
  <2>1. s \in Seq(OfType(M, t))
    BY <1>4
  <2> HIDE DEF s, t, r
  <2>2. QED
    BY <1>1, <1>4, <1>5, <2>1, OtherQueue
<1>7. Store(q, m) = y
  BY DEF Store, WithQueue, w
<1>8. Queued(y) \subseteq Queued(q) \cup ({m.no} \ {0})
  <2>1. Queued(w) = NumbersIn(r) \cup UNION {NumbersIn(w[u].queue) : u \in DOMAIN w \ {t}}
    BY <1>1 DEF Queued
  <2> HIDE DEF s, r, y
  <2>2. QED
    BY <1>1, <1>4, <1>6, <2>1
<1> HIDE DEF y
<1>9. QED
  BY <1>6, <1>7, <1>8

(* An endpoint without queues.                                             *)
LEMMA NoQueues ==
  ASSUME NEW M
  PROVE  <<>> \in QueuesOf(M) /\ AllSingle(<<>>) /\ Queued(<<>>) = {}
<1> DEFINE none == <<>>
<1>1. DOMAIN none = {} /\ none = [t \in DOMAIN none |-> none[t]]
  OBVIOUS
<1> HIDE DEF none
<1>2. none \in QueuesOf(M)
  BY <1>1, IsQueues
<1>3. AllSingle(none) /\ Queued(none) = {}
  BY <1>1 DEF AllSingle, Queued
<1>4. QED
  BY <1>2, <1>3 DEF none

(* What the subscribers of a process that starts have subscribed to.       *)
LEMMA SubscribedFacts ==
  ASSUME NEW M, NEW objs \in Seq(SUBSET AllTypes)
  PROVE  /\ Subscribed(objs) \in QueuesOf(M) /\ AllSingle(Subscribed(objs))
         /\ Queued(Subscribed(objs)) = {}
<1> DEFINE w == Subscribed(objs)
<1>1. DOMAIN objs = 1 .. Len(objs) /\ Len(objs) \in Nat
  BY LenProperties
<1>2. UNION Range(objs) \subseteq AllTypes
  <2>1. \A i \in DOMAIN objs : objs[i] \subseteq AllTypes
    BY <1>1
  <2>2. QED
    BY <2>1 DEF Range
<1>3. /\ DOMAIN w = UNION Range(objs) /\ w = [t \in DOMAIN w |-> w[t]]
      /\ \A t \in DOMAIN w : w[t] = [NoQueue EXCEPT !.count = Cardinality({i \in DOMAIN objs : t \in objs[i]})]
  BY DEF Subscribed
<1> HIDE DEF w
<1>4. ASSUME NEW t \in DOMAIN w
      PROVE  /\ w[t] \in [count : Nat, queue : Seq(OfType(M, t))]
             /\ NumbersIn(w[t].queue) = {} /\ Single(w[t].queue)
  <2> DEFINE those == {i \in DOMAIN objs : t \in objs[i]}
             n == Cardinality(those)
  <2>1. n \in Nat
    <3>1. those \in SUBSET (1 .. Len(objs)) /\ 1 \in Int /\ Len(objs) \in Int
      BY <1>1
    <3> HIDE DEF those
    <3>2. IsFiniteSet(1 .. Len(objs))
      BY <3>1, FS_Interval
    <3>3. IsFiniteSet(those)
      BY <3>1, <3>2, FS_Subset
    <3>4. QED
      BY <3>3, FS_CardinalityType
  <2>2. w[t] = [NoQueue EXCEPT !.count = n]
    BY <1>3
  <2> HIDE DEF n
  <2>3. w[t] = [count |-> n, queue |-> <<>>]
    BY <2>2 DEF NoQueue
  <2>4. <<>> \in Seq(OfType(M, t))
    OBVIOUS
  <2>5. w[t] \in [count : Nat, queue : Seq(OfType(M, t))]
    BY <2>1, <2>3, <2>4
  <2>6. w[t].queue = <<>>
    BY <2>3
  <2>7. QED
    BY <2>5, <2>6, NoNumbers
<1>5. w \in QueuesOf(M)
  BY <1>2, <1>3, <1>4, IsQueues
<1>6. AllSingle(w) /\ Queued(w) = {}
  BY <1>4 DEF AllSingle, Queued
<1>7. QED
  BY <1>5, <1>6 DEF w

(* What is left when one of them unsubscribes.                             *)
LEMMA UnsubscribedFacts ==
  ASSUME NEW M, NEW q \in QueuesOf(M), NEW types, AllSingle(q)
  PROVE  /\ Unsubscribed(q, types) \in QueuesOf(M) /\ AllSingle(Unsubscribed(q, types))
         /\ Queued(Unsubscribed(q, types)) \subseteq Queued(q)
<1> DEFINE w == Unsubscribed(q, types)
<1>1. /\ DOMAIN q \subseteq AllTypes /\ q = [x \in DOMAIN q |-> q[x]]
      /\ \A x \in DOMAIN q : q[x] \in [count : Nat, queue : Seq(M)] /\ q[x].queue \in Seq(OfType(M, x))
  BY QueueFacts
<1>2. /\ DOMAIN w \subseteq DOMAIN q /\ w = [x \in DOMAIN w |-> w[x]]
      /\ \A x \in DOMAIN w : /\ x \in types => q[x].count > 1
                             /\ w[x] = IF x \in types THEN [q[x] EXCEPT !.count = @ - 1] ELSE q[x]
  BY DEF Unsubscribed
<1> HIDE DEF w
<1>3. ASSUME NEW x \in DOMAIN w
      PROVE  w[x] \in [count : Nat, queue : Seq(OfType(M, x))] /\ w[x].queue = q[x].queue
  <2>1. q[x] \in [count : Nat, queue : Seq(OfType(M, x))]
    <3>1. q[x] \in [count : Nat, queue : Seq(M)] /\ q[x].queue \in Seq(OfType(M, x))
      BY <1>1, <1>2
    <3>2. QED
      BY <3>1
  <2>2. CASE x \in types
    <3>1. q[x].count > 1 /\ w[x] = [q[x] EXCEPT !.count = @ - 1]
      BY <1>2, <2>2
    <3>2. q[x].count - 1 \in Nat
      BY <2>1, <3>1
    <3>3. QED
      BY <2>1, <3>1, <3>2
  <2>3. CASE x \notin types
    BY <1>2, <2>1, <2>3
  <2>4. QED
    BY <2>2, <2>3
<1>4. w \in QueuesOf(M)
  <2>1. DOMAIN w \subseteq AllTypes /\ w = [x \in DOMAIN w |-> w[x]]
    BY <1>1, <1>2
  <2>2. \A x \in DOMAIN w : w[x] \in [count : Nat, queue : Seq(OfType(M, x))]
    BY <1>3
  <2>3. QED
    BY <2>1, <2>2, IsQueues
<1>5. AllSingle(w)
  <2>1. \A x \in DOMAIN w : x \in DOMAIN q /\ w[x].queue = q[x].queue
    BY <1>2, <1>3
  <2>2. QED
    BY <2>1 DEF AllSingle
<1>6. Queued(w) \subseteq Queued(q)
  <2>1. \A x \in DOMAIN w : x \in DOMAIN q /\ NumbersIn(w[x].queue) = NumbersIn(q[x].queue)
    BY <1>2, <1>3
  <2>2. QED
    BY <2>1 DEF Queued
<1>7. QED
  BY <1>4, <1>5, <1>6 DEF w

-----------------------------------------------------------------------------
(* What endpoints send.                                                    *)

(* The running process of an endpoint, and its program.                    *)
LEMMA RunningFacts ==
  ASSUME ProcessesAreKnown, NEW e \in Endpoints, up[e]
  PROVE  /\ Inst(e) \in Nat /\ Inst(e) \in DOMAIN ran[e] /\ Program(e) = ran[e][Inst(e)]
         /\ Live(e) \subseteq AllTypes /\ Live(e) \cap Types \subseteq DataOf(Program(e))
<1> DEFINE Ps == UNION {Programs[d] : d \in Endpoints}
<1>1. ran[e] \in Seq(Ps) /\ ran[e] # <<>> /\ Live(e) \subseteq Handles(Program(e))
  BY DEF ProcessesAreKnown
<1>2. Inst(e) \in Nat /\ Inst(e) \in DOMAIN ran[e]
  <2> HIDE DEF Ps
  <2>1. QED
    BY <1>1 DEF Inst
<1>3. Program(e) = ran[e][Inst(e)]
  BY DEF Program, Last, Inst
<1>4. Live(e) \subseteq AllTypes
  <2>1. objects[e] \in Seq(SUBSET AllTypes)
    BY DEF ProcessesAreKnown
  <2>2. \A i \in DOMAIN objects[e] : objects[e][i] \subseteq AllTypes
    BY <2>1
  <2>3. QED
    BY <2>2 DEF Live, Range
<1>5. QED
  BY <1>1, <1>2, <1>3, <1>4 DEF DataOf

(* What a process says of itself now is genuine.                           *)
LEMMA OwnMessage ==
  ASSUME ProcessesAreKnown, NEW e \in Endpoints, up[e],
         NEW type \in MetaTypes, NEW about \in Types \cup {"none"}, NEW to \in Endpoints \cup {All},
         type = "subscribTo" => about \in DataOf(Program(e)),
         type \in {"unsubFrom", "notSubTo"} => about \notin Live(e)
  PROVE  Message(type, about, e, to) \in GenuineOf(e) /\ Message(type, about, e, to).no = 0
<1> DEFINE m == Message(type, about, e, to)
<1>1. /\ m.type = type /\ m.about = about /\ m.from = e /\ m.inst = Inst(e) /\ m.to = to
      /\ m.pri = 0 /\ m.no = 0
      /\ m \in [type : {type}, about : {about}, from : {e}, inst : {Inst(e)}, to : {to}, pri : {0}, no : {0}]
  BY DEF Message
<1>2. Inst(e) \in Nat /\ Inst(e) \in DOMAIN ran[e] /\ Program(e) = ran[e][Inst(e)]
  BY RunningFacts
<1>3. type \notin Types /\ type \in AllTypes
  BY SubscriptionsAssumption DEF AllTypes
<1> HIDE DEF m
<1>4. m \in Messages
  BY <1>1, <1>2, <1>3 DEF Messages
<1>5. m.inst \in DOMAIN ran[m.from] /\ (m.type = "subscribTo" => m.about \in DataOf(ran[m.from][m.inst]))
  BY <1>1, <1>2
<1>6. m.type \in {"unsubFrom", "notSubTo"} => ~StillHandles(m.from, m.inst, m.about)
  BY <1>1 DEF StillHandles
<1>7. m.type \notin Types /\ m.no = 0
  BY <1>1, <1>3
<1>8. m \in Genuine
  BY <1>4, <1>5, <1>6, <1>7 DEF Genuine
<1>9. QED
  BY <1>1, <1>8 DEF GenuineOf, m

-----------------------------------------------------------------------------
(* A turn of an endpoint: what it fetches.                                 *)

Early(s, i) == {s[j].no : j \in 1 .. i} \ {0}

(* What it may have after the first i messages                             *)
FetchedUpTo(e, i) ==
    {a \in [q : QueuesOf(Genuine), out : Seq(GenuineOf(e))] :
        /\ AllSingle(a.q) /\ Queued(a.q) \subseteq Queued(incoming[e]) \cup Early(toEp[e], i)
        /\ NumbersIn(a.out) \subseteq NumbersIn(outgoing[e])
        /\ Single(outgoing[e]) => Single(a.out)}

(* The numbers of the first messages of a queue.                           *)
LEMMA EarlyFacts ==
  ASSUME NEW M, NEW s \in Seq(M)
  PROVE  /\ Early(s, 0) = {} /\ Early(s, Len(s)) = NumbersIn(s)
         /\ \A i \in 1 .. Len(s) : /\ Early(s, i) = Early(s, i - 1) \cup ({s[i].no} \ {0})
                                   /\ s[i].no # 0 => s[i].no \in NumbersIn(s)
                                   /\ Single(s) => s[i].no \notin Early(s, i - 1)
<1>1. DOMAIN s = 1 .. Len(s) /\ Len(s) \in Nat
  BY LenProperties
<1>2. Early(s, 0) = {}
  BY DEF Early
<1>3. Early(s, Len(s)) = NumbersIn(s)
  BY <1>1 DEF Early, NumbersIn
<1>4. ASSUME NEW i \in 1 .. Len(s) PROVE Early(s, i) = Early(s, i - 1) \cup ({s[i].no} \ {0})
  <2>1. 1 .. i = (1 .. i - 1) \cup {i}
    BY <1>1
  <2>2. {s[j].no : j \in 1 .. i} = {s[j].no : j \in 1 .. i - 1} \cup {s[i].no}
    BY <2>1
  <2>3. QED
    BY <2>2 DEF Early
<1>5. ASSUME NEW i \in 1 .. Len(s), s[i].no # 0 PROVE s[i].no \in NumbersIn(s)
  BY <1>1, <1>5 DEF NumbersIn
<1>6. ASSUME NEW i \in 1 .. Len(s), Single(s), s[i].no \in Early(s, i - 1) PROVE FALSE
  <2>1. PICK j \in 1 .. i - 1 : s[j].no = s[i].no /\ s[i].no # 0
    BY <1>6 DEF Early
  <2>2. j \in 1 .. Len(s) /\ j # i
    BY <1>1
  <2>3. j = i
    BY <1>1, <1>6, <2>1, <2>2 DEF Single
  <2>4. QED
    BY <2>2, <2>3
<1>7. QED
  BY <1>2, <1>3, <1>4, <1>5, <1>6

(* What an actor says of a type that it has no handler for.                *)
LEMMA BlockedFacts ==
  ASSUME ProcessesAreKnown, NEW e \in Endpoints, up[e], NEW m \in Genuine, m.type \notin MetaTypes,
         NEW out \in Seq(GenuineOf(e))
  PROVE  LET s == Append(out, Message("msgBlkList", m.type, e, All))
         IN  s \in Seq(GenuineOf(e)) /\ NumbersIn(s) = NumbersIn(out) /\ (Single(out) => Single(s))
<1> DEFINE x == Message("msgBlkList", m.type, e, All)
           M == GenuineOf(e)
<1>1. x \in M /\ x.no = 0
  <2>1. m.type \in Types \cup {"none"}
    BY DEF Genuine, Messages, AllTypes
  <2>2. "msgBlkList" \in MetaTypes /\ "msgBlkList" # "subscribTo"
        /\ "msgBlkList" \notin {"unsubFrom", "notSubTo"}
    BY DEF MetaTypes
  <2> DEFINE sort == "msgBlkList"
             type == m.type
             to == All
  <2>3. type \in Types \cup {"none"} /\ to \in Endpoints \cup {All}
    BY <2>1
  <2>4. sort \in MetaTypes /\ sort # "subscribTo" /\ sort \notin {"unsubFrom", "notSubTo"}
    BY <2>2
  <2> HIDE DEF sort, type, to
  <2>5. Message(sort, type, e, to) \in GenuineOf(e) /\ Message(sort, type, e, to).no = 0
    BY <2>3, <2>4, OwnMessage
  <2>6. QED
    BY <2>5 DEF sort, type, to
<1> HIDE DEF x
<1>2. <<x>> \in Seq(M) /\ NumbersIn(<<x>>) = {} /\ Single(<<x>>)
  BY <1>1, OneNumber
<1> DEFINE w == <<x>>
<1>3. Append(out, x) = out \o w
  BY <1>1, AppendIsConcat
<1>4. w \in Seq(M) /\ NumbersIn(w) = {} /\ Single(w)
  BY <1>2
<1> HIDE DEF w, M
<1>5. out \in Seq(M)
  BY DEF M
<1>6. /\ out \o w \in Seq(M) /\ NumbersIn(out \o w) = NumbersIn(out) \cup NumbersIn(w)
      /\ Single(out) /\ Single(w) /\ NumbersIn(out) \cap NumbersIn(w) = {} => Single(out \o w)
  BY <1>4, <1>5, ConcatNumbers
<1>7. Append(out, x) \in Seq(M) /\ NumbersIn(Append(out, x)) = NumbersIn(out) /\ (Single(out) => Single(Append(out, x)))
  BY <1>3, <1>4, <1>6
<1>8. QED
  BY <1>7 DEF x, M

(* What an endpoint has when it has fetched all that came.                 *)
LEMMA FetchedFacts ==
  ASSUME SubsIInv, NEW e \in Endpoints, up[e]
  PROVE  /\ Fetched(e).q \in QueuesOf(Genuine) /\ Fetched(e).out \in Seq(GenuineOf(e))
         /\ AllSingle(Fetched(e).q)
         /\ Queued(Fetched(e).q) \subseteq Queued(incoming[e]) \cup NumbersIn(toEp[e])
         /\ NumbersIn(Fetched(e).out) \subseteq NumbersIn(outgoing[e])
         /\ Single(outgoing[e]) => Single(Fetched(e).out)
<1> DEFINE s == toEp[e]
           N == Len(s)
           S == [i \in 0 .. N |-> FetchedUpTo(e, i)]
           first == [q |-> incoming[e], out |-> outgoing[e]]
<1>0. ProcessesAreKnown
  BY DEF SubsIInv
<1>1. /\ s \in Seq(Genuine) /\ incoming[e] \in QueuesOf(Genuine) /\ outgoing[e] \in Seq(GenuineOf(e))
  BY DEF SubsIInv, MessagesAreGenuine
<1>2. Single(s) /\ AllSingle(incoming[e]) /\ NumbersIn(s) \cap Queued(incoming[e]) = {}
  BY DEF SubsIInv, DataIsSingle, DataIsAt
<1>3. /\ N \in Nat /\ \A i \in 1 .. N : s[i] \in Genuine
      /\ \A i \in 0 .. N : S[i] = FetchedUpTo(e, i)
      /\ \A i \in 1 .. N : i \in 0 .. N /\ i - 1 \in 0 .. N
      /\ 0 \in 0 .. N /\ N \in 0 .. N
  <2>1. N \in Nat /\ \A i \in 1 .. N : s[i] \in Genuine
    BY <1>1
  <2>2. \A i \in 0 .. N : S[i] = FetchedUpTo(e, i)
    OBVIOUS
  <2> HIDE DEF N, S, s
  <2>3. QED
    BY <2>1, <2>2
<1>4. first \in S[0]
  <2>1. Early(s, 0) = {}
    BY <1>1, EarlyFacts
  <2>2. first \in [q : QueuesOf(Genuine), out : Seq(GenuineOf(e))] /\ first.q = incoming[e] /\ first.out = outgoing[e]
    BY <1>1
  <2> HIDE DEF first
  <2>3. first \in FetchedUpTo(e, 0)
    BY <1>2, <2>1, <2>2 DEF FetchedUpTo
  <2>4. QED
    BY <1>3, <2>3
<1>5. ASSUME NEW i \in 1 .. N, NEW a \in S[i - 1]
      PROVE  (IF Program(e).actor THEN Accept(e, a, s[i]) ELSE [a EXCEPT !.q = Store(@, s[i])]) \in S[i]
  <2> DEFINE m == s[i]
             stored == [a EXCEPT !.q = Store(@, m)]
             blocked == [a EXCEPT !.out = Append(@, Message("msgBlkList", m.type, e, All))]
  <2>1. /\ a \in [q : QueuesOf(Genuine), out : Seq(GenuineOf(e))]
        /\ AllSingle(a.q) /\ Queued(a.q) \subseteq Queued(incoming[e]) \cup Early(s, i - 1)
        /\ NumbersIn(a.out) \subseteq NumbersIn(outgoing[e])
        /\ Single(outgoing[e]) => Single(a.out)
    <3>1. a \in FetchedUpTo(e, i - 1)
      BY <1>3
    <3>2. QED
      BY <3>1 DEF FetchedUpTo
  <2>2. /\ Early(s, i) = Early(s, i - 1) \cup ({m.no} \ {0})
        /\ m.no # 0 => m.no \in NumbersIn(s)
        /\ m.no \notin Early(s, i - 1)
    BY <1>1, <1>2, EarlyFacts
  <2>3. m \in Genuine /\ m.type \in AllTypes
    <3>1. m \in Genuine
      BY <1>3
    <3>2. QED
      BY <3>1 DEF Genuine, Messages
  <2>4. m.no \notin Queued(a.q)
    <3>1. 0 \notin Queued(a.q)
      BY DEF Queued, NumbersIn
    <3>2. m.no # 0 => m.no \notin Queued(incoming[e])
      BY <1>2, <2>2
    <3>3. QED
      BY <2>1, <2>2, <3>1, <3>2
  <2>5. stored \in S[i]
    <3>1. /\ Store(a.q, m) \in QueuesOf(Genuine) /\ AllSingle(Store(a.q, m))
          /\ Queued(Store(a.q, m)) \subseteq Queued(a.q) \cup ({m.no} \ {0})
      <4> HIDE DEF m
      <4>1. QED
        BY <2>1, <2>3, <2>4, StoreFacts
    <3> HIDE DEF m
    <3>2. stored \in [q : QueuesOf(Genuine), out : Seq(GenuineOf(e))] /\ stored.q = Store(a.q, m) /\ stored.out = a.out
      BY <2>1, <3>1
    <3> HIDE DEF stored
    <3>3. Queued(stored.q) \subseteq Queued(incoming[e]) \cup Early(s, i)
      BY <2>1, <2>2, <3>1, <3>2
    <3>4. stored \in FetchedUpTo(e, i)
      BY <2>1, <3>1, <3>2, <3>3 DEF FetchedUpTo
    <3>5. QED
      BY <1>3, <3>4
  <2>6. a \in S[i]
    <3>1. a \in FetchedUpTo(e, i)
      BY <2>1, <2>2 DEF FetchedUpTo
    <3>2. QED
      BY <1>3, <3>1
  <2>7. ASSUME m.type \notin MetaTypes PROVE blocked \in S[i]
    <3> DEFINE r == Append(a.out, Message("msgBlkList", m.type, e, All))
    <3>1. r \in Seq(GenuineOf(e)) /\ NumbersIn(r) = NumbersIn(a.out) /\ (Single(a.out) => Single(r))
      <4>1. a.out \in Seq(GenuineOf(e)) /\ m \in Genuine /\ m.type \notin MetaTypes
        BY <2>1, <2>3, <2>7
      <4> HIDE DEF m
      <4>2. QED
        BY <1>0, <4>1, BlockedFacts
    <3>2. blocked = [a EXCEPT !.out = r]
      OBVIOUS
    <3> HIDE DEF r, blocked
    <3>3. blocked \in [q : QueuesOf(Genuine), out : Seq(GenuineOf(e))] /\ blocked.q = a.q /\ blocked.out = r
      BY <2>1, <3>1, <3>2
    <3>4. blocked \in FetchedUpTo(e, i)
      BY <2>1, <2>2, <3>1, <3>3 DEF FetchedUpTo
    <3>5. QED
      BY <1>3, <3>4
  <2>8. Accept(e, a, m) = IF m.type \in DOMAIN a.q THEN stored ELSE IF m.type \in MetaTypes THEN a ELSE blocked
    BY DEF Accept
  <2> HIDE DEF stored, blocked
  <2>9. Accept(e, a, m) \in S[i]
    <3> HIDE DEF m, S
    <3>1. QED
      BY <2>5, <2>6, <2>7, <2>8
  <2>10. QED
    <3>1. stored = [a EXCEPT !.q = Store(@, s[i])]
      BY DEF stored
    <3> HIDE DEF S
    <3>2. QED
      BY <2>5, <2>9, <3>1
<1>6. Fetched(e) \in S[N]
  <2> HIDE DEF S
  <2>1. Len(toEp[e]) \in Nat /\ [q |-> incoming[e], out |-> outgoing[e]] \in S[0]
    BY <1>3, <1>4
  <2>2. \A i \in 1 .. Len(toEp[e]) : \A a \in S[i - 1] :
           (IF Program(e).actor THEN Accept(e, a, toEp[e][i]) ELSE [a EXCEPT !.q = Store(@, toEp[e][i])]) \in S[i]
    BY <1>5
  <2>3. QED
    BY <2>1, <2>2, FetchedStays
<1>7. Fetched(e) \in FetchedUpTo(e, N)
  BY <1>3, <1>6
<1>8. Early(s, N) = NumbersIn(s)
  BY <1>1, EarlyFacts
<1>9. QED
  BY <1>7, <1>8 DEF FetchedUpTo

-----------------------------------------------------------------------------
(* A turn of an endpoint: what its objects do.                             *)

(* The numbers of what is done are added to those of what was handled.     *)
LEMMA HandledNumbers ==
  ASSUME NEW N \in Nat, NEW h \in Seq(1 .. N), IsInjective(h),
         NEW M, \A m \in M : m.no \in 1 .. N,
         NEW done \in Seq(M), Single(done), Range(h) \cap NumbersIn(done) = {}
  PROVE  LET t == h \o [i \in DOMAIN done |-> done[i].no]
         IN  t \in Seq(1 .. N) /\ IsInjective(t) /\ Range(t) = Range(h) \cup NumbersIn(done)
<1> DEFINE d == [i \in DOMAIN done |-> done[i].no]
           a == Len(h)
           b == Len(done)
           t == h \o d
<1>1. /\ DOMAIN done = 1 .. b /\ b \in Nat /\ a \in Nat /\ DOMAIN h = 1 .. a
      /\ \A i \in 1 .. b : done[i] \in M
  BY LenProperties
<1>2. DOMAIN d = 1 .. b /\ \A i \in 1 .. b : d[i] = done[i].no /\ d[i] \in 1 .. N
  BY <1>1
<1>3. d \in Seq(1 .. N) /\ Len(d) = b
  <2>1. d \in [1 .. b -> 1 .. N]
    BY <1>1, <1>2
  <2> HIDE DEF d, b
  <2>2. QED
    BY <1>1, <2>1
<1> HIDE DEF d
<1>4. /\ t \in Seq(1 .. N) /\ Len(t) = a + b
      /\ \A i \in 1 .. a + b : t[i] = IF i <= a THEN h[i] ELSE d[i - a]
  <2> DEFINE V == 1 .. N
  <2>1. h \in Seq(V) /\ d \in Seq(V)
    BY <1>3
  <2> HIDE DEF V
  <2>2. /\ h \o d \in Seq(V) /\ Len(h \o d) = Len(h) + Len(d)
        /\ \A i \in 1 .. Len(h) + Len(d) : (h \o d)[i] = IF i <= Len(h) THEN h[i] ELSE d[i - Len(h)]
    BY <2>1, ConcatProperties
  <2>3. /\ t \in Seq(V) /\ Len(t) = a + b
        /\ \A i \in 1 .. a + b : t[i] = IF i <= a THEN h[i] ELSE d[i - a]
    BY <1>3, <2>2
  <2>4. QED
    BY <2>3 DEF V
<1> HIDE DEF t, a, b
<1>5. DOMAIN t = 1 .. a + b
  BY <1>1, <1>4
<1>6. \A i \in 1 .. a : t[i] = h[i] /\ i \in 1 .. a + b
  BY <1>1, <1>4
<1>7. \A i \in 1 .. b : t[a + i] = done[i].no /\ a + i \in 1 .. a + b
  <2>1. ASSUME NEW i \in 1 .. b PROVE t[a + i] = done[i].no /\ a + i \in 1 .. a + b
    <3> DEFINE k == a + i
    <3>1. k \in 1 .. a + b /\ ~(k <= a) /\ k - a = i
      BY <1>1
    <3> HIDE DEF k
    <3>2. t[k] = d[i]
      BY <1>4, <3>1
    <3>3. t[k] = done[i].no
      BY <1>2, <3>2
    <3>4. QED
      BY <3>1, <3>3 DEF k
  <2>2. QED
    BY <2>1
<1>8. \A k \in 1 .. a + b : k \in 1 .. a \/ \E i \in 1 .. b : k = a + i
  <2>1. ASSUME NEW k \in 1 .. a + b, k \notin 1 .. a PROVE \E i \in 1 .. b : k = a + i
    <3>1. k - a \in 1 .. b /\ k = a + (k - a)
      BY <1>1, <2>1
    <3>2. QED
      BY <3>1
  <2>2. QED
    BY <2>1
<1>9. \A i \in 1 .. b : done[i].no # 0 /\ done[i].no \in NumbersIn(done)
  <2>1. SUFFICES ASSUME NEW i \in 1 .. b PROVE done[i].no # 0 /\ done[i].no \in NumbersIn(done)
    OBVIOUS
  <2>2. done[i].no \in 1 .. N
    BY <1>1
  <2>3. done[i].no # 0 /\ i \in DOMAIN done
    BY <1>1, <2>2
  <2>4. QED
    BY <2>3 DEF NumbersIn
<1>10. Range(t) = Range(h) \cup NumbersIn(done)
  <2>1. ASSUME NEW n \in Range(t) PROVE n \in Range(h) \cup NumbersIn(done)
    <3>1. PICK k \in 1 .. a + b : n = t[k]
      BY <1>5 DEF Range
    <3>2. CASE k \in 1 .. a
      BY <1>1, <1>6, <3>1, <3>2 DEF Range
    <3>3. CASE \E i \in 1 .. b : k = a + i
      BY <1>7, <1>9, <3>1, <3>3
    <3>4. QED
      BY <1>8, <3>2, <3>3
  <2>2. ASSUME NEW n \in Range(h) PROVE n \in Range(t)
    BY <1>1, <1>5, <1>6 DEF Range
  <2>3. ASSUME NEW n \in NumbersIn(done) PROVE n \in Range(t)
    <3>1. PICK i \in 1 .. b : n = done[i].no
      BY <1>1 DEF NumbersIn
    <3>2. QED
      BY <1>5, <1>7, <3>1 DEF Range
  <2>4. QED
    BY <2>1, <2>2, <2>3
<1>11. IsInjective(t)
  <2>1. SUFFICES ASSUME NEW k \in 1 .. a + b, NEW l \in 1 .. a + b, t[k] = t[l] PROVE k = l
    BY <1>5 DEF IsInjective
  <2>2. ASSUME NEW i \in 1 .. a, NEW j \in 1 .. b, h[i] = done[j].no PROVE FALSE
    <3>1. h[i] \in Range(h)
      BY <1>1 DEF Range
    <3>2. QED
      BY <1>9, <2>2, <3>1
  <2>3. CASE k \in 1 .. a /\ l \in 1 .. a
    BY <1>1, <1>6, <2>1, <2>3 DEF IsInjective
  <2>4. CASE k \in 1 .. a /\ l \notin 1 .. a
    <3>1. PICK j \in 1 .. b : l = a + j
      BY <1>8, <2>4
    <3>2. QED
      BY <1>6, <1>7, <2>1, <2>2, <2>4, <3>1
  <2>5. CASE k \notin 1 .. a /\ l \in 1 .. a
    <3>1. PICK j \in 1 .. b : k = a + j
      BY <1>8, <2>5
    <3>2. QED
      BY <1>6, <1>7, <2>1, <2>2, <2>5, <3>1
  <2>6. CASE k \notin 1 .. a /\ l \notin 1 .. a
    <3>1. PICK i \in 1 .. b : k = a + i
      BY <1>8, <2>6
    <3>2. PICK j \in 1 .. b : l = a + j
      BY <1>8, <2>6
    <3>3. done[i].no = done[j].no /\ done[i].no # 0
      BY <1>7, <1>9, <2>1, <3>1, <3>2
    <3>4. i = j
      BY <1>1, <3>3 DEF Single
    <3>5. QED
      BY <3>1, <3>2, <3>4
  <2>7. QED
    BY <2>3, <2>4, <2>5, <2>6
<1>12. QED
  BY <1>4, <1>10, <1>11 DEF t, d

Reports == {m \in Genuine : m.type \in {"subscribTo", "unsubFrom", "notSubTo"}}

(* What is heard of a report that is true leaves what is heard true.       *)
LEMMA HearFacts ==
  ASSUME ProcessesAreKnown, NEW h \in GenuineReports, NEW m \in Reports
  PROVE  Hear(h, m) \in GenuineReports
<1> DEFINE p == <<m.from, m.inst>>
           yes == m.type = "subscribTo"
           r == IF yes THEN [yes |-> h[p].yes \cup {m.about}, no |-> h[p].no \ {m.about}]
                ELSE [yes |-> h[p].yes \ {m.about}, no |-> h[p].no \cup {m.about}]
           w == Hear(h, m)
<1>1. /\ m \in Messages /\ m.inst \in DOMAIN ran[m.from]
      /\ yes => m.about \in DataOf(ran[m.from][m.inst])
      /\ ~yes => ~StillHandles(m.from, m.inst, m.about)
  BY DEF Reports, Genuine
<1>2. m.from \in Endpoints /\ m.about \in Types \cup {"none"} /\ m.inst \in Nat
  BY <1>1 DEF Messages
<1>3. p \in Processes
  <2>1. /\ ran[m.from] \in Seq(UNION {Programs[d] : d \in Endpoints}) /\ budget \in Budgets
        /\ Len(ran[m.from]) <= budget.starts[m.from]
    BY <1>2 DEF ProcessesAreKnown, Inst
  <2>2. budget.starts[m.from] \in Nat
    BY <1>2, <2>1, SubscriptionsAssumption
  <2>3. m.inst \in 1 .. Len(ran[m.from])
    BY <1>1, <2>1
  <2>4. m.inst \in 1 .. budget.starts[m.from]
    BY <2>1, <2>2, <2>3
  <2>5. p \in {m.from} \X (1 .. budget.starts[m.from])
    BY <2>4
  <2> HIDE DEF p
  <2> DEFINE those == {m.from} \X (1 .. budget.starts[m.from])
             all == {{d} \X (1 .. b.starts[d]) : d \in Endpoints, b \in Budgets}
  <2>6. those \in all
    BY <1>2, <2>1
  <2>7. p \in those
    BY <2>5
  <2>8. Processes = UNION all
    BY DEF Processes
  <2> HIDE DEF those, all
  <2>9. QED
    BY <2>6, <2>7, <2>8
<1>4. h \in [Processes -> [yes : SUBSET Types, no : SUBSET (Types \cup {"none"})]]
  BY DEF GenuineReports
<1>5. w = [h EXCEPT ![p] = r]
  BY DEF Hear
<1>6. p[1] = m.from /\ p[2] = m.inst
  OBVIOUS
<1>7. /\ h[p].yes \in SUBSET Types /\ h[p].no \in SUBSET (Types \cup {"none"})
      /\ \A type \in h[p].yes : type \in DataOf(ran[m.from][m.inst])
      /\ \A type \in h[p].no : ~StillHandles(m.from, m.inst, type)
  <2> HIDE DEF p
  <2>1. /\ \A type \in h[p].yes : type \in DataOf(ran[p[1]][p[2]])
        /\ \A type \in h[p].no : ~StillHandles(p[1], p[2], type)
    BY <1>3 DEF GenuineReports
  <2>2. QED
    BY <1>3, <1>4, <1>6, <2>1
<1>8. DataOf(ran[m.from][m.inst]) \subseteq Types
  BY DEF DataOf
<1>9. r \in [yes : SUBSET Types, no : SUBSET (Types \cup {"none"})]
  <2>1. h[p].yes \ {m.about} \in SUBSET Types /\ h[p].no \ {m.about} \in SUBSET (Types \cup {"none"})
        /\ h[p].no \cup {m.about} \in SUBSET (Types \cup {"none"})
        /\ (yes => h[p].yes \cup {m.about} \in SUBSET Types)
    BY <1>1, <1>2, <1>7, <1>8
  <2>2. QED
    BY <2>1
<1>10. /\ \A type \in r.yes : type \in DataOf(ran[m.from][m.inst])
       /\ \A type \in r.no : ~StillHandles(m.from, m.inst, type)
  <2>1. CASE yes
    <3>1. r.yes = h[p].yes \cup {m.about} /\ r.no = h[p].no \ {m.about}
      BY <2>1
    <3> HIDE DEF r, p
    <3>2. QED
      BY <1>1, <1>7, <2>1, <3>1
  <2>2. CASE ~yes
    <3>1. r.yes = h[p].yes \ {m.about} /\ r.no = h[p].no \cup {m.about}
      BY <2>2
    <3> HIDE DEF r, p
    <3>2. QED
      BY <1>1, <1>7, <2>2, <3>1
  <2>3. QED
    BY <2>1, <2>2
<1> HIDE DEF r, w, p
<1>11. /\ w \in [Processes -> [yes : SUBSET Types, no : SUBSET (Types \cup {"none"})]]
       /\ w[p] = r /\ \A q \in Processes \ {p} : w[q] = h[q]
  BY <1>3, <1>4, <1>5, <1>9
<1>12. ASSUME NEW q \in Processes
       PROVE  /\ w[q].yes \cup w[q].no # {} => q[2] \in DOMAIN ran[q[1]]
              /\ \A type \in w[q].yes : type \in DataOf(ran[q[1]][q[2]])
              /\ \A type \in w[q].no : ~StillHandles(q[1], q[2], type)
  <2>1. CASE q = p
    BY <1>1, <1>6, <1>10, <1>11, <2>1
  <2>2. CASE q # p
    <3>1. w[q] = h[q]
      BY <1>11, <2>2
    <3>2. /\ h[q].yes \cup h[q].no # {} => q[2] \in DOMAIN ran[q[1]]
          /\ \A type \in h[q].yes : type \in DataOf(ran[q[1]][q[2]])
          /\ \A type \in h[q].no : ~StillHandles(q[1], q[2], type)
      BY DEF GenuineReports
    <3>3. QED
      BY <3>1, <3>2
  <2>3. QED
    BY <2>1, <2>2
<1>13. w \in GenuineReports
  BY <1>11, <1>12 DEF GenuineReports
<1>14. QED
  BY <1>13 DEF w

(* The same, of several reports.                                           *)
LEMMA HeardFacts ==
  ASSUME ProcessesAreKnown, NEW h \in GenuineReports, NEW messages \in Seq(Reports)
  PROVE  Heard(h, messages) \in GenuineReports
<1> DEFINE N == Len(messages)
           S == [i \in 0 .. N |-> GenuineReports]
<1>1. N \in Nat /\ \A i \in 1 .. N : messages[i] \in Reports
  OBVIOUS
<1>2. \A i \in 0 .. N : S[i] = GenuineReports
  OBVIOUS
<1>3. /\ \A i \in 1 .. N : i \in 0 .. N /\ i - 1 \in 0 .. N
      /\ 0 \in 0 .. N /\ N \in 0 .. N
  <2> HIDE DEF N
  <2>1. QED
    BY <1>1
<1> HIDE DEF S
<1>4. h \in S[0]
  BY <1>2, <1>3
<1>5. ASSUME NEW i \in 1 .. N, NEW s \in S[i - 1] PROVE Hear(s, messages[i]) \in S[i]
  BY <1>1, <1>2, <1>3, HearFacts
<1>6. Heard(h, messages) \in S[N]
  BY <1>1, <1>4, <1>5, HeardStays
<1>7. QED
  BY <1>2, <1>3, <1>6

Plain(e) == {m \in GenuineOf(e) : m.no = 0}

(* Messages that are no data have no numbers.                              *)
LEMMA PlainFacts ==
  ASSUME NEW e, NEW s \in Seq(Plain(e))
  PROVE  s \in Seq(GenuineOf(e)) /\ NumbersIn(s) = {} /\ Single(s)
<1>1. Plain(e) \subseteq GenuineOf(e) /\ \A m \in Plain(e) : m.no = 0
  BY DEF Plain
<1>2. s \in Seq(GenuineOf(e))
  BY <1>1, SeqMonotonic
<1>3. QED
  BY <1>1, <1>2, WithoutNumbers

(* The types some program handles, in order.                               *)
LEMMA TypesInOrder ==
  ASSUME NEW types \in SUBSET Types
  PROVE  SetToSeq(types) \in Seq(types)
<1>1. IsFiniteSet(types)
  BY SubscriptionsAssumption, FS_Subset
<1>2. QED
  BY <1>1, SetToSeqIsSeq

(* What the objects of an endpoint answer is true.                         *)
LEMMA RespondFacts ==
  ASSUME ProcessesAreKnown, NEW e \in Endpoints, up[e],
         NEW m \in Genuine, m.type \in {"qrySubscrp", "qrySubscrb"}
  PROVE  RespondTo(e, m) \in Seq(Plain(e))
<1>1. m.from \in Endpoints /\ m.about \in Types \cup {"none"}
  BY DEF Genuine, Messages
<1>2. /\ Live(e) \subseteq AllTypes /\ Live(e) \cap Types \subseteq DataOf(Program(e))
      /\ "none" \notin Live(e)
  <2>1. "none" \notin AllTypes
    BY SubscriptionsAssumption DEF AllTypes, MetaTypes
  <2>2. QED
    BY <2>1, RunningFacts
<1>3. "subscribTo" \in MetaTypes /\ "notSubTo" \in MetaTypes
  BY DEF MetaTypes
<1>4. ASSUME NEW about \in Live(e) \cap Types PROVE Message("subscribTo", about, e, m.from) \in Plain(e)
  <2> DEFINE sort == "subscribTo"
  <2>1. sort \in MetaTypes /\ sort \notin {"unsubFrom", "notSubTo"} /\ about \in DataOf(Program(e))
    BY <1>2, <1>3
  <2>2. about \in Types \cup {"none"} /\ m.from \in Endpoints \cup {All}
    BY <1>1
  <2> HIDE DEF sort
  <2>3. Message(sort, about, e, m.from) \in GenuineOf(e) /\ Message(sort, about, e, m.from).no = 0
    BY <2>1, <2>2, OwnMessage
  <2>4. QED
    BY <2>3 DEF Plain, sort
<1>5. CASE m.type = "qrySubscrp"
  <2> DEFINE said == SetToSeq(Live(e) \cap Types)
             s == [i \in DOMAIN said |-> Message("subscribTo", said[i], e, m.from)]
  <2>1. said \in Seq(Live(e) \cap Types)
    BY TypesInOrder
  <2> HIDE DEF said
  <2>2. DOMAIN said = 1 .. Len(said) /\ Len(said) \in Nat /\ \A i \in DOMAIN said : said[i] \in Live(e) \cap Types
    BY <2>1
  <2>3. \A i \in DOMAIN said : s[i] \in Plain(e)
    BY <1>4, <2>2
  <2>4. s \in [1 .. Len(said) -> Plain(e)]
    BY <2>2, <2>3
  <2>5. RespondTo(e, m) = s
    BY <1>5 DEF RespondTo, said
  <2> HIDE DEF s
  <2>6. QED
    BY <2>2, <2>4, <2>5
<1>6. CASE m.type # "qrySubscrp"
  <2> DEFINE sort == IF m.about \in Live(e) THEN "subscribTo" ELSE "notSubTo"
             x == Message(sort, m.about, e, m.from)
  <2>1. x \in Plain(e)
    <3>1. CASE m.about \in Live(e)
      <4>1. m.about \in Live(e) \cap Types
        BY <1>1, <1>2, <3>1
      <4>2. QED
        BY <1>4, <3>1, <4>1
    <3>2. CASE m.about \notin Live(e)
      <4> DEFINE other == "notSubTo"
                 about == m.about
      <4>1. other \in MetaTypes /\ other # "subscribTo" /\ about \notin Live(e)
        BY <1>3, <3>2
      <4>2. about \in Types \cup {"none"} /\ m.from \in Endpoints \cup {All}
        BY <1>1
      <4>3. x = Message(other, about, e, m.from)
        BY <3>2
      <4> HIDE DEF other, about, x
      <4>4. Message(other, about, e, m.from) \in GenuineOf(e) /\ Message(other, about, e, m.from).no = 0
        BY <4>1, <4>2, OwnMessage
      <4>5. x \in Plain(e)
        BY <4>3, <4>4 DEF Plain
      <4>6. QED
        BY <4>5 DEF x
    <3>3. QED
      BY <3>1, <3>2
  <2>4. RespondTo(e, m) = <<x>>
    BY <1>6 DEF RespondTo
  <2> HIDE DEF x
  <2>5. QED
    BY <2>1, <2>4
<1>7. QED
  BY <1>5, <1>6

(* The objects only have handlers for types.                               *)
LEMMA HandlersFacts ==
  ASSUME ProcessesAreKnown, NEW e \in Endpoints
  PROVE  Len(HandlersOf(e)) \in Nat
<1> DEFINE at(i) == {k \in DOMAIN HandlerOrder : HandlerOrder[k] \in objects[e][i]}
           s == [i \in DOMAIN objects[e] |-> Picked(HandlerOrder, at(i))]
<1>1. HandlerOrder \in Seq(AllTypes)
  <2> DEFINE others == <<"subscribTo", "unsubFrom", "notSubTo", "qrySubscrp", "qrySubscrb">>
             types == SetToSeq(Types)
  <2>1. others \in Seq(AllTypes)
    BY DEF AllTypes, MetaTypes
  <2>2. types \in Seq(AllTypes)
    <3>1. types \in Seq(Types) /\ Types \subseteq AllTypes
      BY TypesInOrder DEF AllTypes
    <3> HIDE DEF types
    <3>2. QED
      BY <3>1, SeqMonotonic
  <2> HIDE DEF types, others
  <2>3. types \o others \in Seq(AllTypes)
    BY <2>1, <2>2, ConcatProperties
  <2>4. QED
    BY <2>3 DEF HandlerOrder, types, others
<1>2. DOMAIN objects[e] = 1 .. Len(objects[e]) /\ Len(objects[e]) \in Nat
  <2>1. objects[e] \in Seq(SUBSET AllTypes)
    BY DEF ProcessesAreKnown
  <2>2. QED
    BY <2>1
<1>3. ASSUME NEW i \in DOMAIN objects[e] PROVE Picked(HandlerOrder, at(i)) \in Seq(AllTypes)
  <2> DEFINE those == at(i)
  <2> HIDE DEF those
  <2>1. Picked(HandlerOrder, those) \in Seq(AllTypes)
    BY <1>1, PickedNumbers
  <2>2. QED
    BY <2>1 DEF those
<1> HIDE DEF at
<1>4. s \in [1 .. Len(objects[e]) -> Seq(AllTypes)]
  BY <1>2, <1>3
<1>5. HandlersOf(e) = FlattenSeq(s)
  BY DEF HandlersOf, at
<1> HIDE DEF s
<1>6. s \in Seq(Seq(AllTypes))
  BY <1>2, <1>4
<1>7. HandlersOf(e) \in Seq(AllTypes)
  BY <1>5, <1>6, FlattenIsSeq
<1>8. QED
  BY <1>7

(* What a turn may have come to, when it began with the queues q.          *)
ProcessedFrom(e, q) ==
    {a \in [q : QueuesOf(Genuine), handled : Seq(1 .. posts), heard : GenuineReports, out : Seq(Plain(e))] :
        /\ AllSingle(a.q) /\ Queued(a.q) \subseteq Queued(q)
        /\ IsInjective(a.handled) /\ Range(a.handled) \subseteq Range(handled[e]) \cup Queued(q)
        /\ Range(a.handled) \cap Queued(a.q) = {}}

(* One object processes one queue.                                         *)
LEMMA ProcessTypeFacts ==
  ASSUME SubsIInv, NEW e \in Endpoints, up[e], NEW q, NEW refused, NEW type,
         NEW a \in ProcessedFrom(e, q)
  PROVE  ProcessType(e, a, type, refused) \in ProcessedFrom(e, q)
<1> DEFINE queue == a.q[type].queue
           done == Done(queue, refused)
           kept == Kept(queue, refused)
           M == OfType(Genuine, type)
           next == WithQueue(a.q, type, kept)
           replies == FlattenSeq([i \in DOMAIN done |-> RespondTo(e, done[i])])
           hd == IF type \in Types THEN a.handled \o [i \in DOMAIN done |-> done[i].no] ELSE a.handled
           hr == IF type \in {"subscribTo", "unsubFrom", "notSubTo"} THEN Heard(a.heard, done) ELSE a.heard
           ou == IF type \in {"qrySubscrp", "qrySubscrb"} THEN a.out \o replies ELSE a.out
           r == [q |-> next, handled |-> hd, heard |-> hr, out |-> ou]
<1>0. ProcessesAreKnown /\ posts \in Nat
  BY DEF SubsIInv, ProcessesAreKnown
<1>1. /\ a \in [q : QueuesOf(Genuine), handled : Seq(1 .. posts), heard : GenuineReports, out : Seq(Plain(e))]
      /\ AllSingle(a.q) /\ Queued(a.q) \subseteq Queued(q)
      /\ IsInjective(a.handled) /\ Range(a.handled) \subseteq Range(handled[e]) \cup Queued(q)
      /\ Range(a.handled) \cap Queued(a.q) = {}
  BY DEF ProcessedFrom
<1>2. CASE type \notin DOMAIN a.q
  BY <1>2 DEF ProcessType
<1>3. CASE type \in DOMAIN a.q
  <2>1. ProcessType(e, a, type, refused) = r
    BY <1>3 DEF ProcessType, WithQueue
  <2>2. queue \in Seq(M)
    <3>1. a.q \in QueuesOf(Genuine)
      BY <1>1
    <3>2. QED
      BY <1>3, <3>1, QueueFacts
  <2>3. Single(queue) /\ NumbersIn(queue) \subseteq Queued(a.q)
    BY <1>1, <1>3 DEF AllSingle, Queued
  <2>4. /\ kept \in Seq(M) /\ done \in Seq(M) /\ Single(kept) /\ Single(done)
        /\ NumbersIn(kept) \subseteq NumbersIn(queue) /\ NumbersIn(done) \subseteq NumbersIn(queue)
        /\ NumbersIn(kept) \cap NumbersIn(done) = {}
    <3> HIDE DEF queue, M, kept, done
    <3>1. QED
      BY <2>2, <2>3, KeptAndDone DEF kept, done
  <2>5. ASSUME NEW u \in DOMAIN a.q \ {type} PROVE NumbersIn(queue) \cap NumbersIn(a.q[u].queue) = {}
    BY <1>1, <1>3 DEF AllSingle
  <2>6. /\ next \in QueuesOf(Genuine) /\ AllSingle(next)
        /\ Queued(next) = NumbersIn(kept) \cup UNION {NumbersIn(a.q[u].queue) : u \in DOMAIN a.q \ {type}}
    <3> DEFINE p == a.q
    <3>1. p \in QueuesOf(Genuine) /\ AllSingle(p) /\ type \in DOMAIN p
      BY <1>1, <1>3
    <3>2. kept \in Seq(OfType(Genuine, type)) /\ Single(kept)
      BY <2>4
    <3>3. \A u \in DOMAIN p \ {type} : NumbersIn(kept) \cap NumbersIn(p[u].queue) = {}
      <4> HIDE DEF queue, kept, done
      <4>1. QED
        BY <2>4, <2>5
    <3> HIDE DEF p, kept
    <3>4. /\ WithQueue(p, type, kept) \in QueuesOf(Genuine) /\ AllSingle(WithQueue(p, type, kept))
          /\ Queued(WithQueue(p, type, kept)) = NumbersIn(kept) \cup UNION {NumbersIn(p[u].queue) : u \in DOMAIN p \ {type}}
      BY <3>1, <3>2, <3>3, OtherQueue
    <3>5. QED
      BY <3>4 DEF p
  <2> HIDE DEF queue, done, kept, next, replies
  <2>7. Queued(next) \subseteq Queued(a.q) /\ Queued(next) \cap NumbersIn(done) = {}
    <3>1. \A u \in DOMAIN a.q \ {type} : /\ NumbersIn(a.q[u].queue) \subseteq Queued(a.q)
                                         /\ NumbersIn(a.q[u].queue) \cap NumbersIn(done) = {}
      BY <2>4, <2>5 DEF Queued
    <3>2. QED
      BY <2>3, <2>4, <2>6, <3>1
  <2>8. /\ hd \in Seq(1 .. posts) /\ IsInjective(hd)
        /\ Range(hd) \subseteq Range(a.handled) \cup NumbersIn(done)
    <3>1. CASE type \notin Types
      BY <1>1, <3>1
    <3>2. CASE type \in Types
      <4> DEFINE d == [i \in DOMAIN done |-> done[i].no]
                 h == a.handled
                 t == h \o d
      <4>1. \A m \in M : m.no \in 1 .. posts
        BY <3>2 DEF OfType, Genuine
      <4>2. h \in Seq(1 .. posts) /\ IsInjective(h) /\ Range(h) \cap NumbersIn(done) = {}
        BY <1>1, <2>3, <2>4
      <4>3. t \in Seq(1 .. posts) /\ IsInjective(t) /\ Range(t) = Range(h) \cup NumbersIn(done)
        <5> HIDE DEF M, h
        <5>1. QED
          BY <1>0, <2>4, <4>1, <4>2, HandledNumbers
      <4>4. hd = t
        BY <3>2
      <4>5. QED
        BY <4>3, <4>4
    <3>3. QED
      BY <3>1, <3>2
  <2>9. hr \in GenuineReports
    <3>1. CASE type \notin {"subscribTo", "unsubFrom", "notSubTo"}
      BY <1>1, <3>1
    <3>2. CASE type \in {"subscribTo", "unsubFrom", "notSubTo"}
      <4>1. M \subseteq Reports
        BY <3>2 DEF OfType, Reports
      <4>2. done \in Seq(Reports)
        <5> HIDE DEF M
        <5>1. QED
          BY <2>4, <4>1, SeqMonotonic
      <4> DEFINE h == a.heard
      <4>3. h \in GenuineReports
        BY <1>1
      <4> HIDE DEF h
      <4>4. Heard(h, done) \in GenuineReports
        BY <1>0, <4>2, <4>3, HeardFacts
      <4>5. QED
        BY <3>2, <4>4 DEF h
    <3>3. QED
      BY <3>1, <3>2
  <2>10. ou \in Seq(Plain(e))
    <3>1. CASE type \notin {"qrySubscrp", "qrySubscrb"}
      BY <1>1, <3>1
    <3>2. CASE type \in {"qrySubscrp", "qrySubscrb"}
      <4> DEFINE s == [i \in DOMAIN done |-> RespondTo(e, done[i])]
                 P == Plain(e)
      <4>1. DOMAIN done = 1 .. Len(done) /\ Len(done) \in Nat /\ \A i \in DOMAIN done : done[i] \in M
        <5> HIDE DEF M
        <5>1. QED
          BY <2>4
      <4>2. ASSUME NEW i \in DOMAIN done PROVE RespondTo(e, done[i]) \in Seq(P)
        <5> DEFINE m == done[i]
        <5>1. m \in Genuine /\ m.type \in {"qrySubscrp", "qrySubscrb"}
          BY <3>2, <4>1 DEF OfType
        <5> HIDE DEF m
        <5>2. RespondTo(e, m) \in Seq(Plain(e))
          BY <1>0, <5>1, RespondFacts
        <5>3. QED
          BY <5>2 DEF m
      <4> HIDE DEF P, M
      <4>3. s \in [1 .. Len(done) -> Seq(P)]
        BY <4>1, <4>2
      <4>4. replies = FlattenSeq(s)
        BY DEF replies
      <4> HIDE DEF s
      <4>5. s \in Seq(Seq(P))
        BY <4>1, <4>3
      <4>6. replies \in Seq(P)
        BY <4>4, <4>5, FlattenIsSeq
      <4> DEFINE o == a.out
      <4>7. o \in Seq(P)
        BY <1>1 DEF P
      <4> HIDE DEF o
      <4>8. o \o replies \in Seq(P)
        BY <4>6, <4>7, ConcatProperties
      <4>9. QED
        BY <3>2, <4>8 DEF o, P
    <3>3. QED
      BY <3>1, <3>2
  <2> HIDE DEF hd, hr, ou
  <2>11. /\ r \in [q : QueuesOf(Genuine), handled : Seq(1 .. posts), heard : GenuineReports, out : Seq(Plain(e))]
         /\ r.q = next /\ r.handled = hd
    BY <2>6, <2>8, <2>9, <2>10
  <2> HIDE DEF r
  <2>12. /\ Range(hd) \subseteq Range(handled[e]) \cup Queued(q)
         /\ Range(hd) \cap Queued(next) = {} /\ Queued(next) \subseteq Queued(q)
    BY <1>1, <2>3, <2>4, <2>7, <2>8
  <2>13. r \in ProcessedFrom(e, q)
    BY <2>6, <2>8, <2>11, <2>12 DEF ProcessedFrom
  <2>14. QED
    BY <2>1, <2>13
<1>4. QED
  BY <1>2, <1>3

(* All objects process all of their queues.                                *)
LEMMA ProcessAllFacts ==
  ASSUME SubsIInv, NEW e \in Endpoints, up[e], NEW q \in QueuesOf(Genuine), NEW refused,
         AllSingle(q), Range(handled[e]) \cap Queued(q) = {}
  PROVE  ProcessAll(e, q, refused) \in ProcessedFrom(e, q)
<1> DEFINE N == Len(HandlersOf(e))
           S == [i \in 0 .. N |-> ProcessedFrom(e, q)]
           first == [q |-> q, out |-> <<>>, handled |-> handled[e], heard |-> heard]
<1>0. ProcessesAreKnown
  BY DEF SubsIInv
<1>1. N \in Nat
  BY <1>0, HandlersFacts
<1>2. \A i \in 0 .. N : S[i] = ProcessedFrom(e, q)
  OBVIOUS
<1>3. /\ \A i \in 1 .. N : i \in 0 .. N /\ i - 1 \in 0 .. N
      /\ 0 \in 0 .. N /\ N \in 0 .. N
  <2> HIDE DEF N
  <2>1. QED
    BY <1>1
<1> HIDE DEF S
<1>4. first \in S[0]
  <2>1. handled[e] \in Seq(1 .. posts) /\ IsInjective(handled[e]) /\ heard \in GenuineReports
    BY DEF SubsIInv, DataIsSingle, DataIsAt, KnowledgeIsGenuine
  <2>2. <<>> \in Seq(Plain(e))
    OBVIOUS
  <2>3. /\ first \in [q : QueuesOf(Genuine), handled : Seq(1 .. posts), heard : GenuineReports, out : Seq(Plain(e))]
        /\ first.q = q /\ first.handled = handled[e]
    BY <2>1, <2>2
  <2> HIDE DEF first
  <2>4. first \in ProcessedFrom(e, q)
    BY <2>1, <2>3 DEF ProcessedFrom
  <2>5. QED
    BY <1>2, <1>3, <2>4
<1>5. ASSUME NEW i \in 1 .. N, NEW s \in S[i - 1] PROVE ProcessType(e, s, HandlersOf(e)[i], refused) \in S[i]
  <2>1. s \in ProcessedFrom(e, q)
    BY <1>2, <1>3
  <2> DEFINE type == HandlersOf(e)[i]
  <2> HIDE DEF type
  <2>2. ProcessType(e, s, type, refused) \in ProcessedFrom(e, q)
    BY <2>1, ProcessTypeFacts
  <2>3. QED
    BY <1>2, <1>3, <2>2 DEF type
<1>6. ProcessAll(e, q, refused) \in S[N]
  BY <1>1, <1>4, <1>5, ProcessAllStays
<1>7. QED
  BY <1>2, <1>3, <1>6

-----------------------------------------------------------------------------
(* What the router notes, and what it sends.                               *)

ProperInfos(e) ==
    {i \in [inst : Nat, subs : SUBSET Types, unsubs : SUBSET (Types \cup {"none"})] :
        i.inst \in DOMAIN ran[e] /\ i.subs \subseteq DataOf(ran[e][i.inst])}

(* A message that is true leaves what is known true.                       *)
LEMMA UpdatedInfoFacts ==
  ASSUME NEW e \in Endpoints, NEW i \in GenuineInfos(e), NEW m \in GenuineOf(e)
  PROVE  UpdatedInfo(i, m) \in GenuineInfos(e)
<1> DEFINE j == AssignInstance(i, m)
           Infos == [inst : Nat, subs : SUBSET Types, unsubs : SUBSET (Types \cup {"none"})]
<1>1. /\ m \in Messages /\ m.from = e /\ m.inst \in DOMAIN ran[e]
      /\ m.type = "subscribTo" => m.about \in DataOf(ran[e][m.inst])
      /\ m.inst \in Nat /\ m.about \in Types \cup {"none"}
  <2>1. m \in Messages /\ m.from = e /\ m.inst \in DOMAIN ran[m.from]
        /\ (m.type = "subscribTo" => m.about \in DataOf(ran[m.from][m.inst]))
    BY DEF GenuineOf, Genuine
  <2>2. QED
    BY <2>1 DEF Messages
<1>2. GenuineInfos(e) = {None} \cup ProperInfos(e)
  BY DEF GenuineInfos, ProperInfos
<1>3. j \in ProperInfos(e) /\ j.inst = m.inst
  <2>1. CASE i = None \/ i.inst # m.inst
    <3> DEFINE n == NewInfo(m.inst)
    <3>1. n \in Infos /\ n.inst = m.inst /\ n.subs = {}
      BY <1>1 DEF NewInfo
    <3>2. j = n
      BY <2>1 DEF AssignInstance
    <3> HIDE DEF n, j
    <3>3. n \in ProperInfos(e)
      BY <1>1, <3>1 DEF ProperInfos
    <3>4. QED
      BY <3>1, <3>2, <3>3
  <2>2. CASE i # None /\ i.inst = m.inst
    <3>1. j = i
      BY <2>2 DEF AssignInstance
    <3>2. QED
      BY <1>2, <2>2, <3>1
  <2>3. QED
    BY <2>1, <2>2
<1> HIDE DEF j
<1>4. /\ j \in Infos /\ j.subs \subseteq DataOf(ran[e][m.inst])
  BY <1>3 DEF ProperInfos
<1>5. DataOf(ran[e][m.inst]) \subseteq Types
  BY DEF DataOf
<1>6. CASE m.type = "subscribTo"
  <2> DEFINE n == AddSubscription(j, m.about)
  <2>1. UpdatedInfo(i, m) = n
    BY <1>6 DEF UpdatedInfo, j
  <2>2. m.about \in DataOf(ran[e][m.inst])
    BY <1>1, <1>6
  <2>3. n = [j EXCEPT !.subs = j.subs \cup {m.about}, !.unsubs = j.unsubs \ {m.about}]
    BY DEF AddSubscription
  <2>4. j.subs \cup {m.about} \in SUBSET Types /\ j.unsubs \ {m.about} \in SUBSET (Types \cup {"none"})
    BY <1>4, <1>5, <2>2
  <2> HIDE DEF n
  <2>5. n \in Infos /\ n.inst = m.inst /\ n.subs = j.subs \cup {m.about}
    BY <1>3, <1>4, <2>3, <2>4
  <2>6. n \in ProperInfos(e)
    BY <1>1, <1>4, <2>2, <2>5 DEF ProperInfos
  <2>7. QED
    BY <1>2, <2>1, <2>6
<1>7. CASE m.type \in {"unsubFrom", "notSubTo"}
  <2> DEFINE n == RemoveSubscription(j, m.about)
  <2>1. UpdatedInfo(i, m) = n
    BY <1>7 DEF UpdatedInfo, j
  <2>3. n = [j EXCEPT !.subs = j.subs \ {m.about}, !.unsubs = j.unsubs \cup {m.about}]
    BY DEF RemoveSubscription
  <2>4. j.subs \ {m.about} \in SUBSET Types /\ j.unsubs \cup {m.about} \in SUBSET (Types \cup {"none"})
    BY <1>1, <1>4
  <2> HIDE DEF n
  <2>5. n \in Infos /\ n.inst = m.inst /\ n.subs = j.subs \ {m.about}
    BY <1>3, <1>4, <2>3, <2>4
  <2>6. n \in ProperInfos(e)
    BY <1>1, <1>4, <2>5 DEF ProperInfos
  <2>7. QED
    BY <1>2, <2>1, <2>6
<1>8. CASE m.type \in {"msgBlkList", "msgAlwList"}
  <2>1. UpdatedInfo(i, m) = j
    BY <1>8 DEF UpdatedInfo, j
  <2>2. QED
    BY <1>2, <1>3, <2>1
<1>9. CASE m.type = "byeByeEndp"
  <2>1. UpdatedInfo(i, m) = None
    BY <1>9 DEF UpdatedInfo
  <2>2. QED
    BY <1>2, <2>1
<1>10. CASE m.type \notin {"subscribTo", "unsubFrom", "notSubTo", "msgBlkList", "msgAlwList", "byeByeEndp"}
  <2>1. UpdatedInfo(i, m) = i
    BY <1>10 DEF UpdatedInfo
  <2>2. QED
    BY <2>1
<1>11. QED
  BY <1>6, <1>7, <1>8, <1>9, <1>10

(* The same, of several messages.                                          *)
LEMMA RoutedInfoFacts ==
  ASSUME NEW e \in Endpoints, NEW known \in GenuineInfos(e), NEW messages \in Seq(GenuineOf(e))
  PROVE  RoutedInfo(known, messages) \in GenuineInfos(e)
<1> DEFINE N == Len(messages)
           S == [i \in 0 .. N |-> GenuineInfos(e)]
<1>1. N \in Nat /\ \A i \in 1 .. N : messages[i] \in GenuineOf(e)
  OBVIOUS
<1>2. \A i \in 0 .. N : S[i] = GenuineInfos(e)
  OBVIOUS
<1>3. /\ \A i \in 1 .. N : i \in 0 .. N /\ i - 1 \in 0 .. N
      /\ 0 \in 0 .. N /\ N \in 0 .. N
  <2> HIDE DEF N
  <2>1. QED
    BY <1>1
<1> HIDE DEF S
<1>4. known \in S[0]
  BY <1>2, <1>3
<1>5. ASSUME NEW i \in 1 .. N, NEW s \in S[i - 1] PROVE UpdatedInfo(s, messages[i]) \in S[i]
  BY <1>1, <1>2, <1>3, UpdatedInfoFacts
<1>6. RoutedInfo(known, messages) \in S[N]
  BY <1>1, <1>4, <1>5, RoutedInfoStays
<1>7. QED
  BY <1>2, <1>3, <1>6

(* What the router replies in place of another is true.                    *)
LEMMA AnswersFacts ==
  ASSUME KnowledgeIsGenuine, NEW m \in Genuine
  PROVE  /\ AnswersFor(m) \in Seq(Genuine) /\ NumbersIn(AnswersFor(m)) = {} /\ Single(AnswersFor(m))
<1> DEFINE Z == {l \in Genuine : l.no = 0}
<1>1. m.from \in Endpoints /\ m.to \in Endpoints \cup {All}
  BY DEF Genuine, Messages
<1>2. ASSUME NEW s \in Seq(Z) PROVE s \in Seq(Genuine) /\ NumbersIn(s) = {} /\ Single(s)
  <2>1. Z \subseteq Genuine /\ \A l \in Z : l.no = 0
    OBVIOUS
  <2> HIDE DEF Z
  <2>2. s \in Seq(Genuine)
    BY <2>1, SeqMonotonic
  <2>3. QED
    BY <2>1, <2>2, WithoutNumbers
<1>3. <<>> \in Seq(Z)
  OBVIOUS
<1> DEFINE i == info[m.to]
           subs == IF m.type = "qrySubscrp" THEN i.subs ELSE i.subs \cap {m.about}
           said == SetToSeq(subs)
           answer(about) == [type |-> "subscribTo", about |-> about, from |-> m.to, inst |-> i.inst,
                             to |-> m.from, pri |-> 0, no |-> 0]
           s == [k \in DOMAIN said |-> answer(said[k])]
<1>4. CASE m.to = All \/ m.type \notin {"qrySubscrp", "qrySubscrb"} \/ i = None
  <2>1. AnswersFor(m) = <<>>
    BY <1>4 DEF AnswersFor
  <2> HIDE DEF Z
  <2>2. QED
    BY <1>2, <1>3, <2>1
<1>5. CASE ~(m.to = All \/ m.type \notin {"qrySubscrp", "qrySubscrb"} \/ i = None)
  <2>1. AnswersFor(m) = s
    BY <1>5 DEF AnswersFor
  <2>2. m.to \in Endpoints
    BY <1>1, <1>5
  <2>3. /\ i \in [inst : Nat, subs : SUBSET Types, unsubs : SUBSET (Types \cup {"none"})]
        /\ i.inst \in DOMAIN ran[m.to] /\ i.subs \subseteq DataOf(ran[m.to][i.inst])
    <3>1. i \in GenuineInfos(m.to)
      BY <2>2 DEF KnowledgeIsGenuine
    <3>2. QED
      BY <1>5, <3>1 DEF GenuineInfos
  <2>4. subs \in SUBSET Types /\ subs \subseteq DataOf(ran[m.to][i.inst])
    BY <2>3
  <2>5. said \in Seq(subs)
    <3> HIDE DEF subs
    <3>1. QED
      BY <2>4, TypesInOrder
  <2> HIDE DEF said, subs
  <2>6. DOMAIN said = 1 .. Len(said) /\ Len(said) \in Nat /\ \A k \in DOMAIN said : said[k] \in subs
    BY <2>5
  <2>7. ASSUME NEW about \in subs PROVE answer(about) \in Z
    <3> DEFINE x == answer(about)
    <3>1. about \in Types /\ about \in DataOf(ran[m.to][i.inst])
      BY <2>4
    <3>2. /\ x.type = "subscribTo" /\ x.about = about /\ x.from = m.to /\ x.inst = i.inst /\ x.no = 0
          /\ x \in [type : {"subscribTo"}, about : {about}, from : {m.to}, inst : {i.inst},
                    to : {m.from}, pri : {0}, no : {0}]
      OBVIOUS
    <3>3. "subscribTo" \notin Types /\ "subscribTo" \in AllTypes
      BY SubscriptionsAssumption DEF AllTypes, MetaTypes
    <3>4. i.inst \in Nat
      BY <2>3
    <3> HIDE DEF x, i
    <3>5. x \in Messages
      BY <1>1, <2>2, <3>1, <3>2, <3>3, <3>4 DEF Messages
    <3>6. x.inst \in DOMAIN ran[x.from] /\ x.about \in DataOf(ran[x.from][x.inst])
      BY <2>3, <3>1, <3>2
    <3>7. x.type \notin {"unsubFrom", "notSubTo"} /\ x.type \notin Types
      BY <3>2, <3>3
    <3>8. x \in Genuine
      BY <3>2, <3>5, <3>6, <3>7 DEF Genuine
    <3>9. x \in Z
      BY <3>2, <3>8
    <3>10. QED
      BY <3>9 DEF x
  <2> HIDE DEF answer, Z
  <2>8. s \in [1 .. Len(said) -> Z]
    BY <2>6, <2>7
  <2> HIDE DEF s
  <2>9. s \in Seq(Z)
    BY <2>6, <2>8
  <2>10. QED
    BY <1>2, <2>1, <2>9
<1>6. QED
  BY <1>4, <1>5

(* What some messages become at one receiver.                              *)
LEMMA SentFacts ==
  ASSUME KnowledgeIsGenuine, NEW e \in Endpoints, NEW messages \in Seq(Genuine)
  PROVE  /\ Sent(e, messages) \in Seq(Genuine) /\ NumbersIn(Sent(e, messages)) \subseteq NumbersIn(messages)
         /\ Single(messages) => Single(Sent(e, messages))
<1> DEFINE N == Len(messages)
           replies(m) == IF e = m.from THEN AnswersFor(m) ELSE <<>>
           itself(m) == IF Receives(e, m) THEN <<m>> ELSE <<>>
           seqs == [i \in DOMAIN messages |-> replies(messages[i]) \o itself(messages[i])]
           none == <<>>
           Upto(i) == {s \in Seq(Genuine) : /\ NumbersIn(s) \subseteq Early(messages, i)
                                            /\ Single(messages) => Single(s)}
           S == [i \in 0 .. N |-> Upto(i)]
<1>1. N \in Nat /\ DOMAIN messages = 1 .. N /\ \A i \in 1 .. N : messages[i] \in Genuine
  OBVIOUS
<1>2. Sent(e, messages) = FlattenSeq(seqs)
  BY DEF Sent
<1>3. ASSUME NEW m \in Genuine
      PROVE  /\ replies(m) \o itself(m) \in Seq(Genuine)
             /\ NumbersIn(replies(m) \o itself(m)) \subseteq {m.no} \ {0}
             /\ Single(replies(m) \o itself(m))
  <2> DEFINE x == replies(m)
             y == itself(m)
  <2>1. x \in Seq(Genuine) /\ NumbersIn(x) = {} /\ Single(x)
    <3>1. CASE e = m.from
      BY <3>1, AnswersFacts
    <3>2. CASE e # m.from
      <4>1. x = <<>>
        BY <3>2
      <4>2. none \in Seq(Genuine)
        OBVIOUS
      <4> HIDE DEF x
      <4>3. QED
        BY <4>1, <4>2, NoNumbers
    <3>3. QED
      BY <3>1, <3>2
  <2>2. y \in Seq(Genuine) /\ NumbersIn(y) \subseteq {m.no} \ {0} /\ Single(y)
    <3>1. CASE Receives(e, m)
      <4>1. y = <<m>>
        BY <3>1
      <4> HIDE DEF y
      <4>2. <<m>> \in Seq(Genuine) /\ NumbersIn(<<m>>) = {m.no} \ {0} /\ Single(<<m>>)
        BY OneNumber
      <4>3. QED
        BY <4>1, <4>2
    <3>2. CASE ~Receives(e, m)
      <4>1. y = <<>>
        BY <3>2
      <4>2. none \in Seq(Genuine)
        OBVIOUS
      <4> HIDE DEF y
      <4>3. QED
        BY <4>1, <4>2, NoNumbers
    <3>3. QED
      BY <3>1, <3>2
  <2> HIDE DEF x, y
  <2>3. /\ x \o y \in Seq(Genuine) /\ NumbersIn(x \o y) = NumbersIn(x) \cup NumbersIn(y)
        /\ Single(x) /\ Single(y) /\ NumbersIn(x) \cap NumbersIn(y) = {} => Single(x \o y)
    BY <2>1, <2>2, ConcatNumbers
  <2>4. x \o y \in Seq(Genuine) /\ NumbersIn(x \o y) \subseteq {m.no} \ {0} /\ Single(x \o y)
    BY <2>1, <2>2, <2>3
  <2>5. QED
    BY <2>4 DEF x, y
<1> HIDE DEF replies, itself
<1>4. /\ seqs \in Seq(Seq(Genuine)) /\ Len(seqs) = N
      /\ \A i \in 1 .. N : seqs[i] = replies(messages[i]) \o itself(messages[i])
  <2>1. \A i \in 1 .. N : seqs[i] = replies(messages[i]) \o itself(messages[i])
    BY <1>1
  <2>2. \A i \in 1 .. N : seqs[i] \in Seq(Genuine)
    BY <1>1, <1>3, <2>1
  <2>3. seqs \in [1 .. N -> Seq(Genuine)]
    BY <1>1, <2>2
  <2> HIDE DEF seqs, N
  <2>4. seqs \in Seq(Seq(Genuine)) /\ Len(seqs) = N
    BY <1>1, <2>3
  <2>5. QED
    BY <2>1, <2>4
<1> HIDE DEF seqs
<1>5. /\ \A i \in 0 .. N : S[i] = Upto(i)
      /\ \A i \in 1 .. N : i \in 0 .. N /\ i - 1 \in 0 .. N
      /\ 0 \in 0 .. N /\ N \in 0 .. N
  <2>1. \A i \in 0 .. N : S[i] = Upto(i)
    OBVIOUS
  <2> HIDE DEF N, S, Upto
  <2>2. QED
    BY <1>1, <2>1
<1>6. none \in S[0]
  <2>1. none \in Seq(Genuine) /\ NumbersIn(none) = {} /\ Single(none)
    BY NoNumbers
  <2> HIDE DEF S, none
  <2>2. QED
    BY <1>5, <2>1
<1>7. ASSUME NEW i \in 1 .. N, NEW s \in S[i - 1] PROVE s \o seqs[i] \in S[i]
  <2> DEFINE m == messages[i]
             x == seqs[i]
  <2>1. s \in Seq(Genuine) /\ NumbersIn(s) \subseteq Early(messages, i - 1) /\ (Single(messages) => Single(s))
    <3>1. s \in Upto(i - 1)
      <4> HIDE DEF S, Upto
      <4>1. QED
        BY <1>5
    <3>2. QED
      BY <3>1
  <2>2. x \in Seq(Genuine) /\ NumbersIn(x) \subseteq {m.no} \ {0} /\ Single(x)
    BY <1>1, <1>3, <1>4
  <2>3. /\ Early(messages, i) = Early(messages, i - 1) \cup ({m.no} \ {0})
        /\ Single(messages) => m.no \notin Early(messages, i - 1)
    BY EarlyFacts
  <2> HIDE DEF x, m
  <2>4. /\ s \o x \in Seq(Genuine) /\ NumbersIn(s \o x) = NumbersIn(s) \cup NumbersIn(x)
        /\ Single(s) /\ Single(x) /\ NumbersIn(s) \cap NumbersIn(x) = {} => Single(s \o x)
    BY <2>1, <2>2, ConcatNumbers
  <2>5. NumbersIn(s \o x) \subseteq Early(messages, i)
    BY <2>1, <2>2, <2>3, <2>4
  <2>6. ASSUME Single(messages) PROVE Single(s \o x)
    <3>1. NumbersIn(s) \cap NumbersIn(x) = {}
      BY <2>1, <2>2, <2>3, <2>6
    <3>2. QED
      BY <2>1, <2>2, <2>4, <2>6, <3>1
  <2>7. s \o x \in Upto(i)
    BY <2>4, <2>5, <2>6
  <2> HIDE DEF S, Upto
  <2>8. s \o x \in S[i]
    BY <1>5, <2>7
  <2>9. QED
    BY <2>8 DEF x
<1>8. FlattenSeq(seqs) \in S[N]
  <2> HIDE DEF S
  <2>1. <<>> \in S[0]
    BY <1>6
  <2>2. QED
    BY <1>4, <1>7, <2>1, FlattenStays
<1>9. FlattenSeq(seqs) \in Upto(N)
  <2> HIDE DEF S, Upto
  <2>1. QED
    BY <1>5, <1>8
<1>10. Early(messages, N) = NumbersIn(messages)
  BY EarlyFacts
<1>11. QED
  BY <1>2, <1>9, <1>10

-----------------------------------------------------------------------------
(* What the steps have in common.                                          *)

(* Messages stay genuine while the lives of processes go on, if what is    *)
(* put on the way is true of its sender before the step or after it.       *)
LEMMA MessagesStay ==
  ASSUME Onward,
         DOMAIN outgoing' = Endpoints, DOMAIN toRtr' = Endpoints,
         toEp' = [d \in Endpoints |-> toEp'[d]], incoming' = [d \in Endpoints |-> incoming'[d]],
         \A d \in Endpoints :
            /\ outgoing'[d] \in Seq(GenuineOf(d)) \/ outgoing'[d] \in Seq(GenuineOf(d)')
            /\ toRtr'[d] \in Seq(GenuineOf(d)) \/ toRtr'[d] \in Seq(GenuineOf(d)')
            /\ toEp'[d] \in Seq(Genuine) /\ incoming'[d] \in QueuesOf(Genuine)
  PROVE  MessagesAreGenuine'
<1>1. Genuine \subseteq Genuine' /\ \A d \in Endpoints : GenuineOf(d) \subseteq GenuineOf(d)'
  BY GenuineGrows
<1> DEFINE G == Genuine
           H == Genuine'
<1>2. ASSUME NEW d \in Endpoints PROVE outgoing'[d] \in Seq(GenuineOf(d)') /\ toRtr'[d] \in Seq(GenuineOf(d)')
  <2> DEFINE A == GenuineOf(d)
             B == GenuineOf(d)'
  <2>1. /\ A \subseteq B
        /\ outgoing'[d] \in Seq(A) \/ outgoing'[d] \in Seq(B)
        /\ toRtr'[d] \in Seq(A) \/ toRtr'[d] \in Seq(B)
    BY <1>1
  <2> HIDE DEF A, B
  <2>2. outgoing'[d] \in Seq(B) /\ toRtr'[d] \in Seq(B)
    BY <2>1, SeqMonotonic
  <2>3. QED
    BY <2>2 DEF B
<1>3. ASSUME NEW d \in Endpoints PROVE toEp'[d] \in Seq(H) /\ incoming'[d] \in QueuesOf(H)
  <2>1. G \subseteq H /\ toEp'[d] \in Seq(G) /\ incoming'[d] \in QueuesOf(G)
    BY <1>1
  <2> HIDE DEF G, H
  <2>2. QED
    BY <2>1, SeqMonotonic, QueuesGrow
<1>4. toEp' \in [Endpoints -> Seq(H)] /\ incoming' \in [Endpoints -> QueuesOf(H)]
  <2> HIDE DEF H
  <2>1. QED
    BY <1>3
<1>5. QueuesOf(H) = QueuesOf(Genuine)'
  BY DEF QueuesOf
<1>6. incoming' \in [Endpoints -> QueuesOf(Genuine)']
  <2> HIDE DEF H
  <2>1. QED
    BY <1>4, <1>5
<1>7. QED
  BY <1>2, <1>4, <1>6 DEF MessagesAreGenuine

(* What is known stays true, and what is new is true.                      *)
LEMMA KnowledgeStays ==
  ASSUME Onward, KnowledgeIsGenuine, DOMAIN info' = Endpoints,
         \A d \in Endpoints : info'[d] = info[d] \/ info'[d] \in GenuineInfos(d),
         heard' \in GenuineReports
  PROVE  KnowledgeIsGenuine'
<1>1. ASSUME NEW d \in Endpoints PROVE info'[d] \in GenuineInfos(d)'
  <2>1. info'[d] \in GenuineInfos(d)
    BY DEF KnowledgeIsGenuine
  <2>2. GenuineInfos(d) \subseteq GenuineInfos(d)'
    BY InfosGrow
  <2>3. QED
    BY <2>1, <2>2
<1>2. heard' \in GenuineReports'
  BY ReportsGrow
<1>3. QED
  BY <1>1, <1>2 DEF KnowledgeIsGenuine

(* Nothing changes at an endpoint, and nothing more is posted.             *)
LEMMA DataStaysAt ==
  ASSUME NEW d \in Endpoints, DataIsAt(d), posts \in Nat, posts' \in Nat, posts <= posts',
         toEp'[d] = toEp[d], incoming'[d] = incoming[d], handled'[d] = handled[d],
         Posted' \subseteq Posted
  PROVE  DataIsAt(d)'
<1>1. handled[d] \in Seq(1 .. posts')
  <2> DEFINE A == 1 .. posts
             B == 1 .. posts'
  <2>1. A \subseteq B /\ handled[d] \in Seq(A)
    BY DEF DataIsAt
  <2> HIDE DEF A, B
  <2>2. handled[d] \in Seq(B)
    BY <2>1, SeqMonotonic
  <2>3. QED
    BY <2>2 DEF B
<1>2. /\ Single(toEp'[d]) /\ AllSingle(incoming'[d])
      /\ handled'[d] \in Seq(1 .. posts') /\ IsInjective(handled'[d])
      /\ NumbersIn(toEp'[d]) \cap Queued(incoming'[d]) = {}
      /\ Range(handled'[d]) \cap (NumbersIn(toEp'[d]) \cup Queued(incoming'[d])) = {}
  BY <1>1 DEF DataIsAt
<1>3. Posted' \cap (NumbersIn(toEp'[d]) \cup Queued(incoming'[d]) \cup Range(handled'[d])) = {}
  BY DEF DataIsAt
<1>4. QED
  BY <1>2, <1>3 DEF DataIsAt

(* Nothing is at an endpoint whose process has just started or ended.      *)
LEMMA NoDataAt ==
  ASSUME NEW d \in Endpoints, posts' \in Nat,
         toEp'[d] = <<>>, handled'[d] = <<>>, AllSingle(incoming'[d]), Queued(incoming'[d]) = {}
  PROVE  DataIsAt(d)'
<1> DEFINE h == handled'[d]
<1>1. h = <<>>
  OBVIOUS
<1>2. h \in Seq(1 .. posts') /\ IsInjective(h) /\ Range(h) = {}
  BY <1>1 DEF IsInjective, Range
<1>3. Single(toEp'[d]) /\ NumbersIn(toEp'[d]) = {}
  BY NoNumbers
<1> HIDE DEF h
<1>4. /\ Single(toEp'[d]) /\ AllSingle(incoming'[d])
      /\ h \in Seq(1 .. posts') /\ IsInjective(h)
      /\ NumbersIn(toEp'[d]) \cap Queued(incoming'[d]) = {}
      /\ Range(h) \cap (NumbersIn(toEp'[d]) \cup Queued(incoming'[d])) = {}
      /\ Posted' \cap (NumbersIn(toEp'[d]) \cup Queued(incoming'[d]) \cup Range(h)) = {}
  BY <1>2, <1>3
<1>5. QED
  BY <1>4 DEF DataIsAt, h

(* Nobody but the observer sends data.                                     *)
LEMMA OthersSendNoData ==
  ASSUME NEW e \in Endpoints \ {Observer}, NEW s \in Seq(GenuineOf(e))
  PROVE  NumbersIn(s) = {} /\ Single(s)
<1>1. \A m \in GenuineOf(e) : m.no = 0
  BY DEF GenuineOf, Genuine
<1>2. QED
  BY <1>1, WithoutNumbers

(* Processes, their objects and the posts stay as they are.                *)
LEMMA NobodyChanges ==
  ASSUME ProcessesAreKnown, UNCHANGED <<ran, up, objects, posts, budget>>
  PROVE  ProcessesAreKnown' /\ Onward
<1>1. ProcessesAreKnown'
  <2>1. ASSUME NEW e \in Endpoints
        PROVE  (/\ Inst(e) <= budget.starts[e]
                /\ up[e] => ran[e] # <<>> /\ Live(e) \subseteq Handles(Program(e)))'
    <3>1. Inst(e)' = Inst(e) /\ Live(e)' = Live(e) /\ Program(e)' = Program(e)
      BY DEF Inst, Live, Program
    <3>2. Inst(e) <= budget.starts[e] /\ (up[e] => ran[e] # <<>> /\ Live(e) \subseteq Handles(Program(e)))
      BY DEF ProcessesAreKnown
    <3> HIDE DEF Inst, Live, Program
    <3>3. Handles(Program(e)') = Handles(Program(e))'
      BY DEF Handles
    <3>4. QED
      BY <3>1, <3>2
  <2>2. QED
    BY <2>1 DEF ProcessesAreKnown
<1>2. Onward
  BY DEF Onward, StillHandles, Inst, Live, Range, ProcessesAreKnown
<1>3. QED
  BY <1>1, <1>2

-----------------------------------------------------------------------------
(* The turn of an endpoint.                                                *)

(* What a turn leaves behind: it takes in what has come, and processes it.  *)
LEMMA TurnFacts ==
  ASSUME SubsIInv, NEW e \in Endpoints, up[e], NEW refused
  PROVE  LET fetched == Fetched(e)
             done == ProcessAll(e, fetched.q, refused)
         IN  /\ done.q \in QueuesOf(Genuine) /\ done.out \in Seq(GenuineOf(e))
             /\ fetched.out \in Seq(GenuineOf(e)) /\ done.heard \in GenuineReports
             /\ done.handled \in Seq(1 .. posts) /\ IsInjective(done.handled)
             /\ AllSingle(done.q) /\ Range(done.handled) \cap Queued(done.q) = {}
             /\ Queued(done.q) \cup Range(done.handled)
                   \subseteq Queued(incoming[e]) \cup NumbersIn(toEp[e]) \cup Range(handled[e])
             /\ NumbersIn(done.out) = {} /\ Single(done.out)
             /\ NumbersIn(fetched.out) \subseteq NumbersIn(outgoing[e])
             /\ Single(outgoing[e]) => Single(fetched.out)
<1> DEFINE fetched == Fetched(e)
           done == ProcessAll(e, fetched.q, refused)
<1>1. /\ fetched.q \in QueuesOf(Genuine) /\ fetched.out \in Seq(GenuineOf(e))
      /\ AllSingle(fetched.q)
      /\ Queued(fetched.q) \subseteq Queued(incoming[e]) \cup NumbersIn(toEp[e])
      /\ NumbersIn(fetched.out) \subseteq NumbersIn(outgoing[e])
      /\ Single(outgoing[e]) => Single(fetched.out)
  BY FetchedFacts
<1>2. Range(handled[e]) \cap (NumbersIn(toEp[e]) \cup Queued(incoming[e])) = {}
  BY DEF SubsIInv, DataIsSingle, DataIsAt
<1>3. Range(handled[e]) \cap Queued(fetched.q) = {}
  BY <1>1, <1>2
<1>4. done \in ProcessedFrom(e, fetched.q)
  BY <1>1, <1>3, ProcessAllFacts
<1> HIDE DEF fetched, done
<1>5. /\ done.q \in QueuesOf(Genuine) /\ done.handled \in Seq(1 .. posts)
      /\ done.heard \in GenuineReports /\ done.out \in Seq(Plain(e))
      /\ AllSingle(done.q) /\ Queued(done.q) \subseteq Queued(fetched.q)
      /\ IsInjective(done.handled) /\ Range(done.handled) \subseteq Range(handled[e]) \cup Queued(fetched.q)
      /\ Range(done.handled) \cap Queued(done.q) = {}
  BY <1>4 DEF ProcessedFrom
<1>6. done.out \in Seq(GenuineOf(e)) /\ NumbersIn(done.out) = {} /\ Single(done.out)
  BY <1>5, PlainFacts
<1>7. Queued(done.q) \cup Range(done.handled)
         \subseteq Queued(incoming[e]) \cup NumbersIn(toEp[e]) \cup Range(handled[e])
  BY <1>1, <1>5
<1>8. QED
  BY <1>1, <1>5, <1>6, <1>7 DEF fetched, done

(* What a turn does, as far as the invariant is concerned.                 *)
TurnsTo(e, q, out, said, hd, hr) ==
    /\ incoming' = [incoming EXCEPT ![e] = q] /\ outgoing' = [outgoing EXCEPT ![e] = out]
    /\ toRtr' = [toRtr EXCEPT ![e] = IF node[e] = None THEN @ ELSE @ \o said]
    /\ handled' = [handled EXCEPT ![e] = hd] /\ toEp' = [toEp EXCEPT ![e] = <<>>]
    /\ heard' = IF e = Observer THEN hr ELSE heard
    /\ UNCHANGED <<ran, up, objects, info, posts, budget>>

(* Nothing that is posted is posted once more by its turn.                 *)
LEMMA TurnPostsNothing ==
  ASSUME SubsIInv, NEW e \in Endpoints, NEW q, NEW out, NEW said, NEW hd, NEW hr,
         TurnsTo(e, q, out, said, hd, hr),
         out \in Seq(GenuineOf(e)), said \in Seq(GenuineOf(e)),
         NumbersIn(out) = {}, Single(out), NumbersIn(said) \subseteq NumbersIn(outgoing[e]),
         Single(outgoing[e]) => Single(said)
  PROVE  /\ outgoing'[e] \in Seq(GenuineOf(e)) /\ toRtr'[e] \in Seq(GenuineOf(e))
         /\ DataIsPosted' /\ Posted' \subseteq Posted
<1>1. /\ DOMAIN outgoing = Endpoints /\ DOMAIN toRtr = Endpoints /\ toRtr[e] \in Seq(GenuineOf(e))
      /\ Observer \in Endpoints
  BY SubscriptionsAssumption DEF SubsIInv, MessagesAreGenuine
<1>2. outgoing'[e] = out /\ (toRtr'[e] = toRtr[e] \/ toRtr'[e] = toRtr[e] \o said)
  BY <1>1 DEF TurnsTo
<1>3. /\ toRtr[e] \o said \in Seq(GenuineOf(e))
      /\ NumbersIn(toRtr[e] \o said) = NumbersIn(toRtr[e]) \cup NumbersIn(said)
      /\ Single(toRtr[e]) /\ Single(said) /\ NumbersIn(toRtr[e]) \cap NumbersIn(said) = {} => Single(toRtr[e] \o said)
  BY <1>1, ConcatNumbers
<1>4. DataIsPosted
  BY DEF SubsIInv, DataIsSingle
<1>5. CASE e # Observer
  <2>1. outgoing'[Observer] = outgoing[Observer] /\ toRtr'[Observer] = toRtr[Observer]
    BY <1>1, <1>5 DEF TurnsTo
  <2>2. QED
    BY <1>2, <1>3, <1>1, <1>4, <2>1 DEF DataIsPosted, Posted
<1>6. CASE e = Observer
  <2>1. /\ Single(outgoing[Observer]) /\ Single(toRtr[Observer])
        /\ NumbersIn(outgoing[Observer]) \cap NumbersIn(toRtr[Observer]) = {}
    BY <1>4 DEF DataIsPosted
  <2>2. /\ Single(toRtr'[Observer])
        /\ NumbersIn(toRtr'[Observer]) \subseteq NumbersIn(toRtr[Observer]) \cup NumbersIn(outgoing[Observer])
    BY <1>2, <1>3, <1>6, <2>1
  <2>3. outgoing'[Observer] = out
    BY <1>2, <1>6
  <2>4. QED
    BY <1>2, <1>3, <1>1, <2>2, <2>3 DEF DataIsPosted, Posted
<1>7. QED
  BY <1>5, <1>6

(* A turn of an endpoint keeps the invariant.                              *)
LEMMA TurnKeeps ==
  ASSUME SubsIInv, NEW e \in Endpoints, Turn(e)
  PROVE  SubsIInv'
<1>1. PICK refused : LET done == ProcessAll(e, Fetched(e).q, refused)
                     IN  TurnsTo(e, done.q, done.out, Fetched(e).out, done.handled, done.heard)
  BY DEF Turn, TurnsTo
<1> DEFINE done == ProcessAll(e, Fetched(e).q, refused)
           q == done.q
           out == done.out
           said == Fetched(e).out
           hd == done.handled
           hr == done.heard
<1>2. TurnsTo(e, q, out, said, hd, hr)
  BY <1>1
<1>3. up[e]
  BY DEF Turn
<1>4. /\ q \in QueuesOf(Genuine) /\ out \in Seq(GenuineOf(e))
      /\ said \in Seq(GenuineOf(e)) /\ hr \in GenuineReports
      /\ hd \in Seq(1 .. posts) /\ IsInjective(hd)
      /\ AllSingle(q) /\ Range(hd) \cap Queued(q) = {}
      /\ Queued(q) \cup Range(hd) \subseteq Queued(incoming[e]) \cup NumbersIn(toEp[e]) \cup Range(handled[e])
      /\ NumbersIn(out) = {} /\ Single(out)
      /\ NumbersIn(said) \subseteq NumbersIn(outgoing[e])
      /\ Single(outgoing[e]) => Single(said)
  BY <1>3, TurnFacts
<1> HIDE DEF q, out, said, hd, hr, done
<1>5. /\ ProcessesAreKnown /\ MessagesAreGenuine /\ KnowledgeIsGenuine /\ DataIsSingle
      /\ posts \in Nat /\ posts' = posts
  BY <1>2 DEF SubsIInv, ProcessesAreKnown, TurnsTo
<1>6. ProcessesAreKnown' /\ Onward
  BY <1>2, <1>5, NobodyChanges DEF TurnsTo
<1>7. /\ outgoing'[e] \in Seq(GenuineOf(e)) /\ toRtr'[e] \in Seq(GenuineOf(e))
      /\ DataIsPosted' /\ Posted' \subseteq Posted
  BY <1>2, <1>4, TurnPostsNothing
<1>8. /\ DOMAIN outgoing = Endpoints /\ DOMAIN toRtr = Endpoints /\ DOMAIN handled = Endpoints
      /\ toEp \in [Endpoints -> Seq(Genuine)] /\ incoming \in [Endpoints -> QueuesOf(Genuine)]
      /\ \A d \in Endpoints : outgoing[d] \in Seq(GenuineOf(d)) /\ toRtr[d] \in Seq(GenuineOf(d))
  BY <1>5 DEF MessagesAreGenuine, DataIsSingle
<1>9. /\ DOMAIN outgoing' = Endpoints /\ DOMAIN toRtr' = Endpoints /\ DOMAIN handled' = Endpoints
      /\ toEp' = [d \in Endpoints |-> toEp'[d]] /\ incoming' = [d \in Endpoints |-> incoming'[d]]
      /\ toEp'[e] = <<>> /\ incoming'[e] = q /\ handled'[e] = hd
  BY <1>2, <1>8 DEF TurnsTo
<1>10. \A d \in Endpoints \ {e} :
          /\ outgoing'[d] = outgoing[d] /\ toRtr'[d] = toRtr[d]
          /\ toEp'[d] = toEp[d] /\ incoming'[d] = incoming[d] /\ handled'[d] = handled[d]
  BY <1>2, <1>8 DEF TurnsTo
<1>11. MessagesAreGenuine'
  <2>1. <<>> \in Seq(Genuine)
    OBVIOUS
  <2>2. \A d \in Endpoints :
           /\ outgoing'[d] \in Seq(GenuineOf(d)) /\ toRtr'[d] \in Seq(GenuineOf(d))
           /\ toEp'[d] \in Seq(Genuine) /\ incoming'[d] \in QueuesOf(Genuine)
    BY <1>4, <1>7, <1>8, <1>9, <1>10, <2>1
  <2>3. QED
    BY <1>6, <1>9, <2>2, MessagesStay
<1>12. KnowledgeIsGenuine'
  <2>1. DOMAIN info' = Endpoints /\ info' = info
    BY <1>2, <1>5 DEF TurnsTo, KnowledgeIsGenuine
  <2>2. heard' \in GenuineReports
    BY <1>2, <1>4, <1>5 DEF TurnsTo, KnowledgeIsGenuine
  <2>3. QED
    BY <1>5, <1>6, <2>1, <2>2, KnowledgeStays
<1>13. ASSUME NEW d \in Endpoints PROVE DataIsAt(d)'
  <2>1. DataIsAt(d)
    BY <1>5 DEF DataIsSingle
  <2>2. CASE d # e
    <3>1. toEp'[d] = toEp[d] /\ incoming'[d] = incoming[d] /\ handled'[d] = handled[d]
      BY <1>10, <2>2
    <3>2. QED
      BY <1>5, <1>7, <2>1, <3>1, DataStaysAt
  <2>3. CASE d = e
    <3>1. Posted \cap (NumbersIn(toEp[e]) \cup Queued(incoming[e]) \cup Range(handled[e])) = {}
      BY <2>1, <2>3 DEF DataIsAt
    <3>2. Posted' \cap (Queued(q) \cup Range(hd)) = {}
      BY <1>4, <1>7, <3>1
    <3>3. Single(<<>>) /\ NumbersIn(<<>>) = {}
      BY NoNumbers
    <3>4. /\ Single(toEp'[e]) /\ AllSingle(incoming'[e])
          /\ handled'[e] \in Seq(1 .. posts') /\ IsInjective(handled'[e])
          /\ NumbersIn(toEp'[e]) \cap Queued(incoming'[e]) = {}
          /\ Range(handled'[e]) \cap (NumbersIn(toEp'[e]) \cup Queued(incoming'[e])) = {}
          /\ Posted' \cap (NumbersIn(toEp'[e]) \cup Queued(incoming'[e]) \cup Range(handled'[e])) = {}
      BY <1>4, <1>5, <1>9, <3>2, <3>3
    <3>5. QED
      BY <2>3, <3>4 DEF DataIsAt
  <2>4. QED
    BY <2>2, <2>3
<1>14. DataIsSingle'
  BY <1>7, <1>9, <1>13 DEF DataIsSingle
<1>15. QED
  BY <1>6, <1>11, <1>12, <1>14 DEF SubsIInv

-----------------------------------------------------------------------------
(* The steps of the router.                                                *)

(* What is sent to an endpoint is posted no more, and is new to it.        *)
LEMMA RouteDeliversAt ==
  ASSUME SubsIInv, NEW e \in Endpoints, Route(e), NEW d \in Endpoints
  PROVE  /\ toEp'[d] \in Seq(Genuine) /\ DataIsAt(d)'
<1> DEFINE sent == Sent(d, toRtr[e])
<1>1. /\ toRtr[e] \in Seq(GenuineOf(e)) /\ toEp[d] \in Seq(Genuine) /\ KnowledgeIsGenuine
      /\ DOMAIN toRtr = Endpoints /\ DataIsAt(d) /\ DataIsPosted /\ posts \in Nat
      /\ Observer \in Endpoints
  BY SubscriptionsAssumption
     DEF SubsIInv, MessagesAreGenuine, DataIsSingle, ProcessesAreKnown
<1>2. toRtr[e] \in Seq(Genuine)
  <2>1. GenuineOf(e) \subseteq Genuine
    BY DEF GenuineOf
  <2> DEFINE A == GenuineOf(e)
             B == Genuine
  <2>2. A \subseteq B /\ toRtr[e] \in Seq(A)
    BY <1>1, <2>1
  <2> HIDE DEF A, B
  <2>3. toRtr[e] \in Seq(B)
    BY <2>2, SeqMonotonic
  <2>4. QED
    BY <2>3 DEF B
<1>3. /\ sent \in Seq(Genuine) /\ NumbersIn(sent) \subseteq NumbersIn(toRtr[e])
      /\ Single(toRtr[e]) => Single(sent)
  BY <1>1, <1>2, SentFacts
<1>4. /\ toEp'[d] = IF up[d] THEN toEp[d] \o sent ELSE toEp[d]
      /\ toRtr' = [toRtr EXCEPT ![e] = <<>>] /\ outgoing' = outgoing /\ incoming' = incoming
      /\ handled' = handled /\ posts' = posts
  BY DEF Route
<1> HIDE DEF sent
<1>5. /\ toEp[d] \o sent \in Seq(Genuine)
      /\ NumbersIn(toEp[d] \o sent) = NumbersIn(toEp[d]) \cup NumbersIn(sent)
      /\ Single(toEp[d]) /\ Single(sent) /\ NumbersIn(toEp[d]) \cap NumbersIn(sent) = {} => Single(toEp[d] \o sent)
  BY <1>1, <1>3, ConcatNumbers
<1>6. Posted' \subseteq Posted
  BY <1>1, <1>4, NoNumbers DEF Posted
<1>7. ASSUME e # Observer \/ ~up[d] PROVE DataIsAt(d)'
  <2>1. CASE ~up[d]
    <3>1. toEp'[d] = toEp[d] /\ incoming'[d] = incoming[d] /\ handled'[d] = handled[d]
      BY <1>4, <2>1
    <3>2. QED
      BY <1>1, <1>4, <1>6, <3>1, DataStaysAt
  <2>2. CASE up[d] /\ e # Observer
    <3>1. NumbersIn(toRtr[e]) = {} /\ Single(toRtr[e])
      BY <1>1, <2>2, OthersSendNoData
    <3>2. /\ NumbersIn(toEp'[d]) = NumbersIn(toEp[d]) /\ (Single(toEp[d]) => Single(toEp'[d]))
          /\ toEp'[d] \in Seq(Genuine)
      BY <1>3, <1>4, <1>5, <2>2, <3>1
    <3>3. /\ Single(toEp[d]) /\ AllSingle(incoming[d])
          /\ handled[d] \in Seq(1 .. posts) /\ IsInjective(handled[d])
          /\ NumbersIn(toEp[d]) \cap Queued(incoming[d]) = {}
          /\ Range(handled[d]) \cap (NumbersIn(toEp[d]) \cup Queued(incoming[d])) = {}
          /\ Posted \cap (NumbersIn(toEp[d]) \cup Queued(incoming[d]) \cup Range(handled[d])) = {}
      BY <1>1 DEF DataIsAt
    <3>4. /\ Single(toEp'[d]) /\ AllSingle(incoming'[d])
          /\ handled'[d] \in Seq(1 .. posts') /\ IsInjective(handled'[d])
          /\ NumbersIn(toEp'[d]) \cap Queued(incoming'[d]) = {}
          /\ Range(handled'[d]) \cap (NumbersIn(toEp'[d]) \cup Queued(incoming'[d])) = {}
          /\ Posted' \cap (NumbersIn(toEp'[d]) \cup Queued(incoming'[d]) \cup Range(handled'[d])) = {}
      BY <1>4, <1>6, <3>2, <3>3
    <3>5. QED
      BY <3>2, <3>4 DEF DataIsAt
  <2>3. QED
    BY <1>7, <2>1, <2>2
<1>8. ASSUME e = Observer, up[d] PROVE DataIsAt(d)'
  <2>1. /\ Single(toEp[d]) /\ AllSingle(incoming[d])
        /\ handled[d] \in Seq(1 .. posts) /\ IsInjective(handled[d])
        /\ NumbersIn(toEp[d]) \cap Queued(incoming[d]) = {}
        /\ Range(handled[d]) \cap (NumbersIn(toEp[d]) \cup Queued(incoming[d])) = {}
        /\ Posted \cap (NumbersIn(toEp[d]) \cup Queued(incoming[d]) \cup Range(handled[d])) = {}
    BY <1>1 DEF DataIsAt
  <2>2. /\ Single(toRtr[Observer]) /\ NumbersIn(outgoing[Observer]) \cap NumbersIn(toRtr[Observer]) = {}
        /\ Posted = NumbersIn(outgoing[Observer]) \cup NumbersIn(toRtr[Observer])
    BY <1>1 DEF DataIsPosted, Posted
  <2>3. Posted' = NumbersIn(outgoing[Observer])
    BY <1>1, <1>4, <1>8, NoNumbers DEF Posted
  <2>4. NumbersIn(sent) \subseteq NumbersIn(toRtr[Observer]) /\ Single(sent)
    BY <1>3, <1>8, <2>2
  <2>5. Single(toEp'[d]) /\ NumbersIn(toEp'[d]) = NumbersIn(toEp[d]) \cup NumbersIn(sent) /\ toEp'[d] \in Seq(Genuine)
    BY <1>4, <1>5, <1>8, <2>1, <2>2, <2>4
  <2>6. NumbersIn(toEp'[d]) \cap Queued(incoming'[d]) = {}
    BY <1>4, <2>1, <2>2, <2>4, <2>5
  <2>7. Range(handled'[d]) \cap (NumbersIn(toEp'[d]) \cup Queued(incoming'[d])) = {}
    BY <1>4, <2>1, <2>2, <2>4, <2>5
  <2>8. Posted' \cap (NumbersIn(toEp'[d]) \cup Queued(incoming'[d]) \cup Range(handled'[d])) = {}
    BY <1>4, <2>1, <2>2, <2>3, <2>4, <2>5
  <2>9. AllSingle(incoming'[d]) /\ handled'[d] \in Seq(1 .. posts') /\ IsInjective(handled'[d])
    BY <1>4, <2>1
  <2>10. QED
    BY <2>5, <2>6, <2>7, <2>8, <2>9 DEF DataIsAt
<1>9. toEp'[d] \in Seq(Genuine)
  BY <1>1, <1>4, <1>5
<1>10. QED
  BY <1>7, <1>8, <1>9

(* The router passes on what has come from one endpoint.                   *)
LEMMA RouteKeeps ==
  ASSUME SubsIInv, NEW e \in Endpoints, Route(e)
  PROVE  SubsIInv'
<1>1. /\ ProcessesAreKnown /\ MessagesAreGenuine /\ KnowledgeIsGenuine /\ DataIsSingle
      /\ Observer \in Endpoints
  BY SubscriptionsAssumption DEF SubsIInv
<1>2. /\ info' = [info EXCEPT ![e] = RoutedInfo(@, toRtr[e])]
      /\ toEp' = [k \in Endpoints |-> IF up[k] THEN toEp[k] \o Sent(k, toRtr[e]) ELSE toEp[k]]
      /\ toRtr' = [toRtr EXCEPT ![e] = <<>>]
      /\ UNCHANGED <<ran, up, objects, incoming, outgoing, heard, handled, posts, budget>>
  BY DEF Route
<1>3. ProcessesAreKnown' /\ Onward
  BY <1>1, <1>2, NobodyChanges
<1>4. /\ DOMAIN outgoing = Endpoints /\ DOMAIN toRtr = Endpoints /\ DOMAIN handled = Endpoints
      /\ incoming \in [Endpoints -> QueuesOf(Genuine)]
      /\ \A d \in Endpoints : outgoing[d] \in Seq(GenuineOf(d)) /\ toRtr[d] \in Seq(GenuineOf(d))
  BY <1>1 DEF MessagesAreGenuine, DataIsSingle
<1>5. MessagesAreGenuine'
  <2>1. ASSUME NEW d \in Endpoints
        PROVE  outgoing'[d] \in Seq(GenuineOf(d)) /\ toRtr'[d] \in Seq(GenuineOf(d))
    <3>1. <<>> \in Seq(GenuineOf(d))
      OBVIOUS
    <3>2. outgoing'[d] = outgoing[d] /\ (toRtr'[d] = toRtr[d] \/ toRtr'[d] = <<>>)
      BY <1>2, <1>4
    <3>3. QED
      BY <1>4, <3>1, <3>2
  <2>2. \A d \in Endpoints : toEp'[d] \in Seq(Genuine) /\ incoming'[d] \in QueuesOf(Genuine)
    BY <1>2, <1>4, RouteDeliversAt
  <2>3. /\ DOMAIN outgoing' = Endpoints /\ DOMAIN toRtr' = Endpoints
        /\ toEp' = [d \in Endpoints |-> toEp'[d]] /\ incoming' = [d \in Endpoints |-> incoming'[d]]
    BY <1>2, <1>4
  <2>4. QED
    BY <1>3, <2>1, <2>2, <2>3, MessagesStay
<1>6. KnowledgeIsGenuine'
  <2>1. DOMAIN info = Endpoints /\ info[e] \in GenuineInfos(e) /\ heard \in GenuineReports
    BY <1>1 DEF KnowledgeIsGenuine
  <2>2. RoutedInfo(info[e], toRtr[e]) \in GenuineInfos(e)
    BY <1>4, <2>1, RoutedInfoFacts
  <2>3. \A d \in Endpoints : info'[d] = info[d] \/ info'[d] \in GenuineInfos(d)
    BY <1>2, <2>1, <2>2
  <2>4. DOMAIN info' = Endpoints /\ heard' \in GenuineReports
    BY <1>2, <2>1
  <2>5. QED
    BY <1>1, <1>3, <2>3, <2>4, KnowledgeStays
<1>7. DataIsPosted'
  <2>1. DataIsPosted
    BY <1>1 DEF DataIsSingle
  <2>2. outgoing' = outgoing /\ (toRtr'[Observer] = toRtr[Observer] \/ toRtr'[Observer] = <<>>)
    BY <1>1, <1>2, <1>4
  <2>3. QED
    BY <2>1, <2>2, NoNumbers DEF DataIsPosted
<1>8. \A d \in Endpoints : DataIsAt(d)'
  BY RouteDeliversAt
<1>9. DataIsSingle'
  BY <1>2, <1>4, <1>7, <1>8 DEF DataIsSingle
<1>10. QED
  BY <1>3, <1>5, <1>6, <1>9 DEF SubsIInv

(* Nothing of what is on the way and at the endpoints changes.             *)
LEMMA NothingMoves ==
  ASSUME SubsIInv, UNCHANGED <<ran, up, objects, incoming, outgoing, toRtr, toEp, heard, handled, posts, budget>>,
         DOMAIN info' = Endpoints, \A d \in Endpoints : info'[d] \in {info[d], None}
  PROVE  SubsIInv'
<1>1. ProcessesAreKnown /\ MessagesAreGenuine /\ KnowledgeIsGenuine /\ DataIsSingle
  BY DEF SubsIInv
<1>2. ProcessesAreKnown' /\ Onward
  BY <1>1, NobodyChanges
<1>3. MessagesAreGenuine'
  <2>1. /\ DOMAIN outgoing = Endpoints /\ DOMAIN toRtr = Endpoints
        /\ toEp \in [Endpoints -> Seq(Genuine)] /\ incoming \in [Endpoints -> QueuesOf(Genuine)]
        /\ \A d \in Endpoints : outgoing[d] \in Seq(GenuineOf(d)) /\ toRtr[d] \in Seq(GenuineOf(d))
    BY <1>1 DEF MessagesAreGenuine
  <2>2. \A d \in Endpoints :
           /\ outgoing'[d] \in Seq(GenuineOf(d)) /\ toRtr'[d] \in Seq(GenuineOf(d))
           /\ toEp'[d] \in Seq(Genuine) /\ incoming'[d] \in QueuesOf(Genuine)
    BY <2>1
  <2>3. /\ DOMAIN outgoing' = Endpoints /\ DOMAIN toRtr' = Endpoints
        /\ toEp' = [d \in Endpoints |-> toEp'[d]] /\ incoming' = [d \in Endpoints |-> incoming'[d]]
    BY <2>1
  <2>4. QED
    BY <1>2, <2>2, <2>3, MessagesStay
<1>4. KnowledgeIsGenuine'
  <2>1. heard' \in GenuineReports
    BY <1>1 DEF KnowledgeIsGenuine
  <2>2. \A d \in Endpoints : info'[d] = info[d] \/ info'[d] \in GenuineInfos(d)
    BY DEF GenuineInfos
  <2>3. QED
    BY <1>1, <1>2, <2>1, <2>2, KnowledgeStays
<1>5. DataIsSingle'
  BY <1>1 DEF DataIsSingle, DataIsPosted, DataIsAt, Posted
<1>6. QED
  BY <1>2, <1>3, <1>4, <1>5 DEF SubsIInv

(* What is known of an endpoint is forgotten.                              *)
LEMMA OutdatedKeeps ==
  ASSUME SubsIInv, NEW e \in Endpoints, Outdated(e)
  PROVE  SubsIInv'
<1>1. DOMAIN info = Endpoints
  BY DEF SubsIInv, KnowledgeIsGenuine
<1>2. DOMAIN info' = Endpoints /\ \A d \in Endpoints : info'[d] \in {info[d], None}
  BY <1>1 DEF Outdated
<1>3. QED
  BY <1>2, NothingMoves DEF Outdated

-----------------------------------------------------------------------------
(* What is posted.                                                         *)

(* The numbers of genuine data are those of what was posted.               *)
LEMMA NumbersWerePosted ==
  ASSUME posts \in Nat
  PROVE  /\ \A s \in Seq(Genuine) : NumbersIn(s) \subseteq 1 .. posts
         /\ \A e : \A s \in Seq(GenuineOf(e)) : NumbersIn(s) \subseteq 1 .. posts
         /\ \A q \in QueuesOf(Genuine) : Queued(q) \subseteq 1 .. posts
<1>1. \A m \in Genuine : m.no = 0 \/ m.no \in 1 .. posts
  BY DEF Genuine
<1>2. ASSUME NEW M \in SUBSET Genuine, NEW s \in Seq(M) PROVE NumbersIn(s) \subseteq 1 .. posts
  <2>1. \A i \in DOMAIN s : s[i] \in M
    OBVIOUS
  <2>2. \A i \in DOMAIN s : s[i].no = 0 \/ s[i].no \in 1 .. posts
    BY <1>1, <2>1
  <2>3. QED
    BY <2>2 DEF NumbersIn
<1>3. ASSUME NEW e, NEW s \in Seq(GenuineOf(e)) PROVE NumbersIn(s) \subseteq 1 .. posts
  <2> DEFINE A == GenuineOf(e)
  <2>1. A \in SUBSET Genuine /\ s \in Seq(A)
    BY DEF GenuineOf
  <2> HIDE DEF A
  <2>2. QED
    BY <1>2, <2>1
<1>4. ASSUME NEW q \in QueuesOf(Genuine) PROVE Queued(q) \subseteq 1 .. posts
  <2>1. ASSUME NEW t \in DOMAIN q PROVE NumbersIn(q[t].queue) \subseteq 1 .. posts
    <3> DEFINE A == Genuine
    <3>1. q[t] \in [count : Nat, queue : Seq(A)]
      BY QueueFacts
    <3>2. A \in SUBSET Genuine
      OBVIOUS
    <3> HIDE DEF A
    <3>3. q[t].queue \in Seq(A)
      BY <3>1
    <3>4. QED
      BY <1>2, <3>2, <3>3
  <2>2. QED
    BY <2>1 DEF Queued
<1>5. Genuine \in SUBSET Genuine
  OBVIOUS
<1>6. \A s \in Seq(Genuine) : NumbersIn(s) \subseteq 1 .. posts
  BY <1>2, <1>5
<1>7. QED
  BY <1>3, <1>4, <1>6

(* Everything but what one endpoint has to send stays as it is.            *)
Posts(e, m) ==
    /\ outgoing' = [outgoing EXCEPT ![e] = @ \o <<m>>]
    /\ UNCHANGED <<ran, up, objects, incoming, toRtr, toEp, info, heard, handled, budget>>

(* A process posts one message more: data has the next number.             *)
LEMMA PostsKeep ==
  ASSUME SubsIInv, NEW e \in Endpoints, NEW m, Posts(e, m), ProcessesAreKnown', Onward,
         \/ m \in GenuineOf(e) /\ m.no = 0 /\ posts' = posts
         \/ m \in GenuineOf(e)' /\ m.no = posts' /\ posts' = posts + 1 /\ e = Observer
  PROVE  SubsIInv'
<1>1. /\ ProcessesAreKnown /\ MessagesAreGenuine /\ KnowledgeIsGenuine /\ DataIsSingle
      /\ posts \in Nat /\ posts' \in Nat /\ Observer \in Endpoints
  BY SubscriptionsAssumption DEF SubsIInv, ProcessesAreKnown
<1>2. /\ DOMAIN outgoing = Endpoints /\ DOMAIN toRtr = Endpoints /\ DOMAIN handled = Endpoints
      /\ toEp \in [Endpoints -> Seq(Genuine)] /\ incoming \in [Endpoints -> QueuesOf(Genuine)]
      /\ \A d \in Endpoints : outgoing[d] \in Seq(GenuineOf(d)) /\ toRtr[d] \in Seq(GenuineOf(d))
  BY <1>1 DEF MessagesAreGenuine, DataIsSingle
<1>3. /\ outgoing'[e] = outgoing[e] \o <<m>> /\ DOMAIN outgoing' = Endpoints
      /\ \A d \in Endpoints \ {e} : outgoing'[d] = outgoing[d]
  BY <1>2 DEF Posts
<1>4. UNCHANGED <<incoming, toRtr, toEp, info, heard, handled>>
  BY DEF Posts
<1>5. outgoing'[e] \in Seq(GenuineOf(e)')
  <2> DEFINE A == GenuineOf(e)
             B == GenuineOf(e)'
  <2>1. A \subseteq B /\ outgoing[e] \in Seq(A) /\ m \in B
    BY <1>2, GenuineGrows
  <2> HIDE DEF A, B
  <2>2. outgoing[e] \in Seq(B) /\ <<m>> \in Seq(B)
    BY <2>1, SeqMonotonic, OneNumber
  <2>3. outgoing[e] \o <<m>> \in Seq(B)
    BY <2>2, ConcatNumbers
  <2>4. QED
    BY <1>3, <2>3 DEF B
<1>6. MessagesAreGenuine'
  <2>1. \A d \in Endpoints :
           /\ outgoing'[d] \in Seq(GenuineOf(d)) \/ outgoing'[d] \in Seq(GenuineOf(d)')
           /\ toRtr'[d] \in Seq(GenuineOf(d))
           /\ toEp'[d] \in Seq(Genuine) /\ incoming'[d] \in QueuesOf(Genuine)
    BY <1>2, <1>3, <1>4, <1>5
  <2>2. /\ DOMAIN toRtr' = Endpoints
        /\ toEp' = [d \in Endpoints |-> toEp'[d]] /\ incoming' = [d \in Endpoints |-> incoming'[d]]
    BY <1>2, <1>4
  <2>3. QED
    BY <1>3, <2>1, <2>2, MessagesStay
<1>7. KnowledgeIsGenuine'
  BY <1>1, <1>4, KnowledgeStays DEF KnowledgeIsGenuine
<1>8. /\ NumbersIn(outgoing'[e]) = NumbersIn(outgoing[e]) \cup ({m.no} \ {0})
      /\ Single(outgoing[e]) /\ m.no \notin NumbersIn(outgoing[e]) => Single(outgoing'[e])
  <2> DEFINE B == GenuineOf(e) \cup {m}
  <2>1. GenuineOf(e) \subseteq B /\ m \in B
    OBVIOUS
  <2> DEFINE A == GenuineOf(e)
  <2>2. outgoing[e] \in Seq(A) /\ A \subseteq B
    BY <1>2, <2>1
  <2> HIDE DEF A, B
  <2>3. outgoing[e] \in Seq(B) /\ <<m>> \in Seq(B)
    BY <2>1, <2>2, SeqMonotonic, OneNumber
  <2>4. NumbersIn(<<m>>) = {m.no} \ {0} /\ Single(<<m>>)
    BY <2>1, OneNumber
  <2>5. /\ NumbersIn(outgoing[e] \o <<m>>) = NumbersIn(outgoing[e]) \cup NumbersIn(<<m>>)
        /\ Single(outgoing[e]) /\ Single(<<m>>) /\ NumbersIn(outgoing[e]) \cap NumbersIn(<<m>>) = {}
              => Single(outgoing[e] \o <<m>>)
    <3> DEFINE s == outgoing[e]
               t == <<m>>
    <3>1. s \in Seq(B) /\ t \in Seq(B)
      BY <2>3
    <3> HIDE DEF s, t
    <3>2. /\ NumbersIn(s \o t) = NumbersIn(s) \cup NumbersIn(t)
          /\ Single(s) /\ Single(t) /\ NumbersIn(s) \cap NumbersIn(t) = {} => Single(s \o t)
      BY <3>1, ConcatNumbers
    <3>3. QED
      BY <3>2 DEF s, t
  <2>6. QED
    BY <1>3, <2>4, <2>5
<1> DEFINE new == {m.no} \ {0}
<1>9. Posted' \subseteq Posted \cup new
  <2>1. CASE e = Observer
    BY <1>4, <1>8, <2>1 DEF Posted
  <2>2. CASE e # Observer
    BY <1>1, <1>3, <1>4, <2>2 DEF Posted
  <2>3. QED
    BY <2>1, <2>2
<1>10. /\ \A s \in Seq(Genuine) : NumbersIn(s) \cap new = {}
       /\ \A d : \A s \in Seq(GenuineOf(d)) : NumbersIn(s) \cap new = {}
       /\ \A q \in QueuesOf(Genuine) : Queued(q) \cap new = {}
       /\ (1 .. posts) \cap new = {}
  <2>1. m.no = 0 \/ m.no = posts + 1
    OBVIOUS
  <2>2. (1 .. posts) \cap new = {}
    BY <1>1, <2>1
  <2> HIDE DEF new
  <2>3. QED
    BY <1>1, <2>2, NumbersWerePosted
<1>11. DataIsPosted'
  <2>1. DataIsPosted
    BY <1>1 DEF DataIsSingle
  <2>2. CASE e # Observer
    BY <1>1, <1>3, <1>4, <2>1, <2>2 DEF DataIsPosted
  <2>3. CASE e = Observer
    <3>1. NumbersIn(outgoing[Observer]) \cap new = {} /\ NumbersIn(toRtr[Observer]) \cap new = {}
      BY <1>1, <1>2, <1>10
    <3>2. m.no \notin NumbersIn(outgoing[Observer])
      BY <3>1 DEF NumbersIn
    <3>3. Single(outgoing'[Observer]) /\ NumbersIn(outgoing'[Observer]) = NumbersIn(outgoing[Observer]) \cup new
      BY <1>8, <2>1, <2>3, <3>2 DEF DataIsPosted
    <3> HIDE DEF new
    <3>4. QED
      BY <1>4, <2>1, <3>1, <3>3 DEF DataIsPosted
  <2>4. QED
    BY <2>2, <2>3
<1>12. ASSUME NEW d \in Endpoints PROVE DataIsAt(d)'
  <2>1. /\ Single(toEp[d]) /\ AllSingle(incoming[d])
        /\ handled[d] \in Seq(1 .. posts) /\ IsInjective(handled[d])
        /\ NumbersIn(toEp[d]) \cap Queued(incoming[d]) = {}
        /\ Range(handled[d]) \cap (NumbersIn(toEp[d]) \cup Queued(incoming[d])) = {}
        /\ Posted \cap (NumbersIn(toEp[d]) \cup Queued(incoming[d]) \cup Range(handled[d])) = {}
    BY <1>1 DEF DataIsSingle, DataIsAt
  <2>2. Range(handled[d]) \subseteq 1 .. posts
    <3>1. handled[d] \in Seq(1 .. posts)
      BY <2>1
    <3> DEFINE N == 1 .. posts
    <3> HIDE DEF N
    <3>2. handled[d] \in Seq(N) => Range(handled[d]) \subseteq N
      BY DEF Range
    <3>3. QED
      BY <3>1, <3>2 DEF N
  <2>3. handled[d] \in Seq(1 .. posts')
    <3> DEFINE A == 1 .. posts
               B == 1 .. posts'
    <3>1. A \subseteq B /\ handled[d] \in Seq(A)
      BY <1>1, <2>1
    <3> HIDE DEF A, B
    <3>2. handled[d] \in Seq(B)
      BY <3>1, SeqMonotonic
    <3>3. QED
      BY <3>2 DEF B
  <2>4. NumbersIn(toEp[d]) \cap new = {} /\ Queued(incoming[d]) \cap new = {} /\ Range(handled[d]) \cap new = {}
    <3>1. toEp[d] \in Seq(Genuine) /\ incoming[d] \in QueuesOf(Genuine)
      BY <1>2
    <3> HIDE DEF new
    <3>2. QED
      BY <1>10, <2>2, <3>1
  <2> HIDE DEF new
  <2>5. Posted' \cap (NumbersIn(toEp[d]) \cup Queued(incoming[d]) \cup Range(handled[d])) = {}
    BY <1>9, <2>1, <2>4
  <2>6. QED
    BY <1>4, <2>1, <2>3, <2>5 DEF DataIsAt
<1>13. DataIsSingle'
  BY <1>2, <1>4, <1>11, <1>12 DEF DataIsSingle
<1>14. QED
  BY <1>6, <1>7, <1>13 DEF SubsIInv

(* The observer posts data.                                                *)
LEMMA PostDataKeeps ==
  ASSUME SubsIInv, NEW type \in Types, NEW pri \in Priorities, PostData(type, pri)
  PROVE  SubsIInv'
<1> DEFINE m == [Message(type, "none", Observer, All) EXCEPT !.pri = pri, !.no = posts + 1]
<1>1. /\ ProcessesAreKnown /\ posts \in Nat /\ Observer \in Endpoints /\ up[Observer] /\ posts' = posts + 1
      /\ type \notin MetaTypes /\ type \in AllTypes /\ pri \in Nat
  BY SubscriptionsAssumption DEF SubsIInv, ProcessesAreKnown, PostData, AllTypes
<1>2. Posts(Observer, m)
  BY DEF Posts, PostData, Post
<1>3. /\ m.type = type /\ m.from = Observer /\ m.inst = Inst(Observer) /\ m.no = posts + 1
      /\ m \in [type : {type}, about : {"none"}, from : {Observer}, inst : {Inst(Observer)},
                to : {All}, pri : {pri}, no : {posts + 1}]
  BY DEF Message
<1> HIDE DEF m
<1>4. Inst(Observer) \in Nat /\ Inst(Observer) \in DOMAIN ran[Observer]
  BY <1>1, RunningFacts
<1>5. m \in Messages
  <2>1. posts + 1 \in Nat
    BY <1>1
  <2>2. QED
    BY <1>1, <1>3, <1>4, <2>1 DEF Messages
<1>6. UNCHANGED <<ran, up, objects, budget>> /\ m.no = posts'
  BY <1>1, <1>2, <1>3 DEF Posts
<1>7. Onward
  BY <1>1, <1>6 DEF Onward, StillHandles, Inst, Live, Range
<1>8. ProcessesAreKnown'
  <2>1. ASSUME NEW e \in Endpoints
        PROVE  (/\ Inst(e) <= budget.starts[e]
                /\ up[e] => ran[e] # <<>> /\ Live(e) \subseteq Handles(Program(e)))'
    <3>1. Inst(e)' = Inst(e) /\ Live(e)' = Live(e) /\ Program(e)' = Program(e)
      BY <1>6 DEF Inst, Live, Program
    <3>2. Inst(e) <= budget.starts[e] /\ (up[e] => ran[e] # <<>> /\ Live(e) \subseteq Handles(Program(e)))
      BY <1>1 DEF ProcessesAreKnown
    <3>3. Handles(Program(e)') = Handles(Program(e))'
      BY DEF Handles
    <3> HIDE DEF Inst, Live, Program
    <3>4. QED
      BY <1>6, <3>1, <3>2, <3>3
  <2>2. posts' \in Nat
    BY <1>1
  <2>3. QED
    BY <1>1, <1>6, <2>1, <2>2 DEF ProcessesAreKnown
<1>9. m \in GenuineOf(Observer)'
  <2>1. m.inst \in DOMAIN ran'[m.from]
    BY <1>3, <1>4, <1>6
  <2>2. m.type \in Types /\ m.type \notin MetaTypes /\ m.no \in 1 .. posts' /\ m.from = Observer
    BY <1>1, <1>3
  <2>3. m.type \notin {"subscribTo", "unsubFrom", "notSubTo"}
    BY <2>2 DEF MetaTypes
  <2>4. m \in Genuine'
    BY <1>5, <2>1, <2>2, <2>3 DEF Genuine, Messages
  <2>5. QED
    BY <2>2, <2>4 DEF GenuineOf
<1>10. QED
  BY <1>1, <1>2, <1>6, <1>7, <1>8, <1>9, PostsKeep

(* An endpoint posts a message that is no data.                            *)
LEMMA PlainPostKeeps ==
  ASSUME SubsIInv, NEW e \in Endpoints, up[e], NEW type \in MetaTypes, NEW about \in Types \cup {"none"},
         NEW to \in Endpoints \cup {All}, type \notin {"subscribTo", "unsubFrom", "notSubTo"},
         Post(e, <<Message(type, about, e, to)>>),
         UNCHANGED <<ran, up, objects, incoming, toRtr, toEp, info, heard, handled, posts, budget>>
  PROVE  SubsIInv'
<1>1. ProcessesAreKnown
  BY DEF SubsIInv
<1>2. ProcessesAreKnown' /\ Onward
  BY <1>1, NobodyChanges
<1> DEFINE m == Message(type, about, e, to)
<1>3. m \in GenuineOf(e) /\ m.no = 0
  BY <1>1, OwnMessage
<1>4. Posts(e, m) /\ posts' = posts
  BY DEF Posts, Post
<1> HIDE DEF m
<1>5. QED
  BY <1>2, <1>3, <1>4, PostsKeep

(* The observer asks.                                                      *)
LEMMA AskKeeps ==
  ASSUME SubsIInv, Ask
  PROVE  SubsIInv'
<1>1. up[Observer] /\ Observer \in Endpoints
  BY SubscriptionsAssumption DEF Ask
<1>2. UNCHANGED <<ran, up, objects, incoming, toRtr, toEp, info, heard, handled, posts, budget>>
  BY DEF Ask
<1>3. "qrySubscrp" \in MetaTypes /\ "qrySubscrb" \in MetaTypes
  BY DEF MetaTypes
<1>4. CASE \E e \in Endpoints \ {Observer} : Post(Observer, <<Message("qrySubscrp", "none", Observer, e)>>)
  BY <1>1, <1>2, <1>3, <1>4, PlainPostKeeps
<1>5. CASE \E type \in Types : Post(Observer, <<Message("qrySubscrb", type, Observer, All)>>)
  BY <1>1, <1>2, <1>3, <1>5, PlainPostKeeps
<1>6. QED
  BY <1>4, <1>5 DEF Ask

(* An actor clears its list of blocked types.                              *)
LEMMA ClearBlockListKeeps ==
  ASSUME SubsIInv, NEW e \in Endpoints, ClearBlockList(e)
  PROVE  SubsIInv'
<1>1. up[e] /\ Post(e, <<Message("clrBlkList", "none", e, All)>>) /\ "clrBlkList" \in MetaTypes
  BY DEF ClearBlockList, MetaTypes
<1>2. UNCHANGED <<ran, up, objects, incoming, toRtr, toEp, info, heard, handled, posts, budget>>
  BY DEF ClearBlockList
<1>3. QED
  BY <1>1, <1>2, PlainPostKeeps

-----------------------------------------------------------------------------
(* The lives of processes.                                                 *)

(* A process starts or ends: nothing is at its endpoint, and what it leaves *)
(* or brings with it is genuine.                                           *)
Lives(e, q, out, sent) ==
    /\ incoming' = [incoming EXCEPT ![e] = q] /\ outgoing' = [outgoing EXCEPT ![e] = out]
    /\ toRtr' = [toRtr EXCEPT ![e] = sent] /\ toEp' = [toEp EXCEPT ![e] = <<>>]
    /\ handled' = [handled EXCEPT ![e] = <<>>]
    /\ UNCHANGED <<info, heard, posts, budget>>

(* Starts and ends keep the invariant.                                     *)
LEMMA LivesKeep ==
  ASSUME SubsIInv, NEW e \in Endpoints, NEW q, NEW out, NEW sent, Lives(e, q, out, sent),
         ProcessesAreKnown', Onward,
         q \in QueuesOf(Genuine), AllSingle(q), Queued(q) = {},
         out \in Seq(GenuineOf(e)'), sent \in Seq(GenuineOf(e)'),
         e = Observer => /\ NumbersIn(out) \subseteq NumbersIn(outgoing[e]) /\ sent = <<>>
                         /\ Single(outgoing[e]) => Single(out)
  PROVE  SubsIInv'
<1>1. /\ ProcessesAreKnown /\ MessagesAreGenuine /\ KnowledgeIsGenuine /\ DataIsSingle
      /\ posts \in Nat /\ posts' = posts /\ Observer \in Endpoints
  BY SubscriptionsAssumption DEF SubsIInv, ProcessesAreKnown, Lives
<1>2. /\ DOMAIN outgoing = Endpoints /\ DOMAIN toRtr = Endpoints /\ DOMAIN handled = Endpoints
      /\ toEp \in [Endpoints -> Seq(Genuine)] /\ incoming \in [Endpoints -> QueuesOf(Genuine)]
      /\ \A d \in Endpoints : outgoing[d] \in Seq(GenuineOf(d)) /\ toRtr[d] \in Seq(GenuineOf(d))
  BY <1>1 DEF MessagesAreGenuine, DataIsSingle
<1>3. /\ DOMAIN outgoing' = Endpoints /\ DOMAIN toRtr' = Endpoints /\ DOMAIN handled' = Endpoints
      /\ toEp' = [d \in Endpoints |-> toEp'[d]] /\ incoming' = [d \in Endpoints |-> incoming'[d]]
      /\ toEp'[e] = <<>> /\ incoming'[e] = q /\ handled'[e] = <<>>
      /\ outgoing'[e] = out /\ toRtr'[e] = sent
  BY <1>2 DEF Lives
<1>4. \A d \in Endpoints \ {e} :
         /\ outgoing'[d] = outgoing[d] /\ toRtr'[d] = toRtr[d]
         /\ toEp'[d] = toEp[d] /\ incoming'[d] = incoming[d] /\ handled'[d] = handled[d]
  BY <1>2 DEF Lives
<1>5. MessagesAreGenuine'
  <2>1. <<>> \in Seq(Genuine)
    OBVIOUS
  <2>2. \A d \in Endpoints :
           /\ outgoing'[d] \in Seq(GenuineOf(d)) \/ outgoing'[d] \in Seq(GenuineOf(d)')
           /\ toRtr'[d] \in Seq(GenuineOf(d)) \/ toRtr'[d] \in Seq(GenuineOf(d)')
           /\ toEp'[d] \in Seq(Genuine) /\ incoming'[d] \in QueuesOf(Genuine)
    BY <1>2, <1>3, <1>4, <2>1
  <2>3. QED
    BY <1>3, <2>2, MessagesStay
<1>6. KnowledgeIsGenuine'
  <2>1. info' = info /\ heard' = heard
    BY DEF Lives
  <2>2. QED
    BY <1>1, <2>1, KnowledgeStays DEF KnowledgeIsGenuine
<1>7. DataIsPosted' /\ Posted' \subseteq Posted
  <2>1. DataIsPosted
    BY <1>1 DEF DataIsSingle
  <2>2. CASE e # Observer
    BY <1>1, <1>4, <2>1, <2>2 DEF DataIsPosted, Posted
  <2>3. CASE e = Observer
    <3>1. NumbersIn(outgoing'[Observer]) \subseteq NumbersIn(outgoing[Observer]) /\ Single(outgoing'[Observer])
      BY <1>3, <2>1, <2>3 DEF DataIsPosted
    <3>2. Single(toRtr'[Observer]) /\ NumbersIn(toRtr'[Observer]) = {}
      BY <1>3, <2>3, NoNumbers
    <3>3. QED
      BY <2>1, <3>1, <3>2 DEF DataIsPosted, Posted
  <2>4. QED
    BY <2>2, <2>3
<1>8. ASSUME NEW d \in Endpoints PROVE DataIsAt(d)'
  <2>1. DataIsAt(d)
    BY <1>1 DEF DataIsSingle
  <2>2. CASE d = e
    BY <1>1, <1>3, <2>2, NoDataAt
  <2>3. CASE d # e
    BY <1>1, <1>4, <1>7, <2>1, <2>3, DataStaysAt
  <2>4. QED
    BY <2>2, <2>3
<1>9. DataIsSingle'
  BY <1>3, <1>7, <1>8 DEF DataIsSingle
<1>10. QED
  BY <1>5, <1>6, <1>9 DEF SubsIInv

(* A process that starts is known, and takes nothing from those before it. *)
LEMMA StartIsKnown ==
  ASSUME ProcessesAreKnown, NEW e \in Endpoints, NEW p \in Programs[e], Start(e, p)
  PROVE  /\ ProcessesAreKnown' /\ Onward
         /\ Inst(e) + 1 \in DOMAIN ran'[e] /\ ran'[e][Inst(e) + 1] = p
<1> DEFINE Ps == UNION {Programs[d] : d \in Endpoints}
<1>1. /\ ran \in [Endpoints -> Seq(Ps)] /\ up \in [Endpoints -> BOOLEAN]
      /\ objects \in [Endpoints -> Seq(SUBSET AllTypes)] /\ posts \in Nat /\ budget \in Budgets
      /\ \A d \in Endpoints : /\ Inst(d) <= budget.starts[d]
                              /\ up[d] => ran[d] # <<>> /\ Live(d) \subseteq Handles(Program(d))
  BY DEF ProcessesAreKnown
<1>2. p \in Ps /\ p.objects \in Seq(SUBSET AllTypes)
  BY SubscriptionsAssumption DEF AllTypes
<1>3. /\ Inst(e) < budget.starts[e] /\ ran' = [ran EXCEPT ![e] = Append(@, p)]
      /\ up' = [up EXCEPT ![e] = TRUE] /\ objects' = [objects EXCEPT ![e] = p.objects]
      /\ posts' = posts /\ budget' = budget
  BY DEF Start
<1> HIDE DEF Ps
<1>4. /\ ran'[e] = Append(ran[e], p) /\ ran'[e] \in Seq(Ps) /\ ran'[e] # <<>>
      /\ Len(ran[e]) \in Nat /\ Len(ran'[e]) = Len(ran[e]) + 1 /\ ran'[e][Len(ran[e]) + 1] = p
      /\ \A k \in DOMAIN ran[e] : k \in DOMAIN ran'[e] /\ ran'[e][k] = ran[e][k] /\ k # Len(ran'[e])
      /\ Len(ran[e]) + 1 \in DOMAIN ran'[e]
  <2> DEFINE s == ran[e]
             t == ran'[e]
  <2>1. s \in Seq(Ps) /\ t = Append(s, p)
    BY <1>1, <1>3
  <2> HIDE DEF s, t
  <2>2. /\ t \in Seq(Ps) /\ t # <<>> /\ Len(s) \in Nat /\ Len(t) = Len(s) + 1 /\ t[Len(s) + 1] = p
        /\ \A k \in DOMAIN s : k \in DOMAIN t /\ t[k] = s[k] /\ k # Len(t)
        /\ Len(s) + 1 \in DOMAIN t
    BY <1>2, <2>1
  <2>3. QED
    BY <2>1, <2>2 DEF s, t
<1>5. \A d \in Endpoints \ {e} : ran'[d] = ran[d] /\ up'[d] = up[d] /\ objects'[d] = objects[d]
  BY <1>1, <1>3
<1>6. \A d \in Endpoints \ {e} : Inst(d)' = Inst(d) /\ Live(d)' = Live(d) /\ Program(d)' = Program(d)
  BY <1>5 DEF Inst, Live, Program
<1>7. Inst(e)' = Inst(e) + 1 /\ Program(e)' = p /\ Live(e)' = Handles(p)
  <2>1. Inst(e)' = Inst(e) + 1
    BY <1>4 DEF Inst
  <2>2. Program(e)' = p
    BY <1>4 DEF Program, Last
  <2>3. objects'[e] = p.objects
    BY <1>1, <1>3
  <2>4. QED
    BY <2>1, <2>2, <2>3 DEF Live, Handles
<1>8. Inst(e)' <= budget.starts[e]
  <2>1. Inst(e) \in Nat /\ budget.starts[e] \in Nat
    BY <1>1, <1>4, SubscriptionsAssumption DEF Inst
  <2>2. QED
    BY <1>3, <1>7, <2>1
<1>9. ASSUME NEW d \in Endpoints
      PROVE  (/\ Inst(d) <= budget.starts[d]
              /\ up[d] => ran[d] # <<>> /\ Live(d) \subseteq Handles(Program(d)))'
  <2>1. Handles(Program(d)') = Handles(Program(d))'
    BY DEF Handles
  <2>2. CASE d = e
    <3>1. ran'[e] # <<>> /\ Live(e)' = Handles(Program(e)')
      BY <1>4, <1>7
    <3>2. QED
      BY <1>3, <1>8, <2>1, <2>2, <3>1
  <2>3. CASE d # e
    <3>1. Inst(d) <= budget.starts[d] /\ (up[d] => ran[d] # <<>> /\ Live(d) \subseteq Handles(Program(d)))
      BY <1>1
    <3>2. Inst(d)' = Inst(d) /\ Live(d)' = Live(d) /\ Program(d)' = Program(d) /\ up'[d] = up[d] /\ ran'[d] = ran[d]
      BY <1>5, <1>6, <2>3
    <3>3. QED
      BY <1>3, <2>1, <3>1, <3>2
  <2>4. QED
    BY <2>2, <2>3
<1>10. ProcessesAreKnown'
  <2>1. ran' \in [Endpoints -> Seq(Ps)]
    BY <1>1, <1>3, <1>4
  <2>2. up' \in [Endpoints -> BOOLEAN] /\ objects' \in [Endpoints -> Seq(SUBSET AllTypes)]
    BY <1>1, <1>2, <1>3
  <2>3. QED
    BY <1>1, <1>3, <1>9, <2>1, <2>2 DEF ProcessesAreKnown, Ps
<1>11. Onward
  <2>1. ASSUME NEW d \in Endpoints, NEW k \in DOMAIN ran[d]
        PROVE  /\ k \in DOMAIN ran'[d] /\ ran'[d][k] = ran[d][k]
               /\ \A type \in AllTypes \cup {"none"} : StillHandles(d, k, type)' => StillHandles(d, k, type)
    <3>1. CASE d = e
      BY <1>4, <3>1 DEF StillHandles, Inst
    <3>2. CASE d # e
      BY <1>5, <1>6, <3>2 DEF StillHandles
    <3>3. QED
      BY <3>1, <3>2
  <2>2. QED
    BY <1>1, <1>3, <2>1 DEF Onward
<1>12. QED
  BY <1>4, <1>10, <1>11 DEF Inst

(* What a message that is no data has to be to say what is true next.      *)
LEMMA NextIsGenuine ==
  ASSUME NEW m \in Messages, m.inst \in DOMAIN ran'[m.from],
         m.type = "subscribTo" => m.about \in DataOf(ran'[m.from][m.inst]),
         m.type \in {"unsubFrom", "notSubTo"} => ~StillHandles(m.from, m.inst, m.about)',
         m.type \notin Types, m.no = 0
  PROVE  m \in Genuine'
<1>1. /\ m \in Messages' /\ (m.inst \in DOMAIN ran[m.from])'
      /\ (m.type = "subscribTo" => m.about \in DataOf(ran[m.from][m.inst]))'
      /\ (m.type \in {"unsubFrom", "notSubTo"} => ~StillHandles(m.from, m.inst, m.about))'
      /\ (IF m.type \in Types THEN m.no \in 1 .. posts /\ m.from = Observer ELSE m.no = 0)'
  BY DEF Messages
<1>2. QED
  BY <1>1 DEF Genuine

(* What a process announces when it starts is true of it.                  *)
LEMMA AnnouncementsAreGenuine ==
  ASSUME ProcessesAreKnown, NEW e \in Endpoints, NEW p \in Programs[e],
         Inst(e) + 1 \in DOMAIN ran'[e], ran'[e][Inst(e) + 1] = p, ran'[e] \in Seq(UNION {Programs[d] : d \in Endpoints})
  PROVE  Announcements(e, p) \in Seq({m \in GenuineOf(e)' : m.no = 0})
<1> DEFINE types == SetToSeq(DataOf(p))
           about(sort) == [i \in DOMAIN types |-> Announced(e, sort, types[i])]
           M == {m \in GenuineOf(e)' : m.no = 0}
           inst == Inst(e) + 1
<1>1. types \in Seq(DataOf(p)) /\ DataOf(p) \in SUBSET Types
  <2>1. DataOf(p) \in SUBSET Types
    BY DEF DataOf
  <2>2. QED
    BY <2>1, TypesInOrder
<1>2. inst \in Nat
  <2> DEFINE Ps == UNION {Programs[d] : d \in Endpoints}
             s == ran'[e]
  <2>1. s \in Seq(Ps) /\ inst \in DOMAIN s
    OBVIOUS
  <2> HIDE DEF Ps, s, inst
  <2>2. QED
    BY <2>1
<1>3. ASSUME NEW sort \in {"subscribTo", "msgAlwList"}, NEW type \in DataOf(p)
      PROVE  Announced(e, sort, type) \in M
  <2> DEFINE m == Announced(e, sort, type)
  <2>1. /\ m.type = sort /\ m.about = type /\ m.from = e /\ m.inst = inst /\ m.no = 0
        /\ m \in [type : {sort}, about : {type}, from : {e}, inst : {inst}, to : {All}, pri : {0}, no : {0}]
    BY DEF Announced, Message
  <2> HIDE DEF m, inst
  <2>2. sort \in AllTypes /\ sort \notin Types /\ type \in Types
    BY <1>1, SubscriptionsAssumption DEF AllTypes, MetaTypes
  <2>3. m \in Messages
    BY <1>2, <2>1, <2>2 DEF Messages
  <2>4. m.inst \in DOMAIN ran'[m.from] /\ m.about \in DataOf(ran'[m.from][m.inst])
    BY <2>1 DEF inst
  <2>5. m.type \notin {"unsubFrom", "notSubTo"} /\ m.type \notin Types
    BY <2>1, <2>2
  <2>6. m \in Genuine'
    BY <2>1, <2>3, <2>4, <2>5, NextIsGenuine
  <2>7. QED
    BY <2>1, <2>6 DEF GenuineOf, m
<1> DEFINE D == DataOf(p)
           subs == about("subscribTo")
           alws == about("msgAlwList")
<1>4. types \in Seq(D) /\ \A type \in D : /\ Announced(e, "subscribTo", type) \in M
                                          /\ Announced(e, "msgAlwList", type) \in M
  BY <1>1, <1>3
<1>5. Announcements(e, p) = subs \o IF p.allows THEN alws ELSE <<>>
  BY DEF Announcements
<1> HIDE DEF M, D, types
<1>6. subs \in Seq(M) /\ alws \in Seq(M)
  BY <1>4
<1> HIDE DEF subs, alws
<1>7. subs \o alws \in Seq(M) /\ subs \o <<>> \in Seq(M)
  BY <1>6
<1>8. Announcements(e, p) \in Seq(M)
  BY <1>5, <1>7
<1>9. QED
  BY <1>8 DEF M

(* A process starts.                                                       *)
LEMMA StartKeeps ==
  ASSUME SubsIInv, NEW e \in Endpoints, NEW p \in Programs[e], Start(e, p)
  PROVE  SubsIInv'
<1>1. ProcessesAreKnown /\ outgoing[e] \in Seq(GenuineOf(e)) /\ DOMAIN outgoing = Endpoints
  BY DEF SubsIInv, MessagesAreGenuine
<1>2. /\ ProcessesAreKnown' /\ Onward
      /\ Inst(e) + 1 \in DOMAIN ran'[e] /\ ran'[e][Inst(e) + 1] = p
  BY <1>1, StartIsKnown
<1>3. ran'[e] \in Seq(UNION {Programs[d] : d \in Endpoints})
  BY <1>2 DEF ProcessesAreKnown
<1> DEFINE said == Announcements(e, p)
           out == outgoing[e] \o said
           q == Subscribed(p.objects)
           A == GenuineOf(e)
           B == GenuineOf(e)'
           P == {m \in B : m.no = 0}
<1>4. said \in Seq(P)
  BY <1>1, <1>2, <1>3, AnnouncementsAreGenuine
<1>5. Lives(e, q, out, <<>>)
  BY DEF Lives, Start, Post
<1>6. q \in QueuesOf(Genuine) /\ AllSingle(q) /\ Queued(q) = {}
  <2>1. p.objects \in Seq(SUBSET AllTypes)
    BY SubscriptionsAssumption DEF AllTypes
  <2>2. QED
    BY <2>1, SubscribedFacts
<1>7. A \subseteq B /\ P \subseteq B
  BY <1>2, GenuineGrows
<1>8. \A m \in P : m.no = 0
  OBVIOUS
<1>9. outgoing[e] \in Seq(A)
  BY <1>1
<1> HIDE DEF said, q, A, B, P
<1>10. NumbersIn(said) = {} /\ Single(said) /\ said \in Seq(B) /\ outgoing[e] \in Seq(B)
  BY <1>4, <1>7, <1>8, <1>9, WithoutNumbers, SeqMonotonic
<1>11. /\ out \in Seq(B) /\ NumbersIn(out) = NumbersIn(outgoing[e])
       /\ Single(outgoing[e]) => Single(out)
  <2> DEFINE s == outgoing[e]
  <2>1. s \in Seq(B)
    BY <1>10
  <2> HIDE DEF s
  <2>2. /\ s \o said \in Seq(B) /\ NumbersIn(s \o said) = NumbersIn(s) \cup NumbersIn(said)
        /\ Single(s) /\ Single(said) /\ NumbersIn(s) \cap NumbersIn(said) = {} => Single(s \o said)
    BY <1>10, <2>1, ConcatNumbers
  <2>3. QED
    BY <1>10, <2>2 DEF s
<1>12. <<>> \in Seq(B)
  OBVIOUS
<1> HIDE DEF out
<1>13. out \in Seq(GenuineOf(e)') /\ <<>> \in Seq(GenuineOf(e)')
  BY <1>11, <1>12 DEF B
<1>14. QED
  BY <1>2, <1>5, <1>6, <1>11, <1>13, LivesKeep

(* A process that has ended is still known, and handles nothing.           *)
LEMMA EndIsKnown ==
  ASSUME ProcessesAreKnown, NEW e \in Endpoints, Ended(e)
  PROVE  ProcessesAreKnown' /\ Onward /\ ~up'[e] /\ UNCHANGED <<ran, info, heard, posts, budget>>
<1>1. /\ up \in [Endpoints -> BOOLEAN] /\ objects \in [Endpoints -> Seq(SUBSET AllTypes)]
      /\ posts \in Nat /\ budget \in Budgets
      /\ \A d \in Endpoints : /\ Inst(d) <= budget.starts[d]
                              /\ up[d] => ran[d] # <<>> /\ Live(d) \subseteq Handles(Program(d))
  BY DEF ProcessesAreKnown
<1>2. /\ up' = [up EXCEPT ![e] = FALSE] /\ objects' = [objects EXCEPT ![e] = <<>>]
      /\ UNCHANGED <<ran, info, heard, posts, budget>>
  BY DEF Ended
<1>3. \A d \in Endpoints : Inst(d)' = Inst(d) /\ Program(d)' = Program(d)
  BY <1>2 DEF Inst, Program
<1>4. \A d \in Endpoints \ {e} : up'[d] = up[d] /\ Live(d)' = Live(d)
  BY <1>1, <1>2 DEF Live
<1>5. ~up'[e]
  BY <1>1, <1>2
<1>6. ASSUME NEW d \in Endpoints
      PROVE  (/\ Inst(d) <= budget.starts[d]
              /\ up[d] => ran[d] # <<>> /\ Live(d) \subseteq Handles(Program(d)))'
  <2>1. Handles(Program(d)') = Handles(Program(d))'
    BY DEF Handles
  <2>2. Inst(d) <= budget.starts[d] /\ (up[d] => ran[d] # <<>> /\ Live(d) \subseteq Handles(Program(d)))
    BY <1>1
  <2>3. Inst(d)' <= budget'.starts[d]
    BY <1>2, <1>3, <2>2
  <2>4. CASE d = e
    BY <1>5, <2>3, <2>4
  <2>5. CASE d # e
    <3>1. up'[d] = up[d] /\ Live(d)' = Live(d) /\ Program(d)' = Program(d) /\ ran'[d] = ran[d]
      BY <1>2, <1>3, <1>4, <2>5
    <3>2. QED
      BY <2>1, <2>2, <2>3, <3>1
  <2>6. QED
    BY <2>4, <2>5
<1>7. ProcessesAreKnown'
  <2>1. up' \in [Endpoints -> BOOLEAN]
    BY <1>1, <1>2
  <2>2. objects' \in [Endpoints -> Seq(SUBSET AllTypes)]
    <3>1. <<>> \in Seq(SUBSET AllTypes)
      OBVIOUS
    <3>2. QED
      BY <1>1, <1>2, <3>1
  <2>3. ran' \in [Endpoints -> Seq(UNION {Programs[d] : d \in Endpoints})]
    BY <1>2 DEF ProcessesAreKnown
  <2>4. QED
    BY <1>1, <1>2, <1>6, <2>1, <2>2, <2>3 DEF ProcessesAreKnown
<1>8. Onward
  <2>1. ASSUME NEW d \in Endpoints, NEW k, NEW type
        PROVE  StillHandles(d, k, type)' => StillHandles(d, k, type)
    <3>1. CASE d = e
      BY <1>5, <3>1 DEF StillHandles
    <3>2. CASE d # e
      BY <1>3, <1>4, <3>2 DEF StillHandles
    <3>3. QED
      BY <3>1, <3>2
  <2>2. QED
    BY <1>1, <1>2, <2>1 DEF Onward
<1>9. QED
  BY <1>2, <1>5, <1>7, <1>8

(* What a process that ends retracts, it does not handle any more.          *)
LEMMA RetractionIsGenuine ==
  ASSUME NEW m \in Messages, m.type = "unsubFrom", m.inst \in DOMAIN ran'[m.from], ~up'[m.from], m.no = 0
  PROVE  m \in Genuine'
<1>1. ~StillHandles(m.from, m.inst, m.about)'
  BY DEF StillHandles
<1>2. m.type \notin Types
  BY SubscriptionsAssumption DEF MetaTypes
<1>3. QED
  BY <1>1, <1>2, NextIsGenuine

(* A process is destroyed.                                                 *)
LEMMA StopKeeps ==
  ASSUME SubsIInv, NEW e \in Endpoints, Stop(e)
  PROVE  SubsIInv'
<1> DEFINE types == SetToSeq(DataOf(Program(e)))
           said == [i \in DOMAIN types |-> Message("unsubFrom", types[i], e, All)]
           bye == <<Message("byeByeEndp", "none", e, All)>>
           out == toRtr[e] \o outgoing[e] \o said \o bye
           sent == IF node[e] = None THEN toRtr[e] ELSE out
           A == GenuineOf(e)
           B == GenuineOf(e)'
           D == DataOf(Program(e))
<1>1. /\ ProcessesAreKnown /\ outgoing[e] \in Seq(A) /\ toRtr[e] \in Seq(A) /\ up[e] /\ e # Observer
      /\ DOMAIN toRtr = Endpoints
  BY DEF SubsIInv, MessagesAreGenuine, Stop
<1>2. Ended(e) /\ toRtr' = [toRtr EXCEPT ![e] = sent]
  BY DEF Stop
<1>3. /\ ProcessesAreKnown' /\ Onward /\ ~up'[e]
      /\ UNCHANGED <<ran, info, heard, posts, budget>>
  BY <1>1, <1>2, EndIsKnown
<1>4. A \subseteq B
  BY <1>3, GenuineGrows
<1>5. Inst(e) \in Nat /\ Inst(e) \in DOMAIN ran[e]
  BY <1>1, RunningFacts
<1>6. ASSUME NEW type \in Types PROVE Message("unsubFrom", type, e, All) \in B
  <2> DEFINE m == Message("unsubFrom", type, e, All)
  <2>1. /\ m.type = "unsubFrom" /\ m.about = type /\ m.from = e /\ m.inst = Inst(e) /\ m.no = 0
        /\ m \in [type : {"unsubFrom"}, about : {type}, from : {e}, inst : {Inst(e)},
                  to : {All}, pri : {0}, no : {0}]
    BY DEF Message
  <2>2. "unsubFrom" \in AllTypes /\ "unsubFrom" \notin Types
    BY SubscriptionsAssumption DEF AllTypes, MetaTypes
  <2> HIDE DEF m
  <2>3. m \in Messages
    BY <1>5, <2>1, <2>2 DEF Messages
  <2>4. m.inst \in DOMAIN ran'[m.from]
    BY <1>3, <1>5, <2>1
  <2>5. ~up'[m.from]
    BY <1>3, <2>1
  <2>6. m \in Genuine'
    BY <2>1, <2>3, <2>4, <2>5, RetractionIsGenuine
  <2>7. QED
    BY <2>1, <2>6 DEF GenuineOf, m
<1>7. Message("byeByeEndp", "none", e, All) \in A
  BY <1>1, OwnMessage DEF MetaTypes
<1>8. types \in Seq(D) /\ D \subseteq Types
  <2>1. D \in SUBSET Types
    BY DEF DataOf
  <2>2. QED
    BY <2>1, TypesInOrder
<1> HIDE DEF A, B, D, types
<1>9. said \in Seq(B)
  BY <1>6, <1>8
<1>10. bye \in Seq(B) /\ outgoing[e] \in Seq(B) /\ toRtr[e] \in Seq(B)
  <2>1. bye \in Seq(A)
    BY <1>7, OneNumber
  <2> HIDE DEF bye
  <2>2. QED
    BY <1>1, <1>4, <2>1, SeqMonotonic
<1> HIDE DEF said, bye
<1>11. out \in Seq(B)
  BY <1>9, <1>10
<1> HIDE DEF out
<1>12. sent \in Seq(B)
  BY <1>10, <1>11
<1> HIDE DEF sent
<1>13. Lives(e, <<>>, <<>>, sent)
  BY <1>2, <1>3 DEF Lives, Ended
<1>14. sent \in Seq(GenuineOf(e)') /\ <<>> \in Seq(GenuineOf(e)')
  BY <1>12 DEF B
<1>15. <<>> \in QueuesOf(Genuine) /\ AllSingle(<<>>) /\ Queued(<<>>) = {}
  BY NoQueues
<1>16. QED
  BY <1>1, <1>3, <1>13, <1>14, <1>15, LivesKeep

(* A process crashes.                                                      *)
LEMMA CrashKeeps ==
  ASSUME SubsIInv, NEW e \in Endpoints, Crash(e)
  PROVE  SubsIInv'
<1> DEFINE A == GenuineOf(e)
           B == GenuineOf(e)'
<1>1. /\ ProcessesAreKnown /\ toRtr[e] \in Seq(A) /\ up[e] /\ e # Observer /\ DOMAIN toRtr = Endpoints
  BY DEF SubsIInv, MessagesAreGenuine, Crash
<1>2. PICK k \in 0 .. Len(toRtr[e]) : toRtr' = [toRtr EXCEPT ![e] = SubSeq(@, 1, k)]
  BY DEF Crash
<1> DEFINE sent == SubSeq(toRtr[e], 1, k)
<1>3. Ended(e) /\ toRtr' = [toRtr EXCEPT ![e] = sent]
  BY <1>2 DEF Crash
<1>4. /\ ProcessesAreKnown' /\ Onward
      /\ UNCHANGED <<ran, info, heard, posts, budget>>
  BY <1>1, <1>3, EndIsKnown
<1>5. A \subseteq B
  BY <1>4, GenuineGrows
<1> HIDE DEF A, B
<1>6. sent \in Seq(A)
  <2> DEFINE s == toRtr[e]
  <2>1. s \in Seq(A) /\ k \in 0 .. Len(s)
    BY <1>1, <1>2
  <2> HIDE DEF s
  <2>2. SubSeq(s, 1, k) \in Seq(A)
    BY <2>1, PieceNumbers
  <2>3. QED
    BY <2>2 DEF s
<1> HIDE DEF sent
<1>7. sent \in Seq(B)
  BY <1>5, <1>6, SeqMonotonic
<1>8. Lives(e, <<>>, <<>>, sent)
  BY <1>3, <1>4 DEF Lives, Ended
<1>9. sent \in Seq(GenuineOf(e)') /\ <<>> \in Seq(GenuineOf(e)')
  BY <1>7 DEF B
<1>10. <<>> \in QueuesOf(Genuine) /\ AllSingle(<<>>) /\ Queued(<<>>) = {}
  BY NoQueues
<1>11. QED
  BY <1>1, <1>4, <1>8, <1>9, <1>10, LivesKeep

(* An object of a process is removed.                                      *)
LEMMA RemovalIsKnown ==
  ASSUME ProcessesAreKnown, NEW e \in Endpoints, RemoveObject(e)
  PROVE  ProcessesAreKnown' /\ Onward
<1>1. /\ up \in [Endpoints -> BOOLEAN] /\ objects \in [Endpoints -> Seq(SUBSET AllTypes)]
      /\ posts \in Nat /\ budget \in Budgets
      /\ \A d \in Endpoints : /\ Inst(d) <= budget.starts[d]
                              /\ up[d] => ran[d] # <<>> /\ Live(d) \subseteq Handles(Program(d))
  BY DEF ProcessesAreKnown
<1>2. /\ objects' = [objects EXCEPT ![e] = Front(@)] /\ Len(objects[e]) > 1
      /\ UNCHANGED <<ran, up, posts, budget>>
  BY DEF RemoveObject
<1>3. \A d \in Endpoints : Inst(d)' = Inst(d) /\ Program(d)' = Program(d)
  BY <1>2 DEF Inst, Program
<1>4. /\ Front(objects[e]) \in Seq(SUBSET AllTypes)
      /\ \A i \in DOMAIN Front(objects[e]) : /\ i \in DOMAIN objects[e]
                                             /\ Front(objects[e])[i] = objects[e][i]
  <2> DEFINE S == SUBSET AllTypes
             s == objects[e]
  <2>1. s \in Seq(S) /\ Len(s) > 1
    BY <1>1, <1>2
  <2> HIDE DEF S, s
  <2>2. Front(s) = SubSeq(s, 1, Len(s) - 1)
    BY DEF Front
  <2>3. Front(s) \in Seq(S) /\ \A i \in DOMAIN Front(s) : i \in DOMAIN s /\ Front(s)[i] = s[i]
    BY <2>1, <2>2
  <2>4. QED
    BY <2>3 DEF S, s
<1>5. \A d \in Endpoints : Live(d)' \subseteq Live(d)
  <2>1. \A d \in Endpoints \ {e} : objects'[d] = objects[d]
    BY <1>1, <1>2
  <2>2. objects'[e] = Front(objects[e])
    BY <1>1, <1>2
  <2>3. \A i \in DOMAIN objects'[e] : i \in DOMAIN objects[e] /\ objects'[e][i] = objects[e][i]
    BY <1>4, <2>2
  <2>4. Live(e)' \subseteq Live(e)
    BY <2>3 DEF Live, Range
  <2>5. \A d \in Endpoints \ {e} : Live(d)' = Live(d)
    BY <2>1 DEF Live
  <2>6. QED
    BY <2>4, <2>5
<1>6. ASSUME NEW d \in Endpoints
      PROVE  (/\ Inst(d) <= budget.starts[d]
              /\ up[d] => ran[d] # <<>> /\ Live(d) \subseteq Handles(Program(d)))'
  <2>1. Handles(Program(d)') = Handles(Program(d))'
    BY DEF Handles
  <2>2. Inst(d) <= budget.starts[d] /\ (up[d] => ran[d] # <<>> /\ Live(d) \subseteq Handles(Program(d)))
    BY <1>1
  <2>3. Inst(d)' = Inst(d) /\ Program(d)' = Program(d) /\ Live(d)' \subseteq Live(d)
    BY <1>3, <1>5
  <2>4. QED
    BY <1>2, <2>1, <2>2, <2>3
<1>7. ProcessesAreKnown'
  <2>1. objects' \in [Endpoints -> Seq(SUBSET AllTypes)]
    BY <1>1, <1>2, <1>4
  <2>2. ran' \in [Endpoints -> Seq(UNION {Programs[d] : d \in Endpoints})]
    BY <1>2 DEF ProcessesAreKnown
  <2>3. QED
    BY <1>1, <1>2, <1>6, <2>1, <2>2 DEF ProcessesAreKnown
<1>8. Onward
  <2>1. ASSUME NEW d \in Endpoints, NEW k, NEW type
        PROVE  StillHandles(d, k, type)' => StillHandles(d, k, type)
    BY <1>2, <1>3, <1>5 DEF StillHandles
  <2>2. QED
    BY <1>1, <1>2, <2>1 DEF Onward
<1>9. QED
  BY <1>7, <1>8

(* The queues it alone had are gone, and what waited in them.              *)
LEMMA RemoveObjectKeeps ==
  ASSUME SubsIInv, NEW e \in Endpoints, RemoveObject(e)
  PROVE  SubsIInv'
<1> DEFINE q == Unsubscribed(incoming[e], Last(objects[e]))
<1>1. /\ ProcessesAreKnown /\ MessagesAreGenuine /\ KnowledgeIsGenuine /\ DataIsSingle
      /\ posts \in Nat /\ posts' = posts /\ Observer \in Endpoints
  BY SubscriptionsAssumption DEF SubsIInv, ProcessesAreKnown, RemoveObject
<1>2. /\ incoming' = [incoming EXCEPT ![e] = q]
      /\ UNCHANGED <<ran, outgoing, toRtr, toEp, info, heard, handled, posts, budget>>
  BY DEF RemoveObject
<1>3. ProcessesAreKnown' /\ Onward
  BY <1>1, RemovalIsKnown
<1>4. /\ DOMAIN outgoing = Endpoints /\ DOMAIN toRtr = Endpoints /\ DOMAIN handled = Endpoints
      /\ toEp \in [Endpoints -> Seq(Genuine)] /\ incoming \in [Endpoints -> QueuesOf(Genuine)]
      /\ \A d \in Endpoints : outgoing[d] \in Seq(GenuineOf(d)) /\ toRtr[d] \in Seq(GenuineOf(d))
  BY <1>1 DEF MessagesAreGenuine, DataIsSingle
<1>5. AllSingle(incoming[e])
  BY <1>1 DEF DataIsSingle, DataIsAt
<1>6. q \in QueuesOf(Genuine) /\ AllSingle(q) /\ Queued(q) \subseteq Queued(incoming[e])
  BY <1>4, <1>5, UnsubscribedFacts
<1> HIDE DEF q
<1>7. MessagesAreGenuine'
  <2>1. \A d \in Endpoints :
           /\ outgoing'[d] \in Seq(GenuineOf(d)) /\ toRtr'[d] \in Seq(GenuineOf(d))
           /\ toEp'[d] \in Seq(Genuine) /\ incoming'[d] \in QueuesOf(Genuine)
    BY <1>2, <1>4, <1>6
  <2>2. /\ DOMAIN outgoing' = Endpoints /\ DOMAIN toRtr' = Endpoints
        /\ toEp' = [d \in Endpoints |-> toEp'[d]] /\ incoming' = [d \in Endpoints |-> incoming'[d]]
    BY <1>2, <1>4
  <2>3. QED
    BY <1>3, <2>1, <2>2, MessagesStay
<1>8. KnowledgeIsGenuine'
  BY <1>1, <1>2, <1>3, KnowledgeStays DEF KnowledgeIsGenuine
<1>9. DataIsPosted' /\ Posted' = Posted
  BY <1>1, <1>2 DEF DataIsSingle, DataIsPosted, Posted
<1>10. ASSUME NEW d \in Endpoints PROVE DataIsAt(d)'
  <2>1. DataIsAt(d)
    BY <1>1 DEF DataIsSingle
  <2>2. CASE d # e
    <3>1. toEp'[d] = toEp[d] /\ incoming'[d] = incoming[d] /\ handled'[d] = handled[d]
      BY <1>2, <1>4, <2>2
    <3>2. QED
      BY <1>1, <1>9, <2>1, <3>1, DataStaysAt
  <2>3. CASE d = e
    <3>1. /\ Single(toEp[e])
          /\ handled[e] \in Seq(1 .. posts) /\ IsInjective(handled[e])
          /\ NumbersIn(toEp[e]) \cap Queued(incoming[e]) = {}
          /\ Range(handled[e]) \cap (NumbersIn(toEp[e]) \cup Queued(incoming[e])) = {}
          /\ Posted \cap (NumbersIn(toEp[e]) \cup Queued(incoming[e]) \cup Range(handled[e])) = {}
      BY <2>1, <2>3 DEF DataIsAt
    <3>2. incoming'[e] = q
      BY <1>2, <1>4
    <3>3. /\ Single(toEp'[e]) /\ AllSingle(incoming'[e])
          /\ handled'[e] \in Seq(1 .. posts') /\ IsInjective(handled'[e])
      BY <1>2, <1>6, <3>1, <3>2
    <3>4. /\ NumbersIn(toEp'[e]) \cap Queued(incoming'[e]) = {}
          /\ Range(handled'[e]) \cap (NumbersIn(toEp'[e]) \cup Queued(incoming'[e])) = {}
          /\ Posted' \cap (NumbersIn(toEp'[e]) \cup Queued(incoming'[e]) \cup Range(handled'[e])) = {}
      BY <1>2, <1>6, <1>9, <3>1, <3>2
    <3>5. QED
      BY <2>3, <3>3, <3>4 DEF DataIsAt
  <2>4. QED
    BY <2>2, <2>3
<1>11. DataIsSingle'
  BY <1>2, <1>4, <1>9, <1>10 DEF DataIsSingle
<1>12. QED
  BY <1>3, <1>7, <1>8, <1>11 DEF SubsIInv

-----------------------------------------------------------------------------
(* The invariant.                                                          *)

(* It holds when only the observer runs.                                   *)
LEMMA SubsInitially ==
  ASSUME SubsInit
  PROVE  SubsIInv
<1>1. PICK p \in Programs[Observer] :
         /\ ran = [e \in Endpoints |-> IF e = Observer THEN <<p>> ELSE <<>>]
         /\ up = [e \in Endpoints |-> e = Observer]
         /\ objects = [e \in Endpoints |-> IF e = Observer THEN p.objects ELSE <<>>]
         /\ incoming = [e \in Endpoints |-> IF e = Observer THEN Subscribed(p.objects) ELSE <<>>]
         /\ outgoing = [e \in Endpoints |-> <<>>]
         /\ toRtr = [e \in Endpoints |-> <<>>] /\ toEp = [e \in Endpoints |-> <<>>]
         /\ info = [e \in Endpoints |-> None]
         /\ heard = [q \in Processes |-> [yes |-> {}, no |-> {}]]
         /\ handled = [e \in Endpoints |-> <<>>]
         /\ posts = 0 /\ budget \in Budgets
  BY DEF SubsInit
<1>2. /\ Observer \in Endpoints /\ p.objects \in Seq(SUBSET AllTypes)
      /\ \A e \in Endpoints : budget.starts[e] \in Nat
      /\ budget.starts[Observer] > 0
  BY <1>1, SubscriptionsAssumption DEF AllTypes
<1>3. ProcessesAreKnown
  <2>1. ASSUME NEW e \in Endpoints
        PROVE  /\ Inst(e) <= budget.starts[e]
               /\ up[e] => ran[e] # <<>> /\ Live(e) \subseteq Handles(Program(e))
    <3>1. CASE e = Observer
      <4>1. ran[e] = <<p>> /\ objects[e] = p.objects
        BY <1>1, <1>2, <3>1
      <4>2. Inst(e) = 1 /\ Program(e) = p /\ Live(e) = Handles(p)
        BY <4>1 DEF Inst, Program, Last, Live, Handles
      <4>3. 1 <= budget.starts[e]
        BY <1>2, <3>1
      <4>4. QED
        BY <4>1, <4>2, <4>3
    <3>2. CASE e # Observer
      <4>1. ran[e] = <<>> /\ ~up[e]
        BY <1>1, <3>2
      <4>2. Inst(e) = 0
        BY <4>1 DEF Inst
      <4>3. QED
        BY <1>2, <4>1, <4>2
    <3>3. QED
      BY <3>1, <3>2
  <2> DEFINE Ps == UNION {Programs[d] : d \in Endpoints}
  <2>2. p \in Ps
    BY <1>1, <1>2
  <2> HIDE DEF Ps
  <2>3. ran \in [Endpoints -> Seq(Ps)]
    <3>1. <<p>> \in Seq(Ps) /\ <<>> \in Seq(Ps)
      BY <2>2
    <3>2. QED
      BY <1>1, <3>1
  <2>4. objects \in [Endpoints -> Seq(SUBSET AllTypes)]
    <3>1. <<>> \in Seq(SUBSET AllTypes)
      OBVIOUS
    <3>2. QED
      BY <1>1, <1>2, <3>1
  <2>5. up \in [Endpoints -> BOOLEAN]
    BY <1>1
  <2>6. QED
    BY <1>1, <2>1, <2>3, <2>4, <2>5 DEF ProcessesAreKnown, Ps
<1>4. /\ \A e \in Endpoints : /\ incoming[e] \in QueuesOf(Genuine) /\ AllSingle(incoming[e])
                              /\ Queued(incoming[e]) = {}
  <2>1. \A e \in Endpoints : incoming[e] = Subscribed(p.objects) \/ incoming[e] = <<>>
    BY <1>1
  <2>2. QED
    BY <1>2, <2>1, SubscribedFacts, NoQueues
<1>5. MessagesAreGenuine
  <2>1. incoming \in [Endpoints -> QueuesOf(Genuine)]
    <3>1. incoming = [e \in Endpoints |-> incoming[e]]
      BY <1>1
    <3>2. QED
      BY <1>4, <3>1
  <2>2. toEp \in [Endpoints -> Seq(Genuine)]
    <3>1. <<>> \in Seq(Genuine)
      OBVIOUS
    <3>2. QED
      BY <1>1, <3>1
  <2>3. \A e \in Endpoints : outgoing[e] = <<>> /\ toRtr[e] = <<>> /\ <<>> \in Seq(GenuineOf(e))
    BY <1>1
  <2>4. DOMAIN outgoing = Endpoints /\ DOMAIN toRtr = Endpoints
    BY <1>1
  <2>5. QED
    BY <2>1, <2>2, <2>3, <2>4 DEF MessagesAreGenuine
<1>6. KnowledgeIsGenuine
  <2>1. DOMAIN info = Endpoints /\ \A e \in Endpoints : info[e] \in GenuineInfos(e)
    BY <1>1 DEF GenuineInfos
  <2>2. heard \in GenuineReports
    BY <1>1 DEF GenuineReports
  <2>3. QED
    BY <2>1, <2>2 DEF KnowledgeIsGenuine
<1>7. DataIsSingle
  <2>1. DataIsPosted /\ Posted = {}
    BY <1>1, <1>2, NoNumbers DEF DataIsPosted, Posted
  <2>2. ASSUME NEW e \in Endpoints PROVE DataIsAt(e)
    <3> DEFINE h == handled[e]
    <3>1. h = <<>> /\ toEp[e] = <<>>
      BY <1>1
    <3>2. h \in Seq(1 .. posts) /\ IsInjective(h) /\ Range(h) = {}
      BY <3>1 DEF IsInjective, Range
    <3>3. Single(toEp[e]) /\ NumbersIn(toEp[e]) = {}
      BY <3>1, NoNumbers
    <3> HIDE DEF h
    <3>4. /\ NumbersIn(toEp[e]) \cap Queued(incoming[e]) = {}
          /\ Range(h) \cap (NumbersIn(toEp[e]) \cup Queued(incoming[e])) = {}
          /\ Posted \cap (NumbersIn(toEp[e]) \cup Queued(incoming[e]) \cup Range(h)) = {}
      BY <2>1, <3>2, <3>3
    <3>5. QED
      BY <1>4, <3>2, <3>3, <3>4 DEF DataIsAt, h
  <2>3. DOMAIN handled = Endpoints
    BY <1>1
  <2>4. QED
    BY <2>1, <2>2, <2>3 DEF DataIsSingle
<1>8. QED
  BY <1>3, <1>5, <1>6, <1>7 DEF SubsIInv

(* Every step keeps it.                                                    *)
LEMMA SubsStepKeeps ==
  ASSUME SubsIInv, [SubsNext]_subsVars
  PROVE  SubsIInv'
<1>1. CASE UNCHANGED subsVars
  <2>1. DOMAIN info' = Endpoints /\ \A d \in Endpoints : info'[d] \in {info[d], None}
    BY <1>1 DEF subsVars, SubsIInv, KnowledgeIsGenuine
  <2>2. QED
    BY <1>1, <2>1, NothingMoves DEF subsVars
<1>2. CASE SubsNext
  <2>1. ASSUME NEW e \in Endpoints, \/ \E p \in Programs[e] : Start(e, p)
                                    \/ Turn(e) \/ Stop(e) \/ Crash(e) \/ RemoveObject(e)
                                    \/ ClearBlockList(e) \/ Route(e) \/ Outdated(e)
        PROVE  SubsIInv'
    BY <2>1, StartKeeps, TurnKeeps, StopKeeps, CrashKeeps, RemoveObjectKeeps,
       ClearBlockListKeeps, RouteKeeps, OutdatedKeeps
  <2>2. ASSUME NEW type \in Types, NEW pri \in Priorities, PostData(type, pri)
        PROVE  SubsIInv'
    BY <2>2, PostDataKeeps
  <2>3. QED
    BY <1>2, <2>1, <2>2, AskKeeps DEF SubsNext
<1>3. QED
  BY <1>1, <1>2

(* At every time, whatever processes start, stop, crash and lose objects,   *)
(* and whenever what they said arrives: the messages that are on the way,   *)
(* what the router knows and what the observer has heard are genuine, and   *)
(* every data message waits at an endpoint once.                            *)
THEOREM SubsInvariant == SubsSpec => []SubsIInv
<1>1. SubsInit => SubsIInv
  BY SubsInitially
<1>2. SubsIInv /\ [SubsNext]_subsVars => SubsIInv'
  BY SubsStepKeeps
<1>3. QED
  BY <1>1, <1>2, PTL DEF SubsSpec

(* No message is handled twice by a process, however many of its objects    *)
(* handle its type, whatever their handlers refuse and how long              *)
(* (message_impl.cpp, process_all), for any number of endpoints, programs,   *)
(* types, messages and priorities.                                           *)
THEOREM HandledOnceAlways == SubsSpec => []HandledOnce
<1>1. SubsIInv => HandledOnce
  BY DEF SubsIInv, DataIsSingle, DataIsAt, HandledOnce
<1>2. QED
  BY <1>1, SubsInvariant, PTL

(* What the observer hears of a process is true, whether the process or the *)
(* router said it: no subscription to what its program does not handle, and *)
(* no denial of what its objects handle (router_impl.cpp,                    *)
(* router_endpoint_info).                                                    *)
THEOREM ReportsAreTrueAlways == SubsSpec => []ReportsAreTrue
<1>1. SubsIInv => ReportsAreTrue
  <2>1. SUFFICES ASSUME SubsIInv, NEW e \in Endpoints, NEW k \in DOMAIN ran[e]
                 PROVE  /\ heard[<<e, k>>].yes \subseteq Handles(ran[e][k])
                        /\ up[e] /\ k = Inst(e) => heard[<<e, k>>].no \cap Live(e) = {}
    BY DEF ReportsAreTrue
  <2>2. <<e, k>> \in Processes
    <3>1. budget \in Budgets /\ Inst(e) <= budget.starts[e] /\ budget.starts[e] \in Nat
      BY <2>1, SubscriptionsAssumption DEF SubsIInv, ProcessesAreKnown
    <3>2. k \in 1 .. Inst(e) /\ Inst(e) \in Nat
      <4> DEFINE Ps == UNION {Programs[d] : d \in Endpoints}
                 s == ran[e]
      <4>1. s \in Seq(Ps) /\ k \in DOMAIN s
        BY <2>1 DEF SubsIInv, ProcessesAreKnown
      <4> HIDE DEF Ps, s
      <4>2. k \in 1 .. Len(s) /\ Len(s) \in Nat
        BY <4>1
      <4>3. QED
        BY <4>2 DEF s, Inst
    <3>3. k \in 1 .. budget.starts[e]
      BY <3>1, <3>2
    <3>4. <<e, k>> \in {e} \X (1 .. budget.starts[e])
      BY <3>3
    <3> DEFINE of(d, b) == {d} \X (1 .. b.starts[d])
               x == <<e, k>>
    <3>5. x \in of(e, budget) /\ budget \in Budgets
      BY <3>1, <3>4
    <3> HIDE DEF of, x
    <3>6. x \in UNION {of(d, b) : d \in Endpoints, b \in Budgets}
      BY <3>5
    <3>7. QED
      BY <3>6 DEF of, x, Processes
  <2>3. heard \in GenuineReports
    BY <2>1 DEF SubsIInv, KnowledgeIsGenuine
  <2> DEFINE p == <<e, k>>
  <2>4. /\ \A type \in heard[p].yes : type \in DataOf(ran[p[1]][p[2]])
        /\ \A type \in heard[p].no : ~StillHandles(p[1], p[2], type)
    BY <2>2, <2>3 DEF GenuineReports
  <2>5. /\ \A type \in heard[<<e, k>>].yes : type \in DataOf(ran[e][k])
        /\ \A type \in heard[<<e, k>>].no : ~StillHandles(e, k, type)
    BY <2>4
  <2>6. QED
    BY <2>5 DEF DataOf, StillHandles
<1>2. QED
  BY <1>1, SubsInvariant, PTL

-----------------------------------------------------------------------------
(* What the tracker can hold.                                              *)

NodeProcesses == Ids \X Nat
MaybeProcesses == NodeProcesses \cup {Nothing}
Hosts == {HostOf(p) : p \in NodeProcesses}
MaybeHosts == Hosts \cup {Nothing}
ChangeKinds == {"started", "stopped"}

NodeStates == [instance : MaybeProcesses, host : MaybeHosts,
               kind : {"unknown", "router", "endpoint"}, info : MaybeProcesses,
               pingable : {"unknown", "yes", "no"}, pingBits : Nat, newInstance : BOOLEAN]
InstanceStates == [host : MaybeHosts, known : [InstanceInfo -> MaybeProcesses],
                   expired : BOOLEAN, wasAlive : BOOLEAN, changes : SUBSET ChangeKinds]
HostStates == [known : [HostInfo -> MaybeHosts],
               expired : BOOLEAN, wasAlive : BOOLEAN, changes : SUBSET ChangeKinds]

Partial(K, V) == UNION {[D -> V] : D \in SUBSET K}
Trackers == [nodes : Partial(Ids, NodeStates), instances : Partial(NodeProcesses, InstanceStates),
             hosts : Partial(MaybeHosts, HostStates), connections : SUBSET SUBSET Ids,
             pings : SUBSET Ids]

(* A node that is not tracked is like one of which nothing is known.       *)
NodeOf(t, id) == IF id \in DOMAIN t.nodes THEN t.nodes[id] ELSE NewNodeState
InstanceOf(t, id) == NodeOf(t, id).instance

(* What is known is of the process, or of its host.                        *)
NodeIsSound(n) ==
    /\ n.info \in {Nothing, n.instance}
    /\ n.host \in {Nothing} \cup (IF n.instance = Nothing THEN {} ELSE {HostOf(n.instance)})
InstanceIsSound(i, s) ==
    /\ \A a \in InstanceInfo : s.known[a] \in {Nothing, i}
    /\ s.host \in {Nothing, HostOf(i)}
HostIsSound(h, s) == \A a \in HostInfo : s.known[a] \in {Nothing, h}
NodesAreSound(t) == \A id \in Ids : NodeIsSound(NodeOf(t, id))
InstancesAreSound(t) == \A i \in DOMAIN t.instances : InstanceIsSound(i, t.instances[i])
HostsAreSound(t) == \A h \in DOMAIN t.hosts : HostIsSound(h, t.hosts[h])
IsSound(t) == NodesAreSound(t) /\ InstancesAreSound(t) /\ HostsAreSound(t)

(* Maps of some keys to values.                                            *)
LEMMA PartialIs ==
  ASSUME NEW K, NEW V, NEW f \in Partial(K, V)
  PROVE  /\ f = [k \in DOMAIN f |-> f[k]] /\ DOMAIN f \subseteq K
         /\ \A k \in DOMAIN f : f[k] \in V
BY DEF Partial

(* Such a map is in the set of them                                        *)
LEMMA IsPartial ==
  ASSUME NEW K, NEW V, NEW f, f = [k \in DOMAIN f |-> f[k]], DOMAIN f \subseteq K,
         \A k \in DOMAIN f : f[k] \in V
  PROVE  f \in Partial(K, V)
<1>1. f \in [DOMAIN f -> V]
  OBVIOUS
<1>2. QED
  BY <1>1 DEF Partial

(* A map whose value at one of its keys is changed                         *)
LEMMA PutFacts ==
  ASSUME NEW K, NEW V, NEW f \in Partial(K, V), NEW k \in DOMAIN f, NEW v \in V
  PROVE  /\ [f EXCEPT ![k] = v] \in Partial(K, V)
         /\ DOMAIN [f EXCEPT ![k] = v] = DOMAIN f
         /\ \A x \in DOMAIN f : [f EXCEPT ![k] = v][x] = IF x = k THEN v ELSE f[x]
<1>1. DOMAIN f \subseteq K /\ \A x \in DOMAIN f : f[x] \in V
  BY PartialIs
<1>2. QED
  BY <1>1, IsPartial

(* The fields of a tracker                                                 *)
LEMMA TrackerFields ==
  ASSUME NEW t \in Trackers
  PROVE  /\ t.nodes \in Partial(Ids, NodeStates)
         /\ t.instances \in Partial(NodeProcesses, InstanceStates)
         /\ t.hosts \in Partial(MaybeHosts, HostStates)
         /\ t.connections \in SUBSET SUBSET Ids /\ t.pings \in SUBSET Ids
BY DEF Trackers

(* What is newly tracked is like what nothing is known of, and sound       *)
LEMMA NewStates ==
  /\ NewNodeState \in NodeStates /\ NodeIsSound(NewNodeState) /\ NewNodeState.instance = Nothing
  /\ NewInstanceState \in InstanceStates /\ \A i : InstanceIsSound(i, NewInstanceState)
  /\ NewHostState \in HostStates /\ \A h : HostIsSound(h, NewHostState)
<1>1. Nothing \in MaybeProcesses /\ Nothing \in MaybeHosts
  BY DEF MaybeProcesses, MaybeHosts
<1>2. NewNodeState \in NodeStates /\ NodeIsSound(NewNodeState) /\ NewNodeState.instance = Nothing
  BY <1>1 DEF NewNodeState, NodeStates, NodeIsSound
<1>3. NewInstanceState \in InstanceStates /\ \A i : InstanceIsSound(i, NewInstanceState)
  BY <1>1 DEF NewInstanceState, InstanceStates, InstanceIsSound
<1>4. NewHostState \in HostStates /\ \A h : HostIsSound(h, NewHostState)
  BY <1>1 DEF NewHostState, HostStates, HostIsSound
<1>5. QED
  BY <1>2, <1>3, <1>4

(* A process is something, and every node is in the set of its states.     *)
LEMMA ProcessIsSomething ==
  ASSUME NEW p \in NodeProcesses
  PROVE  p # Nothing /\ p = <<p[1], p[2]>> /\ p[1] \in Ids /\ p[2] \in Nat
<1>1. p = <<p[1], p[2]>> /\ p[1] \in Ids /\ p[2] \in Nat
  BY DEF NodeProcesses
<1>2. Len(<<p[1], p[2]>>) = 2 /\ Len(<<>>) = 0
  OBVIOUS
<1>3. QED
  BY <1>1, <1>2 DEF Nothing

(* The node of an id, tracked or not                                       *)
LEMMA NodeOfType ==
  ASSUME NEW t \in Trackers, NEW id \in Ids
  PROVE  NodeOf(t, id) \in NodeStates /\ InstanceOf(t, id) \in MaybeProcesses
<1>1. NodeOf(t, id) \in NodeStates
  BY NewStates, TrackerFields, PartialIs DEF NodeOf
<1>2. QED
  BY <1>1 DEF InstanceOf, NodeStates


-----------------------------------------------------------------------------
(* Finding something that is tracked, and changing it.                     *)

PutNode(t, id, n) == [t EXCEPT !.nodes[id] = n]
PutInstance(t, i, s) == [t EXCEPT !.instances[i] = s]
PutHost(t, h, s) == [t EXCEPT !.hosts[h] = s]

Others(t, r, id) == \A x \in Ids \ {id} : NodeOf(r, x) = NodeOf(t, x)
SameNodes(t, r) == \A x \in Ids : NodeOf(r, x) = NodeOf(t, x)

(* get_node shows what was shown before                                    *)
LEMMA GetNodeFacts ==
  ASSUME NEW t \in Trackers, NEW id \in Ids
  PROVE  /\ GetNode(t, id) \in Trackers
         /\ id \in DOMAIN GetNode(t, id).nodes /\ GetNode(t, id).nodes[id] = NodeOf(t, id)
         /\ SameNodes(t, GetNode(t, id))
         /\ GetNode(t, id).instances = t.instances /\ GetNode(t, id).hosts = t.hosts
<1> DEFINE w == With(t.nodes, id, NewNodeState)
<1>1. /\ w \in Partial(Ids, NodeStates) /\ DOMAIN w = DOMAIN t.nodes \cup {id}
      /\ \A x \in DOMAIN t.nodes : w[x] = t.nodes[x]
      /\ id \notin DOMAIN t.nodes => w[id] = NewNodeState
  <2>1. /\ DOMAIN w = DOMAIN t.nodes \cup {id} /\ w = [x \in DOMAIN w |-> w[x]]
        /\ \A x \in DOMAIN t.nodes : w[x] = t.nodes[x]
        /\ id \notin DOMAIN t.nodes => w[id] = NewNodeState
    BY DEF With
  <2>2. /\ DOMAIN t.nodes \subseteq Ids /\ NewNodeState \in NodeStates
        /\ \A x \in DOMAIN t.nodes : t.nodes[x] \in NodeStates
    BY TrackerFields, PartialIs, NewStates
  <2> HIDE DEF w
  <2>3. \A x \in DOMAIN w : w[x] \in NodeStates
    BY <2>1, <2>2
  <2>4. w \in Partial(Ids, NodeStates)
    BY <2>1, <2>2, <2>3, IsPartial
  <2>5. QED
    BY <2>1, <2>4
<1>2. GetNode(t, id) = [t EXCEPT !.nodes = w]
  BY DEF GetNode
<1> HIDE DEF w
<1>3. GetNode(t, id) \in Trackers /\ GetNode(t, id).nodes = w
  BY <1>1, <1>2 DEF Trackers
<1>4. GetNode(t, id).instances = t.instances /\ GetNode(t, id).hosts = t.hosts
  BY <1>2 DEF Trackers
<1>5. QED
  BY <1>1, <1>3, <1>4 DEF SameNodes, NodeOf

(* A tracked node that is changed                                          *)
LEMMA PutNodeFacts ==
  ASSUME NEW t \in Trackers, NEW id \in DOMAIN t.nodes, NEW n \in NodeStates
  PROVE  /\ PutNode(t, id, n) \in Trackers
         /\ DOMAIN PutNode(t, id, n).nodes = DOMAIN t.nodes
         /\ NodeOf(PutNode(t, id, n), id) = n /\ PutNode(t, id, n).nodes[id] = n
         /\ Others(t, PutNode(t, id, n), id)
         /\ PutNode(t, id, n).instances = t.instances /\ PutNode(t, id, n).hosts = t.hosts
<1> DEFINE w == [t.nodes EXCEPT ![id] = n]
<1>1. /\ w \in Partial(Ids, NodeStates) /\ DOMAIN w = DOMAIN t.nodes
      /\ \A x \in DOMAIN t.nodes : w[x] = IF x = id THEN n ELSE t.nodes[x]
  BY TrackerFields, PutFacts
<1>2. PutNode(t, id, n) = [t EXCEPT !.nodes = w]
  BY DEF PutNode, Trackers
<1> HIDE DEF w
<1>3. PutNode(t, id, n) \in Trackers /\ PutNode(t, id, n).nodes = w
  BY <1>1, <1>2 DEF Trackers
<1>4. PutNode(t, id, n).instances = t.instances /\ PutNode(t, id, n).hosts = t.hosts
  BY <1>2 DEF Trackers
<1>5. QED
  BY <1>1, <1>3, <1>4 DEF Others, NodeOf

(* get_instance shows what was shown before                                *)
LEMMA GetInstanceFacts ==
  ASSUME NEW t \in Trackers, NEW i \in NodeProcesses
  PROVE  /\ GetInstance(t, i) \in Trackers /\ i \in DOMAIN GetInstance(t, i).instances
         /\ GetInstance(t, i).nodes = t.nodes /\ GetInstance(t, i).hosts = t.hosts
         /\ InstancesAreSound(t) => InstancesAreSound(GetInstance(t, i))
<1> DEFINE w == With(t.instances, i, NewInstanceState)
<1>1. /\ w \in Partial(NodeProcesses, InstanceStates) /\ DOMAIN w = DOMAIN t.instances \cup {i}
      /\ \A x \in DOMAIN t.instances : w[x] = t.instances[x]
      /\ i \notin DOMAIN t.instances => w[i] = NewInstanceState
  <2>1. /\ DOMAIN w = DOMAIN t.instances \cup {i} /\ w = [x \in DOMAIN w |-> w[x]]
        /\ \A x \in DOMAIN t.instances : w[x] = t.instances[x]
        /\ i \notin DOMAIN t.instances => w[i] = NewInstanceState
    BY DEF With
  <2>2. /\ DOMAIN t.instances \subseteq NodeProcesses /\ NewInstanceState \in InstanceStates
        /\ \A x \in DOMAIN t.instances : t.instances[x] \in InstanceStates
    BY TrackerFields, PartialIs, NewStates
  <2> HIDE DEF w
  <2>3. \A x \in DOMAIN w : w[x] \in InstanceStates
    BY <2>1, <2>2
  <2>4. w \in Partial(NodeProcesses, InstanceStates)
    BY <2>1, <2>2, <2>3, IsPartial
  <2>5. QED
    BY <2>1, <2>4
<1>2. GetInstance(t, i) = [t EXCEPT !.instances = w]
  BY DEF GetInstance
<1> HIDE DEF w
<1>3. GetInstance(t, i) \in Trackers /\ GetInstance(t, i).instances = w
  BY <1>1, <1>2 DEF Trackers
<1>4. GetInstance(t, i).nodes = t.nodes /\ GetInstance(t, i).hosts = t.hosts
  BY <1>2 DEF Trackers
<1>5. QED
  BY <1>1, <1>3, <1>4, NewStates DEF InstancesAreSound

(* A tracked instance that is changed                                      *)
LEMMA PutInstanceFacts ==
  ASSUME NEW t \in Trackers, NEW i \in DOMAIN t.instances, NEW s \in InstanceStates
  PROVE  /\ PutInstance(t, i, s) \in Trackers
         /\ DOMAIN PutInstance(t, i, s).instances = DOMAIN t.instances
         /\ PutInstance(t, i, s).instances[i] = s
         /\ PutInstance(t, i, s).nodes = t.nodes /\ PutInstance(t, i, s).hosts = t.hosts
         /\ InstancesAreSound(t) /\ InstanceIsSound(i, s) => InstancesAreSound(PutInstance(t, i, s))
<1> DEFINE w == [t.instances EXCEPT ![i] = s]
<1>1. /\ w \in Partial(NodeProcesses, InstanceStates) /\ DOMAIN w = DOMAIN t.instances
      /\ \A x \in DOMAIN t.instances : w[x] = IF x = i THEN s ELSE t.instances[x]
  BY TrackerFields, PutFacts
<1>2. PutInstance(t, i, s) = [t EXCEPT !.instances = w]
  BY DEF PutInstance, Trackers
<1> HIDE DEF w
<1>3. PutInstance(t, i, s) \in Trackers /\ PutInstance(t, i, s).instances = w
  BY <1>1, <1>2 DEF Trackers
<1>4. PutInstance(t, i, s).nodes = t.nodes /\ PutInstance(t, i, s).hosts = t.hosts
  BY <1>2 DEF Trackers
<1>5. QED
  BY <1>1, <1>3, <1>4 DEF InstancesAreSound

(* get_host shows what was shown before                                    *)
LEMMA GetHostFacts ==
  ASSUME NEW t \in Trackers, NEW h \in MaybeHosts
  PROVE  /\ GetHost(t, h) \in Trackers /\ h \in DOMAIN GetHost(t, h).hosts
         /\ GetHost(t, h).nodes = t.nodes /\ GetHost(t, h).instances = t.instances
         /\ HostsAreSound(t) => HostsAreSound(GetHost(t, h))
<1> DEFINE w == With(t.hosts, h, NewHostState)
<1>1. /\ w \in Partial(MaybeHosts, HostStates) /\ DOMAIN w = DOMAIN t.hosts \cup {h}
      /\ \A x \in DOMAIN t.hosts : w[x] = t.hosts[x]
      /\ h \notin DOMAIN t.hosts => w[h] = NewHostState
  <2>1. /\ DOMAIN w = DOMAIN t.hosts \cup {h} /\ w = [x \in DOMAIN w |-> w[x]]
        /\ \A x \in DOMAIN t.hosts : w[x] = t.hosts[x]
        /\ h \notin DOMAIN t.hosts => w[h] = NewHostState
    BY DEF With
  <2>2. /\ DOMAIN t.hosts \subseteq MaybeHosts /\ NewHostState \in HostStates
        /\ \A x \in DOMAIN t.hosts : t.hosts[x] \in HostStates
    BY TrackerFields, PartialIs, NewStates
  <2> HIDE DEF w
  <2>3. \A x \in DOMAIN w : w[x] \in HostStates
    BY <2>1, <2>2
  <2>4. w \in Partial(MaybeHosts, HostStates)
    BY <2>1, <2>2, <2>3, IsPartial
  <2>5. QED
    BY <2>1, <2>4
<1>2. GetHost(t, h) = [t EXCEPT !.hosts = w]
  BY DEF GetHost
<1> HIDE DEF w
<1>3. GetHost(t, h) \in Trackers /\ GetHost(t, h).hosts = w
  BY <1>1, <1>2 DEF Trackers
<1>4. GetHost(t, h).nodes = t.nodes /\ GetHost(t, h).instances = t.instances
  BY <1>2 DEF Trackers
<1>5. QED
  BY <1>1, <1>3, <1>4, NewStates DEF HostsAreSound

(* A tracked host that is changed                                          *)
LEMMA PutHostFacts ==
  ASSUME NEW t \in Trackers, NEW h \in DOMAIN t.hosts, NEW s \in HostStates
  PROVE  /\ PutHost(t, h, s) \in Trackers /\ DOMAIN PutHost(t, h, s).hosts = DOMAIN t.hosts
         /\ PutHost(t, h, s).nodes = t.nodes /\ PutHost(t, h, s).instances = t.instances
         /\ HostsAreSound(t) /\ HostIsSound(h, s) => HostsAreSound(PutHost(t, h, s))
<1> DEFINE w == [t.hosts EXCEPT ![h] = s]
<1>1. /\ w \in Partial(MaybeHosts, HostStates) /\ DOMAIN w = DOMAIN t.hosts
      /\ \A x \in DOMAIN t.hosts : w[x] = IF x = h THEN s ELSE t.hosts[x]
  BY TrackerFields, PutFacts
<1>2. PutHost(t, h, s) = [t EXCEPT !.hosts = w]
  BY DEF PutHost, Trackers
<1> HIDE DEF w
<1>3. PutHost(t, h, s) \in Trackers /\ PutHost(t, h, s).hosts = w
  BY <1>1, <1>2 DEF Trackers
<1>4. PutHost(t, h, s).nodes = t.nodes /\ PutHost(t, h, s).instances = t.instances
  BY <1>2 DEF Trackers
<1>5. QED
  BY <1>1, <1>3, <1>4 DEF HostsAreSound

(* The tracked instance or host is in the set of its states.               *)
LEMMA StateTypes ==
  ASSUME NEW t \in Trackers
  PROVE  /\ \A id \in DOMAIN t.nodes : id \in Ids /\ t.nodes[id] \in NodeStates
         /\ \A i \in DOMAIN t.instances : i \in NodeProcesses /\ t.instances[i] \in InstanceStates
         /\ \A h \in DOMAIN t.hosts : h \in MaybeHosts /\ t.hosts[h] \in HostStates
BY TrackerFields, PartialIs


-----------------------------------------------------------------------------
(* What each change of the tracker keeps.                                  *)

SameIdentity(m, n) == n.instance = m.instance /\ n.info = m.info /\ n.host = m.host

\* r is like t but for what is not shown of the node
Alike(t, r, id) ==
    /\ r \in Trackers /\ Others(t, r, id) /\ SameIdentity(NodeOf(t, id), NodeOf(r, id))

(* What is alike is as sound as before                                     *)
LEMMA AlikeSound ==
  ASSUME NEW t, NEW r, NEW id \in Ids, Alike(t, r, id), NodesAreSound(t)
  PROVE  NodesAreSound(r)
<1>1. ASSUME NEW x \in Ids PROVE NodeIsSound(NodeOf(r, x))
  <2>1. NodeIsSound(NodeOf(t, x))
    BY DEF NodesAreSound
  <2>2. CASE x = id
    BY <2>1, <2>2 DEF Alike, SameIdentity, NodeIsSound
  <2>3. CASE x # id
    BY <2>1, <2>3 DEF Alike, Others
  <2>4. QED
    BY <2>2, <2>3
<1>2. QED
  BY <1>1 DEF NodesAreSound

(* Two such changes after each other                                       *)
LEMMA AlikeTwice ==
  ASSUME NEW t, NEW u, NEW r, NEW id \in Ids, Alike(t, u, id), Alike(u, r, id)
  PROVE  Alike(t, r, id)
BY DEF Alike, Others, SameIdentity

\* With the same nodes, all is alike
LEMMA SameNodesAlike ==
  ASSUME NEW t, NEW r \in Trackers, NEW id \in Ids, SameNodes(t, r)
  PROVE  Alike(t, r, id)
BY DEF Alike, Others, SameIdentity, SameNodes

(* The same map shows the same nodes                                       *)
LEMMA NodesSame ==
  ASSUME NEW t, NEW r, r.nodes = t.nodes
  PROVE  SameNodes(t, r) /\ \A id : NodeOf(r, id) = NodeOf(t, id)
BY DEF SameNodes, NodeOf

(* The outcomes of the last pings stay numbers                             *)
LEMMA ShiftedType ==
  ASSUME NEW bits \in Nat, NEW alive \in BOOLEAN
  PROVE  Shifted(bits, alive) \in Nat
<1>1. PingStates \in Nat \ {0}
  BY TrackerAssumption
<1>2. 2 * bits + (IF alive THEN 1 ELSE 0) \in Nat
  OBVIOUS
<1>3. QED
  BY <1>1, <1>2 DEF Shifted

(* The answer to a ping changes nothing that is shown of the node          *)
LEMMA PingResponseFacts ==
  ASSUME NEW t \in Trackers, NEW id \in Ids
  PROVE  /\ Alike(t, PingResponse(t, id), id) /\ id \in DOMAIN PingResponse(t, id).nodes
         /\ PingResponse(t, id).instances = t.instances /\ PingResponse(t, id).hosts = t.hosts
<1> DEFINE g == GetNode(t, id)
           n == [g.nodes[id] EXCEPT !.pingBits = Shifted(@, TRUE)]
<1>1. /\ g \in Trackers /\ id \in DOMAIN g.nodes /\ g.nodes[id] = NodeOf(t, id) /\ SameNodes(t, g)
      /\ g.instances = t.instances /\ g.hosts = t.hosts
  BY GetNodeFacts
<1>2. g.nodes[id] \in NodeStates
  BY <1>1, StateTypes
<1>3. Shifted(g.nodes[id].pingBits, TRUE) \in Nat
  BY <1>2, ShiftedType DEF NodeStates
<1>4. n \in NodeStates /\ SameIdentity(g.nodes[id], n)
  BY <1>2, <1>3 DEF NodeStates, SameIdentity
<1>5. PingResponse(t, id) = PutNode(g, id, n)
  BY DEF PingResponse, PutNode
<1> HIDE DEF g, n
<1>6. /\ PutNode(g, id, n) \in Trackers /\ DOMAIN PutNode(g, id, n).nodes = DOMAIN g.nodes
      /\ NodeOf(PutNode(g, id, n), id) = n /\ Others(g, PutNode(g, id, n), id)
      /\ PutNode(g, id, n).instances = g.instances /\ PutNode(g, id, n).hosts = g.hosts
  BY <1>1, <1>4, PutNodeFacts
<1>7. NodeOf(g, id) = g.nodes[id] /\ NodeOf(g, id) = NodeOf(t, id)
  BY <1>1 DEF NodeOf, SameNodes
<1>8. QED
  BY <1>1, <1>4, <1>5, <1>6, <1>7 DEF Alike, Others, SameNodes, SameIdentity

(* notice_alive of an instance changes nothing that is known of it         *)
LEMMA NoticeInstanceFacts ==
  ASSUME NEW t \in Trackers, NEW i \in NodeProcesses
  PROVE  /\ NoticeInstance(t, i) \in Trackers /\ i \in DOMAIN NoticeInstance(t, i).instances
         /\ NoticeInstance(t, i).nodes = t.nodes /\ NoticeInstance(t, i).hosts = t.hosts
         /\ InstancesAreSound(t) => InstancesAreSound(NoticeInstance(t, i))
<1> DEFINE g == GetInstance(t, i)
           s == [g.instances[i] EXCEPT !.changes = IF g.instances[i].expired THEN @ ELSE @ \cup {"started"},
                                       !.expired = FALSE]
<1>1. /\ g \in Trackers /\ i \in DOMAIN g.instances /\ g.nodes = t.nodes /\ g.hosts = t.hosts
      /\ InstancesAreSound(t) => InstancesAreSound(g)
  BY GetInstanceFacts
<1>2. g.instances[i] \in InstanceStates
  BY <1>1, StateTypes
<1>3. /\ s \in InstanceStates
      /\ InstanceIsSound(i, g.instances[i]) => InstanceIsSound(i, s)
  BY <1>2 DEF InstanceStates, InstanceIsSound, ChangeKinds
<1>4. NoticeInstance(t, i) = PutInstance(g, i, s)
  BY DEF NoticeInstance, PutInstance
<1> HIDE DEF g, s
<1>5. InstancesAreSound(g) => InstanceIsSound(i, g.instances[i])
  BY <1>1 DEF InstancesAreSound
<1>6. /\ PutInstance(g, i, s) \in Trackers /\ DOMAIN PutInstance(g, i, s).instances = DOMAIN g.instances
      /\ PutInstance(g, i, s).nodes = g.nodes /\ PutInstance(g, i, s).hosts = g.hosts
      /\ InstancesAreSound(g) /\ InstanceIsSound(i, s) => InstancesAreSound(PutInstance(g, i, s))
  BY <1>1, <1>3, PutInstanceFacts
<1>7. QED
  BY <1>1, <1>3, <1>4, <1>5, <1>6

(* notice_alive of a host changes nothing that is known of it              *)
LEMMA NoticeHostFacts ==
  ASSUME NEW t \in Trackers, NEW h \in MaybeHosts
  PROVE  /\ NoticeHost(t, h) \in Trackers /\ h \in DOMAIN NoticeHost(t, h).hosts
         /\ NoticeHost(t, h).nodes = t.nodes /\ NoticeHost(t, h).instances = t.instances
         /\ HostsAreSound(t) => HostsAreSound(NoticeHost(t, h))
<1> DEFINE g == GetHost(t, h)
           s == [g.hosts[h] EXCEPT !.expired = FALSE]
<1>1. /\ g \in Trackers /\ h \in DOMAIN g.hosts /\ g.nodes = t.nodes /\ g.instances = t.instances
      /\ HostsAreSound(t) => HostsAreSound(g)
  BY GetHostFacts
<1>2. g.hosts[h] \in HostStates
  BY <1>1, StateTypes
<1>3. s \in HostStates /\ (HostIsSound(h, g.hosts[h]) => HostIsSound(h, s))
  BY <1>2 DEF HostStates, HostIsSound
<1>4. NoticeHost(t, h) = PutHost(g, h, s)
  BY DEF NoticeHost, PutHost
<1> HIDE DEF g, s
<1>5. HostsAreSound(g) => HostIsSound(h, g.hosts[h])
  BY <1>1 DEF HostsAreSound
<1>6. /\ PutHost(g, h, s) \in Trackers /\ DOMAIN PutHost(g, h, s).hosts = DOMAIN g.hosts
      /\ PutHost(g, h, s).nodes = g.nodes /\ PutHost(g, h, s).instances = g.instances
      /\ HostsAreSound(g) /\ HostIsSound(h, s) => HostsAreSound(PutHost(g, h, s))
  BY <1>1, <1>3, PutHostFacts
<1>7. QED
  BY <1>1, <1>3, <1>4, <1>5, <1>6

(* notice_alive of a node changes nothing that is shown of it              *)
LEMMA NoticeNodeFacts ==
  ASSUME NEW t \in Trackers, NEW id \in Ids
  PROVE  /\ Alike(t, NoticeNode(t, id), id) /\ id \in DOMAIN NoticeNode(t, id).nodes
         /\ NoticeNode(t, id).hosts = t.hosts
         /\ InstancesAreSound(t) => InstancesAreSound(NoticeNode(t, id))
<1> DEFINE u == PingResponse(t, id)
           i == u.nodes[id].instance
           g == GetInstance(u, i)
           s == [g.instances[i] EXCEPT !.changes = @ \cup {"started"}]
<1>1. /\ Alike(t, u, id) /\ id \in DOMAIN u.nodes /\ u.instances = t.instances /\ u.hosts = t.hosts
      /\ u \in Trackers
  BY PingResponseFacts DEF Alike
<1>2. InstancesAreSound(t) => InstancesAreSound(u)
  BY <1>1 DEF InstancesAreSound
<1>3. NoticeNode(t, id) = u \/ (i # Nothing /\ NoticeNode(t, id) = PutInstance(g, i, s))
  BY DEF NoticeNode, PutInstance
<1>4. i \in MaybeProcesses
  BY <1>1, StateTypes DEF NodeStates
<1> HIDE DEF u, i
<1>5. CASE i # Nothing
  <2>1. i \in NodeProcesses
    BY <1>4, <1>5 DEF MaybeProcesses
  <2>2. /\ g \in Trackers /\ i \in DOMAIN g.instances /\ g.nodes = u.nodes /\ g.hosts = u.hosts
        /\ InstancesAreSound(u) => InstancesAreSound(g)
    BY <1>1, <2>1, GetInstanceFacts
  <2>3. g.instances[i] \in InstanceStates
    BY <2>2, StateTypes
  <2>4. s \in InstanceStates /\ (InstanceIsSound(i, g.instances[i]) => InstanceIsSound(i, s))
    BY <2>3 DEF InstanceStates, InstanceIsSound, ChangeKinds
  <2> HIDE DEF g, s
  <2> DEFINE r == PutInstance(g, i, s)
  <2>5. InstancesAreSound(g) => InstanceIsSound(i, g.instances[i])
    BY <2>2 DEF InstancesAreSound
  <2>6. /\ r \in Trackers /\ DOMAIN r.instances = DOMAIN g.instances
        /\ r.nodes = g.nodes /\ r.hosts = g.hosts
        /\ InstancesAreSound(g) /\ InstanceIsSound(i, s) => InstancesAreSound(r)
    BY <2>2, <2>4, PutInstanceFacts
  <2> HIDE DEF r
  <2>7. Alike(u, r, id)
    BY <2>2, <2>6, NodesSame, SameNodesAlike
  <2>8. Alike(t, r, id)
    BY <1>1, <2>7, AlikeTwice
  <2>9. QED
    BY <1>1, <1>2, <1>3, <2>2, <2>4, <2>5, <2>6, <2>8 DEF r
<1>6. CASE i = Nothing
  BY <1>1, <1>2, <1>3, <1>6
<1>7. QED
  BY <1>5, <1>6


(* An instance that gets its own host stays sound                          *)
LEMMA SetInstanceHostFacts ==
  ASSUME NEW t \in Trackers, NEW i \in NodeProcesses, NEW h \in MaybeHosts
  PROVE  /\ SetInstanceHost(t, i, h) \in Trackers
         /\ SetInstanceHost(t, i, h).nodes = t.nodes /\ SetInstanceHost(t, i, h).hosts = t.hosts
         /\ InstancesAreSound(t) /\ h \in {Nothing, HostOf(i)}
              => InstancesAreSound(SetInstanceHost(t, i, h))
<1> DEFINE g == GetInstance(t, i)
           s == [g.instances[i] EXCEPT !.host = h]
           ok == h \in {Nothing, HostOf(i)}
<1>1. /\ g \in Trackers /\ i \in DOMAIN g.instances /\ g.nodes = t.nodes /\ g.hosts = t.hosts
      /\ InstancesAreSound(t) => InstancesAreSound(g)
  BY GetInstanceFacts
<1>2. g.instances[i] \in InstanceStates
  BY <1>1, StateTypes
<1>3. /\ s \in InstanceStates
      /\ InstanceIsSound(i, g.instances[i]) /\ ok => InstanceIsSound(i, s)
  BY <1>2 DEF InstanceStates, InstanceIsSound
<1>4. SetInstanceHost(t, i, h) = PutInstance(g, i, s)
  BY DEF SetInstanceHost, PutInstance
<1> HIDE DEF g, s
<1>5. InstancesAreSound(g) => InstanceIsSound(i, g.instances[i])
  BY <1>1 DEF InstancesAreSound
<1>6. /\ PutInstance(g, i, s) \in Trackers
      /\ PutInstance(g, i, s).nodes = g.nodes /\ PutInstance(g, i, s).hosts = g.hosts
      /\ InstancesAreSound(g) /\ InstanceIsSound(i, s) => InstancesAreSound(PutInstance(g, i, s))
  BY <1>1, <1>3, PutInstanceFacts
<1>7. QED
  BY <1>1, <1>3, <1>4, <1>5, <1>6

\* A change of the node: another kind, whether it can be pinged, or its info
LEMMA SetNodeFacts ==
  ASSUME NEW t \in Trackers, NEW id \in DOMAIN t.nodes, NEW n \in NodeStates,
         NEW r, r = PutNode(t, id, n), n.instance = NodeOf(t, id).instance
  PROVE  /\ r \in Trackers /\ Others(t, r, id) /\ InstanceOf(r, id) = InstanceOf(t, id)
         /\ IsSound(t) /\ NodeIsSound(n) => IsSound(r)
<1>1. /\ r \in Trackers /\ NodeOf(r, id) = n /\ Others(t, r, id)
      /\ r.instances = t.instances /\ r.hosts = t.hosts
  BY PutNodeFacts
<1>2. InstanceOf(r, id) = InstanceOf(t, id)
  BY <1>1 DEF InstanceOf
<1>3. NodesAreSound(t) /\ NodeIsSound(n) => NodesAreSound(r)
  BY <1>1 DEF NodesAreSound, Others
<1>4. QED
  BY <1>1, <1>2, <1>3 DEF IsSound, InstancesAreSound, HostsAreSound

\* r is like t but for the node, which is of the same instance
Keeps(t, r, id) ==
    /\ r \in Trackers /\ Others(t, r, id) /\ InstanceOf(r, id) = InstanceOf(t, id)
    /\ IsSound(t) => IsSound(r)

(* Two changes that keep the instance, after each other                    *)
LEMMA KeepsTwice ==
  ASSUME NEW t, NEW u, NEW r, NEW id \in Ids, Keeps(t, u, id), Keeps(u, r, id)
  PROVE  Keeps(t, r, id)
BY DEF Keeps, Others

(* A node that is made keeps all instances                                 *)
LEMMA GetNodeKeeps ==
  ASSUME NEW t \in Trackers, NEW id \in Ids, NEW x \in Ids
  PROVE  Keeps(t, GetNode(t, x), id)
<1>1. /\ GetNode(t, x) \in Trackers /\ SameNodes(t, GetNode(t, x))
      /\ GetNode(t, x).instances = t.instances /\ GetNode(t, x).hosts = t.hosts
  BY GetNodeFacts
<1>2. Others(t, GetNode(t, x), id) /\ InstanceOf(GetNode(t, x), id) = InstanceOf(t, id)
  BY <1>1 DEF SameNodes, Others, InstanceOf
<1>3. NodesAreSound(t) => NodesAreSound(GetNode(t, x))
  BY <1>1 DEF NodesAreSound, SameNodes
<1>4. QED
  BY <1>1, <1>2, <1>3 DEF Keeps, IsSound, InstancesAreSound, HostsAreSound

(* A node that is noticed keeps its instance                               *)
LEMMA NoticeNodeKeeps ==
  ASSUME NEW t \in Trackers, NEW id \in Ids
  PROVE  Keeps(t, NoticeNode(t, id), id) /\ id \in DOMAIN NoticeNode(t, id).nodes
<1>1. /\ Alike(t, NoticeNode(t, id), id) /\ id \in DOMAIN NoticeNode(t, id).nodes
      /\ NoticeNode(t, id).hosts = t.hosts
      /\ InstancesAreSound(t) => InstancesAreSound(NoticeNode(t, id))
  BY NoticeNodeFacts
<1>2. NodesAreSound(t) => NodesAreSound(NoticeNode(t, id))
  BY <1>1, AlikeSound
<1>3. QED
  BY <1>1, <1>2 DEF Keeps, Alike, SameIdentity, InstanceOf, IsSound, HostsAreSound

(* A node that answers a ping keeps its instance                           *)
LEMMA PingResponseKeeps ==
  ASSUME NEW t \in Trackers, NEW id \in Ids
  PROVE  Keeps(t, PingResponse(t, id), id)
<1>1. /\ Alike(t, PingResponse(t, id), id)
      /\ PingResponse(t, id).instances = t.instances /\ PingResponse(t, id).hosts = t.hosts
  BY PingResponseFacts
<1>2. NodesAreSound(t) => NodesAreSound(PingResponse(t, id))
  BY <1>1, AlikeSound
<1>3. QED
  BY <1>1, <1>2 DEF Keeps, Alike, SameIdentity, InstanceOf, IsSound, InstancesAreSound, HostsAreSound

\* What leaves the nodes alone
LEMMA SameNodesKeep ==
  ASSUME NEW t, NEW r \in Trackers, NEW id \in Ids, r.nodes = t.nodes,
         IsSound(t) => InstancesAreSound(r) /\ HostsAreSound(r)
  PROVE  Keeps(t, r, id)
<1>1. \A x : NodeOf(r, x) = NodeOf(t, x)
  BY NodesSame
<1>2. QED
  BY <1>1 DEF Keeps, Others, InstanceOf, IsSound, NodesAreSound

(* A node that gets its kind keeps its instance                            *)
LEMMA SetKindKeeps ==
  ASSUME NEW t \in Trackers, NEW id \in DOMAIN t.nodes, NEW as \in {"router", "endpoint"}
  PROVE  Keeps(t, SetKind(t, id, as), id)
<1> DEFINE n == [t.nodes[id] EXCEPT !.kind = as]
<1>1. t.nodes[id] \in NodeStates /\ NodeOf(t, id) = t.nodes[id] /\ id \in Ids
  BY StateTypes DEF NodeOf
<1>2. /\ n \in NodeStates /\ n.instance = NodeOf(t, id).instance
      /\ NodeIsSound(NodeOf(t, id)) => NodeIsSound(n)
  BY <1>1 DEF NodeStates, NodeIsSound
<1>3. SetKind(t, id, as) = PutNode(t, id, n)
  BY DEF SetKind, PutNode
<1> HIDE DEF n
<1>4. QED
  BY <1>1, <1>2, <1>3, SetNodeFacts DEF Keeps, IsSound, NodesAreSound

(* A node that can be pinged, or not, keeps its instance                   *)
LEMMA SetPingableKeeps ==
  ASSUME NEW t \in Trackers, NEW id \in DOMAIN t.nodes, NEW pingable \in {"yes", "no"}
  PROVE  Keeps(t, SetPingable(t, id, pingable), id)
<1> DEFINE n == [t.nodes[id] EXCEPT !.pingable = pingable]
<1>1. t.nodes[id] \in NodeStates /\ NodeOf(t, id) = t.nodes[id] /\ id \in Ids
  BY StateTypes DEF NodeOf
<1>2. /\ n \in NodeStates /\ n.instance = NodeOf(t, id).instance
      /\ NodeIsSound(NodeOf(t, id)) => NodeIsSound(n)
  BY <1>1 DEF NodeStates, NodeIsSound
<1>3. SetPingable(t, id, pingable) = PutNode(t, id, n)
  BY DEF SetPingable, PutNode
<1> HIDE DEF n
<1>4. QED
  BY <1>1, <1>2, <1>3, SetNodeFacts DEF Keeps, IsSound, NodesAreSound

(* notice_instance: the node is of the instance it was noticed with        *)
LEMMA NoticeFacts ==
  ASSUME NEW t \in Trackers, NEW id \in Ids, NEW i \in NodeProcesses
  PROVE  /\ Notice(t, id, i) \in Trackers /\ Others(t, Notice(t, id, i), id)
         /\ id \in DOMAIN Notice(t, id, i).nodes /\ InstanceOf(Notice(t, id, i), id) = i
         /\ IsSound(t) => IsSound(Notice(t, id, i))
<1> DEFINE found == GetNode(t, id)
           held == found.nodes[id]
           Named(n) == [n EXCEPT !.instance = i, !.newInstance = TRUE]
           first == PutNode(found, id, Named(held))
           cleared == [found EXCEPT !.connections = {c \in @ : id \notin c}]
           again == PutNode(cleared, id, Named(NewNodeState))
           hosted == SetInstanceHost(NoticeInstance(first, i), i, held.host)
           Fits(u) == /\ u \in Trackers /\ Others(t, u, id) /\ id \in DOMAIN u.nodes
                      /\ InstanceOf(u, id) = i
                      /\ IsSound(t) => IsSound(u)
<1>1. /\ found \in Trackers /\ id \in DOMAIN found.nodes /\ held = NodeOf(t, id)
      /\ SameNodes(t, found) /\ found.instances = t.instances /\ found.hosts = t.hosts
  BY GetNodeFacts
<1>2. held \in NodeStates /\ i \in MaybeProcesses /\ i # Nothing
  BY <1>1, StateTypes, ProcessIsSomething DEF MaybeProcesses
<1>3. \E noticed : Notice(t, id, i) = NoticeNode(noticed, id) /\
        \/ held.instance = i /\ noticed = NoticeInstance(found, i)
        \/ held.instance = Nothing /\ held.host = Nothing /\ noticed = first
        \/ held.instance = Nothing /\ held.host # Nothing /\ noticed = hosted
        \/ held.instance # Nothing /\ noticed = again
  <2>1. CASE held.instance = i
    BY <1>2, <2>1 DEF Notice
  <2>2. CASE held.instance = Nothing
    BY <1>2, <2>2 DEF Notice, PutNode
  <2>3. CASE held.instance # i /\ held.instance # Nothing
    BY <1>2, <2>3 DEF Notice, PutNode
  <2>4. QED
    BY <2>1, <2>2, <2>3
<1> HIDE DEF found
<1>4. IsSound(t) => IsSound(found)
  BY <1>1 DEF IsSound, NodesAreSound, SameNodes, InstancesAreSound, HostsAreSound
<1>5. NodeOf(found, id) = held /\ \A u : Others(found, u, id) => Others(t, u, id)
  BY <1>1 DEF NodeOf, SameNodes, Others
<1> HIDE DEF held
<1>6. ASSUME held.instance = i PROVE Fits(NoticeInstance(found, i))
  <2>1. /\ NoticeInstance(found, i) \in Trackers
        /\ NoticeInstance(found, i).nodes = found.nodes /\ NoticeInstance(found, i).hosts = found.hosts
        /\ InstancesAreSound(found) => InstancesAreSound(NoticeInstance(found, i))
    BY <1>1, NoticeInstanceFacts
  <2>2. Keeps(found, NoticeInstance(found, i), id)
    BY <2>1, SameNodesKeep DEF IsSound, HostsAreSound
  <2>3. InstanceOf(found, id) = i
    BY <1>5, <1>6 DEF InstanceOf
  <2>4. Fits(NoticeInstance(found, i))
    BY <1>1, <1>4, <1>5, <2>1, <2>2, <2>3 DEF Keeps
  <2>5. QED
    BY <2>4
<1>7. /\ first \in Trackers /\ Others(found, first, id) /\ id \in DOMAIN first.nodes
      /\ NodeOf(first, id) = Named(held) /\ first.instances = found.instances /\ first.hosts = found.hosts
      /\ InstanceOf(first, id) = i
  <2>1. Named(held) \in NodeStates /\ Named(held).instance = i
    BY <1>2 DEF NodeStates
  <2> HIDE DEF Named
  <2>2. QED
    BY <1>1, <2>1, PutNodeFacts DEF InstanceOf
<1>8. ASSUME held.instance = Nothing, held.host = Nothing PROVE Fits(first)
  <2>1. NodeIsSound(held) => NodeIsSound(Named(held))
    BY <1>2, <1>8 DEF NodeIsSound, NodeStates
  <2> HIDE DEF Named, first
  <2>2. NodesAreSound(found) => NodesAreSound(first)
    BY <1>5, <1>7, <2>1 DEF NodesAreSound, Others
  <2>3. Fits(first)
    BY <1>4, <1>5, <1>7, <2>2 DEF IsSound, InstancesAreSound, HostsAreSound
  <2>4. QED
    BY <2>3
<1>9. ASSUME held.instance = Nothing, held.host # Nothing PROVE Fits(hosted)
  <2>1. ~IsSound(t)
    BY <1>4, <1>5, <1>9 DEF IsSound, NodesAreSound, NodeIsSound
  <2> HIDE DEF Named, first
  <2>2. NoticeInstance(first, i) \in Trackers /\ NoticeInstance(first, i).nodes = first.nodes
    BY <1>7, NoticeInstanceFacts
  <2>3. held.host \in MaybeHosts
    BY <1>2 DEF NodeStates
  <2>4. hosted \in Trackers /\ hosted.nodes = first.nodes
    BY <2>2, <2>3, SetInstanceHostFacts
  <2> HIDE DEF hosted
  <2>5. Fits(hosted)
    BY <1>5, <1>7, <2>1, <2>4, NodesSame DEF Others, InstanceOf
  <2>6. QED
    BY <2>5
<1>10. ASSUME held.instance # Nothing PROVE Fits(again)
  <2>1. /\ cleared \in Trackers /\ cleared.nodes = found.nodes
        /\ cleared.instances = found.instances /\ cleared.hosts = found.hosts
    BY <1>1 DEF Trackers
  <2> HIDE DEF cleared
  <2>2. /\ Named(NewNodeState) \in NodeStates /\ Named(NewNodeState).instance = i
        /\ NodeIsSound(Named(NewNodeState))
    BY <1>2 DEF NewNodeState, NodeStates, NodeIsSound, MaybeProcesses, MaybeHosts
  <2> HIDE DEF Named
  <2>3. /\ again \in Trackers /\ Others(cleared, again, id) /\ DOMAIN again.nodes = DOMAIN cleared.nodes
        /\ NodeOf(again, id) = Named(NewNodeState)
        /\ again.instances = cleared.instances /\ again.hosts = cleared.hosts
    BY <1>1, <2>1, <2>2, PutNodeFacts
  <2> HIDE DEF again
  <2>4. Others(found, again, id) /\ InstanceOf(again, id) = i
    BY <2>1, <2>2, <2>3, NodesSame DEF Others, InstanceOf
  <2>5. NodesAreSound(found) => NodesAreSound(again)
    BY <2>2, <2>3, <2>4 DEF NodesAreSound, Others
  <2>6. Fits(again)
    BY <1>1, <1>4, <1>5, <2>1, <2>3, <2>4, <2>5 DEF IsSound, InstancesAreSound, HostsAreSound
  <2>7. QED
    BY <2>6
<1> HIDE DEF first, again, hosted, Fits
<1>11. PICK noticed : Notice(t, id, i) = NoticeNode(noticed, id) /\ Fits(noticed)
  BY <1>3, <1>6, <1>8, <1>9, <1>10
<1>12. Keeps(noticed, Notice(t, id, i), id) /\ id \in DOMAIN Notice(t, id, i).nodes
  BY <1>11, NoticeNodeKeeps DEF Fits
<1>13. QED
  BY <1>11, <1>12 DEF Fits, Keeps, Others


-----------------------------------------------------------------------------
(* The handlers of the messages.                                           *)

\* What a handler makes of a tracker: the node is of the instance
Noticed(t, r, id, inst) ==
    /\ r \in Trackers /\ Others(t, r, id) /\ InstanceOf(r, id) = inst
    /\ IsSound(t) => IsSound(r)

\* What is told is of a process: it is sound if that is the node's instance
Tells(t, r, id, p) ==
    /\ r \in Trackers /\ Others(t, r, id) /\ InstanceOf(r, id) = InstanceOf(t, id)
    /\ IsSound(t) /\ InstanceOf(t, id) = p => IsSound(r)

(* What was noticed stays so                                               *)
LEMMA NoticedThenKept ==
  ASSUME NEW t, NEW u, NEW r, NEW id \in Ids, NEW inst, Noticed(t, u, id, inst), Keeps(u, r, id)
  PROVE  Noticed(t, r, id, inst)
BY DEF Noticed, Keeps, Others

(* What is told after a change that keeps the instance                     *)
LEMMA KeptThenTold ==
  ASSUME NEW t, NEW u, NEW r, NEW id \in Ids, NEW p, Keeps(t, u, id), Tells(u, r, id, p)
  PROVE  Tells(t, r, id, p)
BY DEF Tells, Keeps, Others

(* What is told before a change that keeps the instance                    *)
LEMMA ToldThenKept ==
  ASSUME NEW t, NEW u, NEW r, NEW id \in Ids, NEW p, Tells(t, u, id, p), Keeps(u, r, id)
  PROVE  Tells(t, r, id, p)
BY DEF Tells, Keeps, Others

(* What keeps the instance tells nothing that is wrong                     *)
LEMMA KeptIsTold ==
  ASSUME NEW t, NEW r, NEW id, NEW p, Keeps(t, r, id)
  PROVE  Tells(t, r, id, p)
BY DEF Tells, Keeps

(* get_connection keeps the instances of its nodes                         *)
LEMMA GetConnectionKeeps ==
  ASSUME NEW t \in Trackers, NEW a \in Ids, NEW b \in Ids, NEW id \in Ids
  PROVE  Keeps(t, GetConnection(t, a, b), id)
<1> DEFINE c == [t EXCEPT !.connections = @ \cup {{a, b}}]
           g == GetNode(c, a)
           r == GetNode(g, b)
<1>1. c \in Trackers /\ c.nodes = t.nodes /\ c.instances = t.instances /\ c.hosts = t.hosts
  BY DEF Trackers
<1>2. Keeps(t, c, id)
  BY <1>1, SameNodesKeep DEF IsSound, InstancesAreSound, HostsAreSound
<1>3. Keeps(t, t, id)
  BY DEF Keeps, Others
<1>4. GetConnection(t, a, b) \in {t, r}
  BY DEF GetConnection
<1> HIDE DEF c
<1>5. Keeps(c, g, id)
  BY <1>1, GetNodeKeeps
<1>6. g \in Trackers
  BY <1>5 DEF Keeps
<1> HIDE DEF g
<1>7. Keeps(g, r, id)
  BY <1>6, GetNodeKeeps
<1> HIDE DEF r
<1>8. QED
  BY <1>2, <1>3, <1>4, <1>5, <1>7, KeepsTwice

(* A node is a router or an endpoint                                       *)
LEMMA KindType == \A id : Kind(id) \in {"router", "endpoint"}
BY DEF Kind

(* on_alive: the node is of the process that told it                       *)
LEMMA HandleAliveFacts ==
  ASSUME NEW t \in Trackers, NEW id \in Ids, NEW p \in NodeProcesses, NEW as \in {"router", "endpoint"}
  PROVE  Noticed(t, SetKind(Notice(t, id, p), id, as), id, p)
<1>1. Noticed(t, Notice(t, id, p), id, p) /\ id \in DOMAIN Notice(t, id, p).nodes
  BY NoticeFacts DEF Noticed
<1>2. Keeps(Notice(t, id, p), SetKind(Notice(t, id, p), id, as), id)
  BY <1>1, SetKindKeeps DEF Noticed
<1>3. QED
  BY <1>1, <1>2, NoticedThenKept

(* on_subscribed, on_unsubscribed: the node is of the process that told it *)
LEMMA HandleSubscriptionFacts ==
  ASSUME NEW t \in Trackers, NEW id \in Ids, NEW p \in NodeProcesses, NEW pingable \in {"yes", "no"}
  PROVE  Noticed(t, HandleSubscription(t, id, p, pingable), id, p)
<1>1. Noticed(t, Notice(t, id, p), id, p) /\ id \in DOMAIN Notice(t, id, p).nodes
  BY NoticeFacts DEF Noticed
<1>2. Keeps(Notice(t, id, p), SetPingable(Notice(t, id, p), id, pingable), id)
  BY <1>1, SetPingableKeeps DEF Noticed
<1>3. QED
  BY <1>1, <1>2, NoticedThenKept DEF HandleSubscription

(* The topology: the node is of the process that told it                   *)
LEMMA HandleTopologyFacts ==
  ASSUME NEW t \in Trackers, NEW id \in Ids, NEW m, m.from \in NodeProcesses, m.remote \in Ids
  PROVE  Noticed(t, HandleTopology(t, id, m), id, m.from)
<1> DEFINE u == SetKind(Notice(t, id, m.from), id, Kind(id))
<1>1. Noticed(t, u, id, m.from)
  BY KindType, HandleAliveFacts
<1>2. HandleTopology(t, id, m) \in {u, GetConnection(u, id, m.remote)}
  BY DEF HandleTopology
<1>3. u \in Trackers
  BY <1>1 DEF Noticed
<1> HIDE DEF u
<1>4. Keeps(u, GetConnection(u, id, m.remote), id)
  BY <1>3, GetConnectionKeeps
<1>5. QED
  BY <1>1, <1>2, <1>4, NoticedThenKept

(* A bye-bye: the node is of no process                                    *)
LEMMA HandleByeFacts ==
  ASSUME NEW t \in Trackers, NEW id \in Ids
  PROVE  Noticed(t, HandleBye(t, id), id, Nothing)
<1> DEFINE w == Restrict(t.nodes, DOMAIN t.nodes \ {id})
           r == HandleBye(t, id)
<1>1. /\ DOMAIN w = DOMAIN t.nodes \ {id} /\ w = [x \in DOMAIN w |-> w[x]]
      /\ \A x \in DOMAIN w : w[x] = t.nodes[x]
  BY DEF Restrict
<1>2. DOMAIN t.nodes \subseteq Ids /\ \A x \in DOMAIN t.nodes : t.nodes[x] \in NodeStates
  BY StateTypes
<1>3. r = [t EXCEPT !.nodes = w]
  BY DEF HandleBye
<1> HIDE DEF w, r
<1>4. w \in Partial(Ids, NodeStates)
  BY <1>1, <1>2, IsPartial
<1>5. r \in Trackers /\ r.nodes = w /\ r.instances = t.instances /\ r.hosts = t.hosts
  BY <1>3, <1>4 DEF Trackers
<1>6. Others(t, r, id) /\ NodeOf(r, id) = NewNodeState
  BY <1>1, <1>5 DEF Others, NodeOf
<1>7. NodesAreSound(t) => NodesAreSound(r)
  BY <1>6, NewStates DEF NodesAreSound, Others
<1>8. QED
  BY <1>5, <1>6, <1>7, NewStates
     DEF r, Noticed, InstanceOf, IsSound, InstancesAreSound, HostsAreSound

(* Statistics keep the instance of the node                                *)
LEMMA HandleStatsFacts ==
  ASSUME NEW t \in Trackers, NEW id \in Ids
  PROVE  Keeps(t, HandleStats(t, id), id)
<1> DEFINE g == GetNode(t, id)
           u == SetKind(g, id, Kind(id))
<1>1. Keeps(t, g, id) /\ g \in Trackers /\ id \in DOMAIN g.nodes
  BY GetNodeKeeps, GetNodeFacts
<1>2. HandleStats(t, id) = NoticeNode(u, id)
  BY DEF HandleStats, SetStatistics
<1> HIDE DEF g
<1>3. Keeps(g, u, id)
  BY <1>1, KindType, SetKindKeeps
<1> HIDE DEF u
<1>4. Keeps(u, NoticeNode(u, id), id)
  BY <1>3, NoticeNodeKeeps DEF Keeps
<1>5. QED
  BY <1>1, <1>2, <1>3, <1>4, KeepsTwice

(* The answer to a ping keeps the instance of the node                     *)
LEMMA HandlePongFacts ==
  ASSUME NEW t \in Trackers, NEW id \in Ids
  PROVE  Keeps(t, HandlePong(t, id), id)
<1> DEFINE u == [t EXCEPT !.pings = @ \ {id}]
<1>1. u \in Trackers /\ u.nodes = t.nodes /\ u.instances = t.instances /\ u.hosts = t.hosts
  BY DEF Trackers
<1>2. Keeps(t, u, id)
  BY <1>1, SameNodesKeep DEF IsSound, InstancesAreSound, HostsAreSound
<1>3. HandlePong(t, id) \in {t, PingResponse(u, id)}
  BY DEF HandlePong
<1> HIDE DEF u
<1>4. Keeps(u, PingResponse(u, id), id)
  BY <1>1, PingResponseKeeps
<1>5. Keeps(t, t, id)
  BY DEF Keeps, Others
<1>6. QED
  BY <1>2, <1>3, <1>4, <1>5, KeepsTwice


-----------------------------------------------------------------------------
(* The handlers of what a node tells of itself, its instance and its host. *)

(* The endpoint's info is of the process that told it                      *)
LEMMA HandleEndpointInfoFacts ==
  ASSUME NEW t \in Trackers, NEW id \in Ids, NEW p \in NodeProcesses
  PROVE  Tells(t, HandleEndpointInfo(t, id, p), id, p)
<1> DEFINE g == GetNode(t, id)
           n == [g.nodes[id] EXCEPT !.kind = "endpoint", !.info = p]
           u == SetEndpointInfo(g, id, p)
<1>1. Keeps(t, g, id) /\ g \in Trackers /\ id \in DOMAIN g.nodes
  BY GetNodeKeeps, GetNodeFacts
<1>2. HandleEndpointInfo(t, id, p) = NoticeNode(u, id)
  BY DEF HandleEndpointInfo
<1>3. g.nodes[id] \in NodeStates /\ NodeOf(g, id) = g.nodes[id]
  BY <1>1, StateTypes DEF NodeOf
<1>4. /\ n \in NodeStates /\ n.instance = NodeOf(g, id).instance
      /\ NodeIsSound(NodeOf(g, id)) /\ NodeOf(g, id).instance = p => NodeIsSound(n)
  BY <1>3 DEF NodeStates, NodeIsSound, MaybeProcesses
<1>5. u = PutNode(g, id, n)
  BY DEF SetEndpointInfo, SetKind, PutNode
<1> HIDE DEF g, n, u
<1>6. /\ u \in Trackers /\ Others(g, u, id) /\ InstanceOf(u, id) = InstanceOf(g, id)
      /\ IsSound(g) /\ NodeIsSound(n) => IsSound(u)
  BY <1>1, <1>4, <1>5, SetNodeFacts
<1>7. Tells(g, u, id, p)
  BY <1>4, <1>6 DEF Tells, IsSound, NodesAreSound, InstanceOf
<1>8. Keeps(u, NoticeNode(u, id), id)
  BY <1>6, NoticeNodeKeeps
<1>9. QED
  BY <1>1, <1>2, <1>7, <1>8, KeptThenTold, ToldThenKept

\* Some info of an instance that is tracked
LEMMA SetInstanceInfoFacts ==
  ASSUME NEW t \in Trackers, NEW i \in DOMAIN t.instances, NEW type, NEW p \in NodeProcesses
  PROVE  /\ SetInstanceInfo(t, i, type, p) \in Trackers
         /\ SetInstanceInfo(t, i, type, p).nodes = t.nodes
         /\ SetInstanceInfo(t, i, type, p).hosts = t.hosts
         /\ i \in DOMAIN SetInstanceInfo(t, i, type, p).instances
         /\ InstancesAreSound(t) /\ i = p => InstancesAreSound(SetInstanceInfo(t, i, type, p))
<1> DEFINE old == t.instances[i].known[type]
           v == IF old = Nothing \/ type = "appName" THEN p ELSE old
           s == [t.instances[i] EXCEPT !.known[type] = v]
           r == SetInstanceInfo(t, i, type, p)
<1>1. t.instances[i] \in InstanceStates
  BY StateTypes
<1>2. t.instances[i].known \in [InstanceInfo -> MaybeProcesses]
  BY <1>1 DEF InstanceStates
<1>3. type \in InstanceInfo => v \in MaybeProcesses
  BY <1>2 DEF MaybeProcesses
<1>4. v = p \/ v = old
  OBVIOUS
<1>5. r = PutInstance(t, i, s)
  BY DEF SetInstanceInfo, PutInstance
<1> HIDE DEF v, r
<1>6. s \in InstanceStates /\ s.host = t.instances[i].host
      /\ \A a \in InstanceInfo : s.known[a] = IF a = type THEN v ELSE t.instances[i].known[a]
  BY <1>1, <1>2, <1>3 DEF InstanceStates
<1>7. InstanceIsSound(i, t.instances[i]) /\ i = p => InstanceIsSound(i, s)
  BY <1>4, <1>6 DEF InstanceIsSound
<1> HIDE DEF s
<1>8. /\ r \in Trackers /\ DOMAIN r.instances = DOMAIN t.instances
      /\ r.nodes = t.nodes /\ r.hosts = t.hosts
      /\ InstancesAreSound(t) /\ InstanceIsSound(i, s) => InstancesAreSound(r)
  BY <1>5, <1>6, PutInstanceFacts
<1>9. QED
  BY <1>7, <1>8 DEF r, InstancesAreSound

\* Some info of a host that is tracked
LEMMA SetHostInfoFacts ==
  ASSUME NEW t \in Trackers, NEW h \in DOMAIN t.hosts, NEW type, NEW v \in MaybeHosts
  PROVE  /\ SetHostInfo(t, h, type, v) \in Trackers
         /\ SetHostInfo(t, h, type, v).nodes = t.nodes
         /\ SetHostInfo(t, h, type, v).instances = t.instances
         /\ HostsAreSound(t) /\ h = v => HostsAreSound(SetHostInfo(t, h, type, v))
<1> DEFINE s == [t.hosts[h] EXCEPT !.known[type] = v]
           r == SetHostInfo(t, h, type, v)
<1>1. t.hosts[h] \in HostStates
  BY StateTypes
<1>2. r = PutHost(t, h, s)
  BY DEF SetHostInfo, PutHost
<1> HIDE DEF r
<1>3. s \in HostStates
      /\ \A a \in HostInfo : s.known[a] = IF a = type THEN v ELSE t.hosts[h].known[a]
  BY <1>1 DEF HostStates
<1>4. HostIsSound(h, t.hosts[h]) /\ h = v => HostIsSound(h, s)
  BY <1>3 DEF HostIsSound
<1> HIDE DEF s
<1>5. /\ r \in Trackers /\ DOMAIN r.hosts = DOMAIN t.hosts
      /\ r.nodes = t.nodes /\ r.instances = t.instances
      /\ HostsAreSound(t) /\ HostIsSound(h, s) => HostsAreSound(r)
  BY <1>2, <1>3, PutHostFacts
<1>6. QED
  BY <1>4, <1>5 DEF r, HostsAreSound

\* What leaves the nodes alone, and is sound when p is the instance
LEMMA SameNodesTell ==
  ASSUME NEW t, NEW r \in Trackers, NEW id \in Ids, NEW p, r.nodes = t.nodes,
         IsSound(t) /\ InstanceOf(t, id) = p => InstancesAreSound(r) /\ HostsAreSound(r)
  PROVE  Tells(t, r, id, p)
<1>1. \A x : NodeOf(r, x) = NodeOf(t, x)
  BY NodesSame
<1>2. QED
  BY <1>1 DEF Tells, Others, InstanceOf, IsSound, NodesAreSound

\* The instance of a node that is tracked is told some info
LEMMA TellInstance ==
  ASSUME NEW g \in Trackers, NEW id \in DOMAIN g.nodes, NEW type, NEW p \in NodeProcesses,
         NEW i, i = g.nodes[id].instance, i # Nothing
  PROVE  /\ Tells(g, SetInstanceInfo(GetInstance(g, i), i, type, p), id, p)
         /\ i \in NodeProcesses
<1> DEFINE u == GetInstance(g, i)
           r == SetInstanceInfo(u, i, type, p)
<1>1. id \in Ids /\ i \in NodeProcesses /\ InstanceOf(g, id) = i
  BY StateTypes DEF NodeStates, MaybeProcesses, InstanceOf, NodeOf
<1>2. /\ u \in Trackers /\ i \in DOMAIN u.instances /\ u.nodes = g.nodes /\ u.hosts = g.hosts
      /\ InstancesAreSound(g) => InstancesAreSound(u)
  BY <1>1, GetInstanceFacts
<1> HIDE DEF u
<1>3. /\ r \in Trackers /\ r.nodes = u.nodes /\ r.hosts = u.hosts
      /\ InstancesAreSound(u) /\ i = p => InstancesAreSound(r)
  BY <1>2, SetInstanceInfoFacts
<1> HIDE DEF r
<1>4. Tells(g, r, id, p)
  <2>1. r.nodes = g.nodes
    BY <1>2, <1>3
  <2>2. IsSound(g) /\ InstanceOf(g, id) = p => InstancesAreSound(r) /\ HostsAreSound(r)
    BY <1>1, <1>2, <1>3 DEF IsSound, HostsAreSound
  <2>3. QED
    BY <1>1, <1>3, <2>1, <2>2, SameNodesTell
<1>5. QED
  BY <1>1, <1>4 DEF r, u

(* An instance that is noticed keeps the instances of all nodes            *)
LEMMA NoticeInstanceKeeps ==
  ASSUME NEW t \in Trackers, NEW i \in NodeProcesses, NEW id \in Ids
  PROVE  Keeps(t, NoticeInstance(t, i), id)
BY NoticeInstanceFacts, SameNodesKeep DEF IsSound, HostsAreSound

(* The application's name is of the process that told it                   *)
LEMMA HandleAppNameFacts ==
  ASSUME NEW t \in Trackers, NEW id \in Ids, NEW p \in NodeProcesses
  PROVE  Tells(t, HandleAppName(t, id, p), id, p)
<1> DEFINE g == GetNode(t, id)
           i == g.nodes[id].instance
           u == SetInstanceInfo(GetInstance(g, i), i, "appName", p)
<1>1. Keeps(t, g, id) /\ g \in Trackers /\ id \in DOMAIN g.nodes
  BY GetNodeKeeps, GetNodeFacts
<1>2. \/ i = Nothing /\ HandleAppName(t, id, p) = g
      \/ i # Nothing /\ HandleAppName(t, id, p) = NoticeInstance(u, i)
  BY DEF HandleAppName
<1> HIDE DEF g
<1>3. ASSUME i # Nothing PROVE Tells(g, NoticeInstance(u, i), id, p)
  <2>1. Tells(g, u, id, p) /\ i \in NodeProcesses
    BY <1>1, <1>3, TellInstance
  <2>2. u \in Trackers
    BY <2>1 DEF Tells
  <2> HIDE DEF u, i
  <2>3. Keeps(u, NoticeInstance(u, i), id)
    BY <2>1, <2>2, NoticeInstanceKeeps
  <2>4. QED
    BY <2>1, <2>3, ToldThenKept
<1> HIDE DEF u, i
<1>4. Tells(t, g, id, p)
  BY <1>1, KeptIsTold
<1>5. i # Nothing => Tells(t, NoticeInstance(u, i), id, p)
  BY <1>1, <1>3, KeptThenTold
<1>6. QED
  BY <1>2, <1>4, <1>5

(* The compiler and the version are of the process that told them          *)
LEMMA HandleBuildInfoFacts ==
  ASSUME NEW t \in Trackers, NEW id \in Ids, NEW type, NEW p \in NodeProcesses
  PROVE  Tells(t, HandleBuildInfo(t, id, type, p), id, p)
<1> DEFINE g == NoticeNode(t, id)
           i == g.nodes[id].instance
           u == SetInstanceInfo(GetInstance(g, i), i, type, p)
<1>1. Keeps(t, g, id) /\ g \in Trackers /\ id \in DOMAIN g.nodes
  BY NoticeNodeKeeps DEF Keeps
<1>2. \/ i = Nothing /\ HandleBuildInfo(t, id, type, p) = g
      \/ i # Nothing /\ HandleBuildInfo(t, id, type, p) = u
  BY DEF HandleBuildInfo
<1> HIDE DEF g
<1>3. ASSUME i # Nothing PROVE Tells(g, u, id, p)
  BY <1>1, <1>3, TellInstance
<1> HIDE DEF u, i
<1>4. Tells(t, g, id, p)
  BY <1>1, KeptIsTold
<1>5. i # Nothing => Tells(t, u, id, p)
  BY <1>1, <1>3, KeptThenTold
<1>6. QED
  BY <1>2, <1>4, <1>5

(* The host of a process                                                   *)
LEMMA HostOfType == \A p \in NodeProcesses : HostOf(p) \in MaybeHosts
BY DEF MaybeHosts, Hosts

(* The host id is of the process that told it, and of its instance         *)
LEMMA HandleHostIdFacts ==
  ASSUME NEW t \in Trackers, NEW id \in Ids, NEW p \in NodeProcesses
  PROVE  Tells(t, HandleHostId(t, id, p), id, p)
<1> DEFINE g == GetNode(t, id)
           h == HostOf(p)
           i == g.nodes[id].instance
           n == [g.nodes[id] EXCEPT !.host = h]
           u == PutNode(g, id, n)
           r == SetHostId(g, id, h)
<1>1. Keeps(t, g, id) /\ g \in Trackers /\ id \in DOMAIN g.nodes
  BY GetNodeKeeps, GetNodeFacts
<1>2. HandleHostId(t, id, p) = NoticeNode(r, id)
  BY DEF HandleHostId
<1>3. r = u \/ (i # Nothing /\ r = SetInstanceHost(u, i, h))
  BY DEF SetHostId, PutNode
<1>4. g.nodes[id] \in NodeStates /\ NodeOf(g, id) = g.nodes[id] /\ InstanceOf(g, id) = i
  BY <1>1, StateTypes DEF NodeOf, InstanceOf
<1>5. h \in MaybeHosts /\ i \in MaybeProcesses
  BY <1>4, HostOfType DEF NodeStates
<1>6. /\ n \in NodeStates /\ n.instance = NodeOf(g, id).instance
      /\ NodeIsSound(NodeOf(g, id)) /\ i = p => NodeIsSound(n)
  BY <1>4, <1>5, ProcessIsSomething DEF NodeStates, NodeIsSound
<1> HIDE DEF g, n, i
<1>7. /\ u \in Trackers /\ Others(g, u, id) /\ InstanceOf(u, id) = InstanceOf(g, id)
      /\ IsSound(g) /\ NodeIsSound(n) => IsSound(u)
  BY <1>1, <1>6, SetNodeFacts
<1>8. Tells(g, u, id, p)
  BY <1>4, <1>6, <1>7 DEF Tells, IsSound, NodesAreSound
<1> HIDE DEF u, r
<1>9. ASSUME i # Nothing PROVE Tells(g, SetInstanceHost(u, i, h), id, p)
  <2> DEFINE v == SetInstanceHost(u, i, h)
  <2>1. i \in NodeProcesses
    BY <1>5, <1>9 DEF MaybeProcesses
  <2>2. /\ v \in Trackers /\ v.nodes = u.nodes /\ v.hosts = u.hosts
        /\ InstancesAreSound(u) /\ h \in {Nothing, HostOf(i)} => InstancesAreSound(v)
    BY <1>5, <1>7, <2>1, SetInstanceHostFacts
  <2> HIDE DEF v
  <2>3. \A x : NodeOf(v, x) = NodeOf(u, x)
    BY <2>2, NodesSame
  <2>4. Others(g, v, id) /\ InstanceOf(v, id) = InstanceOf(g, id)
    BY <1>7, <2>3 DEF Others, InstanceOf
  <2>5. IsSound(u) /\ i = p => IsSound(v)
    BY <2>2, <2>3 DEF IsSound, NodesAreSound, HostsAreSound
  <2>6. Tells(g, v, id, p)
    BY <1>4, <1>8, <2>2, <2>4, <2>5 DEF Tells
  <2>7. QED
    BY <2>6 DEF v
<1>10. Tells(g, r, id, p)
  BY <1>3, <1>8, <1>9
<1>11. Keeps(r, NoticeNode(r, id), id)
  BY <1>10, NoticeNodeKeeps DEF Tells
<1>12. QED
  BY <1>1, <1>2, <1>10, <1>11, KeptThenTold, ToldThenKept

\* The host of a node that is tracked is told some info
LEMMA TellHost ==
  ASSUME NEW g \in Trackers, NEW id \in DOMAIN g.nodes, NEW type, NEW p \in NodeProcesses,
         NEW h, h = g.nodes[id].host, h # Nothing
  PROVE  Tells(g, SetHostInfo(NoticeHost(g, h), h, type, HostOf(p)), id, p)
<1> DEFINE u == NoticeHost(g, h)
           r == SetHostInfo(u, h, type, HostOf(p))
<1>1. id \in Ids /\ h \in MaybeHosts /\ NodeOf(g, id) = g.nodes[id] /\ HostOf(p) \in MaybeHosts
  BY StateTypes, HostOfType DEF NodeStates, NodeOf
<1>2. /\ u \in Trackers /\ h \in DOMAIN u.hosts /\ u.nodes = g.nodes /\ u.instances = g.instances
      /\ HostsAreSound(g) => HostsAreSound(u)
  BY <1>1, NoticeHostFacts
<1> HIDE DEF u
<1>3. /\ r \in Trackers /\ r.nodes = u.nodes /\ r.instances = u.instances
      /\ HostsAreSound(u) /\ h = HostOf(p) => HostsAreSound(r)
  BY <1>1, <1>2, SetHostInfoFacts
<1>4. IsSound(g) /\ InstanceOf(g, id) = p => h = HostOf(p)
  BY <1>1 DEF IsSound, NodesAreSound, NodeIsSound, InstanceOf
<1> HIDE DEF r
<1>5. Tells(g, r, id, p)
  <2>1. r.nodes = g.nodes
    BY <1>2, <1>3
  <2>2. IsSound(g) /\ InstanceOf(g, id) = p => InstancesAreSound(r) /\ HostsAreSound(r)
    BY <1>2, <1>3, <1>4 DEF IsSound, InstancesAreSound
  <2>3. QED
    BY <1>1, <1>3, <2>1, <2>2, SameNodesTell
<1>6. QED
  BY <1>5 DEF r, u

(* The host's name is of the host of the process that told it              *)
LEMMA HandleHostnameFacts ==
  ASSUME NEW t \in Trackers, NEW id \in Ids, NEW p \in NodeProcesses
  PROVE  Tells(t, HandleHostname(t, id, p), id, p)
<1> DEFINE g == GetNode(t, id)
           h == g.nodes[id].host
           u == SetHostInfo(NoticeHost(g, h), h, "hostname", HostOf(p))
<1>1. Keeps(t, g, id) /\ g \in Trackers /\ id \in DOMAIN g.nodes
  BY GetNodeKeeps, GetNodeFacts
<1>2. \/ h = Nothing /\ HandleHostname(t, id, p) = g
      \/ h # Nothing /\ HandleHostname(t, id, p) = u
  BY DEF HandleHostname
<1> HIDE DEF g
<1>3. ASSUME h # Nothing PROVE Tells(g, u, id, p)
  BY <1>1, <1>3, TellHost
<1> HIDE DEF u, h
<1>4. Tells(t, g, id, p)
  BY <1>1, KeptIsTold
<1>5. h # Nothing => Tells(t, u, id, p)
  BY <1>1, <1>3, KeptThenTold
<1>6. QED
  BY <1>2, <1>4, <1>5

(* What is told of the system is of the host of the process that told it   *)
LEMMA HandleSystemInfoFacts ==
  ASSUME NEW t \in Trackers, NEW id \in Ids, NEW type, NEW p \in NodeProcesses
  PROVE  Tells(t, HandleSystemInfo(t, id, type, p), id, p)
<1> DEFINE g == NoticeNode(t, id)
           h == g.nodes[id].host
           u == SetHostInfo(NoticeHost(g, h), h, type, HostOf(p))
<1>1. Keeps(t, g, id) /\ g \in Trackers /\ id \in DOMAIN g.nodes
  BY NoticeNodeKeeps DEF Keeps
<1>2. \/ h = Nothing /\ HandleSystemInfo(t, id, type, p) = g
      \/ h # Nothing /\ HandleSystemInfo(t, id, type, p) = u
  BY DEF HandleSystemInfo
<1> HIDE DEF g
<1>3. ASSUME h # Nothing PROVE Tells(g, u, id, p)
  BY <1>1, <1>3, TellHost
<1> HIDE DEF u, h
<1>4. Tells(t, g, id, p)
  BY <1>1, KeptIsTold
<1>5. h # Nothing => Tells(t, u, id, p)
  BY <1>1, <1>3, KeptThenTold
<1>6. QED
  BY <1>2, <1>4, <1>5


-----------------------------------------------------------------------------
(* What is made of a tracker by all messages of a turn.                    *)

(* What the messages of a node make of a tracker                           *)
LEMMA HandleFromStays ==
  ASSUME NEW t, NEW id, NEW type, Len(wire[id]) \in Nat, NEW S, t \in S[0],
         \A i \in 1 .. Len(wire[id]) : \A s \in S[i - 1] : (IF wire[id][Len(wire[id]) + 1 - i].type = type THEN Handle(s, wire[id][Len(wire[id]) + 1 - i]) ELSE s) \in S[i]
  PROVE  HandleFrom(t, id, type) \in S[Len(wire[id])]
<1> DEFINE N == Len(wire[id])
           First == t
           all == UNION {S[i] : i \in 0 .. N}
           G(i, s) == IF wire[id][Len(wire[id]) + 1 - i].type = type THEN Handle(s, wire[id][Len(wire[id]) + 1 - i]) ELSE s
           F == [z \in (1 .. N) \X all |-> G(z[1], z[2])]
           Eqn(f) == f = [i \in 0 .. N |-> IF i = 0 THEN First ELSE G(i, f[i - 1])]
           this == CHOOSE f : Eqn(f)
<1>1. HandleFrom(t, id, type) = this[N]
  BY DEF HandleFrom
<1>2. N \in Nat /\ First \in S[0] /\ \A i \in 1 .. N : \A s \in S[i - 1] : G(i, s) \in S[i]
  OBVIOUS
<1> HIDE DEF N, First, G
<1>3. \A i \in 1 .. N : \A s \in S[i - 1] : F[<<i, s>>] = G(i, s)
  <2>1. \A i \in 1 .. N : i - 1 \in 0 .. N
    BY <1>2
  <2>2. QED
    BY <2>1
<1>4. ASSUME NEW i \in 1 .. N, NEW s \in S[i - 1] PROVE F[<<i, s>>] \in S[i]
  <2> HIDE DEF F
  <2>1. F[<<i, s>>] = G(i, s)
    BY <1>3
  <2>2. QED
    BY <1>2, <2>1
<1>5. PICK f : ComputesWithin(f, N, S, First, F)
  <2> HIDE DEF F
  <2>1. QED
    BY <1>2, <1>4, StepsWithin
<1> USE DEF ComputesWithin
<1>6. \A i \in 1 .. N : f[i] = G(i, f[i - 1])
  <2>1. \A i \in 1 .. N : i - 1 \in 0 .. N
    BY <1>2
  <2> HIDE DEF F
  <2>2. QED
    BY <1>3, <1>5, <2>1
<1>7. Eqn(f)
  <2> HIDE DEF F
  <2>1. \A i \in 0 .. N : f[i] = IF i = 0 THEN First ELSE G(i, f[i - 1])
    <3>1. \A i \in 0 .. N : i = 0 \/ i \in 1 .. N
      BY <1>2
    <3>2. QED
      BY <1>5, <1>6, <3>1
  <2>2. QED
    BY <1>5, <2>1
<1>8. Eqn(this)
  <2> HIDE DEF Eqn
  <2>1. QED
    BY <1>7
<1>9. this[0] = First /\ \A i \in 1 .. N : this[i] = G(i, this[i - 1])
  <2> HIDE DEF this
  <2>1. 0 \in 0 .. N /\ \A i \in 1 .. N : i \in 0 .. N /\ i # 0
    BY <1>2
  <2>2. QED
    BY <1>8, <2>1
<1> HIDE DEF this
<1>10. \A i \in 1 .. N : this[i - 1] \in S[i - 1] => this[i] \in S[i]
  BY <1>2, <1>9
<1>11. \A i \in 0 .. N : this[i] \in S[i]
  BY <1>2, <1>9, <1>10, StaysWithin
<1>12. N \in 0 .. N
  BY <1>2
<1>13. QED
  BY <1>1, <1>11, <1>12 DEF N

(* What the messages of a type make of a tracker                           *)
LEMMA HandleTypeStays ==
  ASSUME NEW t, NEW type, NEW order, Len(order) \in Nat, NEW S, t \in S[0],
         \A i \in 1 .. Len(order) : \A s \in S[i - 1] : (IF Came(order[i], type) THEN HandleFrom(s, order[i], type) ELSE s) \in S[i]
  PROVE  HandleType(t, type, order) \in S[Len(order)]
<1> DEFINE N == Len(order)
           First == t
           all == UNION {S[i] : i \in 0 .. N}
           G(i, s) == IF Came(order[i], type) THEN HandleFrom(s, order[i], type) ELSE s
           F == [z \in (1 .. N) \X all |-> G(z[1], z[2])]
           Eqn(f) == f = [i \in 0 .. N |-> IF i = 0 THEN First ELSE G(i, f[i - 1])]
           this == CHOOSE f : Eqn(f)
<1>1. HandleType(t, type, order) = this[N]
  BY DEF HandleType
<1>2. N \in Nat /\ First \in S[0] /\ \A i \in 1 .. N : \A s \in S[i - 1] : G(i, s) \in S[i]
  OBVIOUS
<1> HIDE DEF N, First, G
<1>3. \A i \in 1 .. N : \A s \in S[i - 1] : F[<<i, s>>] = G(i, s)
  <2>1. \A i \in 1 .. N : i - 1 \in 0 .. N
    BY <1>2
  <2>2. QED
    BY <2>1
<1>4. ASSUME NEW i \in 1 .. N, NEW s \in S[i - 1] PROVE F[<<i, s>>] \in S[i]
  <2> HIDE DEF F
  <2>1. F[<<i, s>>] = G(i, s)
    BY <1>3
  <2>2. QED
    BY <1>2, <2>1
<1>5. PICK f : ComputesWithin(f, N, S, First, F)
  <2> HIDE DEF F
  <2>1. QED
    BY <1>2, <1>4, StepsWithin
<1> USE DEF ComputesWithin
<1>6. \A i \in 1 .. N : f[i] = G(i, f[i - 1])
  <2>1. \A i \in 1 .. N : i - 1 \in 0 .. N
    BY <1>2
  <2> HIDE DEF F
  <2>2. QED
    BY <1>3, <1>5, <2>1
<1>7. Eqn(f)
  <2> HIDE DEF F
  <2>1. \A i \in 0 .. N : f[i] = IF i = 0 THEN First ELSE G(i, f[i - 1])
    <3>1. \A i \in 0 .. N : i = 0 \/ i \in 1 .. N
      BY <1>2
    <3>2. QED
      BY <1>5, <1>6, <3>1
  <2>2. QED
    BY <1>5, <2>1
<1>8. Eqn(this)
  <2> HIDE DEF Eqn
  <2>1. QED
    BY <1>7
<1>9. this[0] = First /\ \A i \in 1 .. N : this[i] = G(i, this[i - 1])
  <2> HIDE DEF this
  <2>1. 0 \in 0 .. N /\ \A i \in 1 .. N : i \in 0 .. N /\ i # 0
    BY <1>2
  <2>2. QED
    BY <1>8, <2>1
<1> HIDE DEF this
<1>10. \A i \in 1 .. N : this[i - 1] \in S[i - 1] => this[i] \in S[i]
  BY <1>2, <1>9
<1>11. \A i \in 0 .. N : this[i] \in S[i]
  BY <1>2, <1>9, <1>10, StaysWithin
<1>12. N \in 0 .. N
  BY <1>2
<1>13. QED
  BY <1>1, <1>11, <1>12 DEF N

(* What all messages make of a tracker                                     *)
LEMMA ProcessStays ==
  ASSUME NEW t, NEW order, Len(QueueOrder) \in Nat, NEW S, t \in S[0],
         \A i \in 1 .. Len(QueueOrder) : \A s \in S[i - 1] : (IF HaveCome(QueueOrder[i]) THEN HandleType(s, QueueOrder[i], order) ELSE s) \in S[i]
  PROVE  ProcessMessages(t, order) \in S[Len(QueueOrder)]
<1> DEFINE N == Len(QueueOrder)
           First == t
           all == UNION {S[i] : i \in 0 .. N}
           G(i, s) == IF HaveCome(QueueOrder[i]) THEN HandleType(s, QueueOrder[i], order) ELSE s
           F == [z \in (1 .. N) \X all |-> G(z[1], z[2])]
           Eqn(f) == f = [i \in 0 .. N |-> IF i = 0 THEN First ELSE G(i, f[i - 1])]
           this == CHOOSE f : Eqn(f)
<1>1. ProcessMessages(t, order) = this[N]
  BY DEF ProcessMessages
<1>2. N \in Nat /\ First \in S[0] /\ \A i \in 1 .. N : \A s \in S[i - 1] : G(i, s) \in S[i]
  OBVIOUS
<1> HIDE DEF N, First, G
<1>3. \A i \in 1 .. N : \A s \in S[i - 1] : F[<<i, s>>] = G(i, s)
  <2>1. \A i \in 1 .. N : i - 1 \in 0 .. N
    BY <1>2
  <2>2. QED
    BY <2>1
<1>4. ASSUME NEW i \in 1 .. N, NEW s \in S[i - 1] PROVE F[<<i, s>>] \in S[i]
  <2> HIDE DEF F
  <2>1. F[<<i, s>>] = G(i, s)
    BY <1>3
  <2>2. QED
    BY <1>2, <2>1
<1>5. PICK f : ComputesWithin(f, N, S, First, F)
  <2> HIDE DEF F
  <2>1. QED
    BY <1>2, <1>4, StepsWithin
<1> USE DEF ComputesWithin
<1>6. \A i \in 1 .. N : f[i] = G(i, f[i - 1])
  <2>1. \A i \in 1 .. N : i - 1 \in 0 .. N
    BY <1>2
  <2> HIDE DEF F
  <2>2. QED
    BY <1>3, <1>5, <2>1
<1>7. Eqn(f)
  <2> HIDE DEF F
  <2>1. \A i \in 0 .. N : f[i] = IF i = 0 THEN First ELSE G(i, f[i - 1])
    <3>1. \A i \in 0 .. N : i = 0 \/ i \in 1 .. N
      BY <1>2
    <3>2. QED
      BY <1>5, <1>6, <3>1
  <2>2. QED
    BY <1>5, <2>1
<1>8. Eqn(this)
  <2> HIDE DEF Eqn
  <2>1. QED
    BY <1>7
<1>9. this[0] = First /\ \A i \in 1 .. N : this[i] = G(i, this[i - 1])
  <2> HIDE DEF this
  <2>1. 0 \in 0 .. N /\ \A i \in 1 .. N : i \in 0 .. N /\ i # 0
    BY <1>2
  <2>2. QED
    BY <1>8, <2>1
<1> HIDE DEF this
<1>10. \A i \in 1 .. N : this[i - 1] \in S[i - 1] => this[i] \in S[i]
  BY <1>2, <1>9
<1>11. \A i \in 0 .. N : this[i] \in S[i]
  BY <1>2, <1>9, <1>10, StaysWithin
<1>12. N \in 0 .. N
  BY <1>2
<1>13. QED
  BY <1>1, <1>11, <1>12 DEF N


Telling == {"info", "appName", "hostId", "hostname"} \cup BuildInfo \cup SystemInfo
Counting == {"stats", "connStats", "pong"}
QueueTypes == Announcing \cup {"bye"} \cup Counting \cup Telling

NodeMessages == [type : QueueTypes, from : NodeProcesses, remote : Ids]

(* The handler of a message that announces the process                     *)
LEMMA HandleAnnouncing ==
  ASSUME NEW t \in Trackers, NEW m \in NodeMessages, m.type \in Announcing
  PROVE  Noticed(t, Handle(t, m), m.from[1], m.from)
<1> DEFINE id == m.from[1]
<1>1. id \in Ids /\ m.from \in NodeProcesses /\ m.remote \in Ids
  BY ProcessIsSomething DEF NodeMessages
<1>2. CASE m.type = "alive"
  <2>1. Handle(t, m) = SetKind(Notice(t, id, m.from), id, "endpoint")
    BY <1>2 DEF Handle, HandleAlive, BuildInfo, SystemInfo
  <2>2. QED
    BY <1>1, <2>1, HandleAliveFacts
<1>3. CASE m.type = "subscribed"
  <2>1. Handle(t, m) = HandleSubscription(t, id, m.from, "yes")
    BY <1>3 DEF Handle, BuildInfo, SystemInfo
  <2>2. QED
    BY <1>1, <2>1, HandleSubscriptionFacts
<1>4. CASE m.type = "unsubscribed"
  <2>1. Handle(t, m) = HandleSubscription(t, id, m.from, "no")
    BY <1>4 DEF Handle, BuildInfo, SystemInfo
  <2>2. QED
    BY <1>1, <2>1, HandleSubscriptionFacts
<1>5. CASE m.type = "topology"
  <2>1. Handle(t, m) = HandleTopology(t, id, m)
    BY <1>5 DEF Handle, BuildInfo, SystemInfo
  <2>2. QED
    BY <1>1, <2>1, HandleTopologyFacts
<1>6. QED
  BY <1>2, <1>3, <1>4, <1>5 DEF Announcing

(* The handler of a bye-bye                                                *)
LEMMA HandleByeBye ==
  ASSUME NEW t \in Trackers, NEW m \in NodeMessages, m.type = "bye"
  PROVE  Noticed(t, Handle(t, m), m.from[1], Nothing)
<1>1. m.from[1] \in Ids
  BY ProcessIsSomething DEF NodeMessages
<1>2. Handle(t, m) = HandleBye(t, m.from[1])
  BY DEF Handle, BuildInfo, SystemInfo
<1>3. QED
  BY <1>1, <1>2, HandleByeFacts

(* The handlers of statistics and of answers to pings                      *)
LEMMA HandleCounting ==
  ASSUME NEW t \in Trackers, NEW m \in NodeMessages, m.type \in Counting
  PROVE  Keeps(t, Handle(t, m), m.from[1])
<1> DEFINE id == m.from[1]
<1>1. id \in Ids /\ m.remote \in Ids
  BY ProcessIsSomething DEF NodeMessages
<1>2. CASE m.type = "stats"
  <2>1. Handle(t, m) = HandleStats(t, id)
    BY <1>2 DEF Handle, BuildInfo, SystemInfo
  <2>2. QED
    BY <1>1, <2>1, HandleStatsFacts
<1>3. CASE m.type = "connStats"
  <2>1. Handle(t, m) = GetConnection(t, id, m.remote)
    BY <1>3 DEF Handle, HandleConnectionStats, BuildInfo, SystemInfo
  <2>2. QED
    BY <1>1, <2>1, GetConnectionKeeps
<1>4. CASE m.type = "pong"
  <2>1. Handle(t, m) = HandlePong(t, id)
    BY <1>4 DEF Handle, BuildInfo, SystemInfo
  <2>2. QED
    BY <1>1, <2>1, HandlePongFacts
<1>5. QED
  BY <1>2, <1>3, <1>4 DEF Counting

(* The handlers of what is told                                            *)
LEMMA HandleTelling ==
  ASSUME NEW t \in Trackers, NEW m \in NodeMessages, m.type \in Telling
  PROVE  Tells(t, Handle(t, m), m.from[1], m.from)
<1> DEFINE id == m.from[1]
           p == m.from
<1>1. id \in Ids /\ p \in NodeProcesses
  BY ProcessIsSomething DEF NodeMessages
<1>2. CASE m.type = "info"
  <2>1. Handle(t, m) = HandleEndpointInfo(t, id, p)
    BY <1>2 DEF Handle, BuildInfo, SystemInfo
  <2>2. QED
    BY <1>1, <2>1, HandleEndpointInfoFacts
<1>3. CASE m.type = "appName"
  <2>1. Handle(t, m) = HandleAppName(t, id, p)
    BY <1>3 DEF Handle, BuildInfo, SystemInfo
  <2>2. QED
    BY <1>1, <2>1, HandleAppNameFacts
<1>4. CASE m.type = "hostId"
  <2>1. Handle(t, m) = HandleHostId(t, id, p)
    BY <1>4 DEF Handle, BuildInfo, SystemInfo
  <2>2. QED
    BY <1>1, <2>1, HandleHostIdFacts
<1>5. CASE m.type = "hostname"
  <2>1. Handle(t, m) = HandleHostname(t, id, p)
    BY <1>5 DEF Handle, BuildInfo, SystemInfo
  <2>2. QED
    BY <1>1, <2>1, HandleHostnameFacts
<1>6. CASE m.type \in BuildInfo
  <2>1. Handle(t, m) = HandleBuildInfo(t, id, m.type, p)
    BY <1>6 DEF Handle, BuildInfo, SystemInfo
  <2>2. QED
    BY <1>1, <2>1, HandleBuildInfoFacts
<1>7. CASE m.type \in SystemInfo
  <2>1. Handle(t, m) = HandleSystemInfo(t, id, m.type, p)
    BY <1>7 DEF Handle, BuildInfo, SystemInfo
  <2>2. QED
    BY <1>1, <2>1, HandleSystemInfoFacts
<1>8. QED
  BY <1>2, <1>3, <1>4, <1>5, <1>6, <1>7 DEF Telling

\* What comes from a node was said by the process that is there, or was there last
WireIsOwn(id) ==
    /\ wire[id] \in Seq(NodeMessages)
    /\ \A m \in Range(wire[id]) : m.from = Process(id)

\* The instance that a node is of when messages of a type were handled
Renamed(inst, id, type) ==
    IF ~Came(id, type) THEN inst
    ELSE IF type \in Announcing THEN Process(id)
    ELSE IF type = "bye" THEN Nothing ELSE inst

\* What is told by messages of a type is of the instance
ToldByInstance(t, id, type) ==
    Came(id, type) /\ type \in Telling => InstanceOf(t, id) = Process(id)

(* All messages of a type from one node                                    *)
LEMMA HandleFromFacts ==
  ASSUME NEW t \in Trackers, NEW id \in Ids, NEW type \in QueueTypes, WireIsOwn(id),
         Process(id) \in NodeProcesses
  PROVE  /\ HandleFrom(t, id, type) \in Trackers /\ Others(t, HandleFrom(t, id, type), id)
         /\ InstanceOf(HandleFrom(t, id, type), id) = Renamed(InstanceOf(t, id), id, type)
         /\ IsSound(t) /\ ToldByInstance(t, id, type) => IsSound(HandleFrom(t, id, type))
<1> DEFINE N == Len(wire[id])
           m(i) == wire[id][Len(wire[id]) + 1 - i]
           seen(i) == \E j \in 1 .. i : m(j).type = type
           inst == InstanceOf(t, id)
           new == IF type \in Announcing THEN Process(id) ELSE IF type = "bye" THEN Nothing ELSE inst
           ok == IsSound(t) /\ ToldByInstance(t, id, type)
           Good(u, i) == /\ u \in Trackers /\ Others(t, u, id)
                         /\ InstanceOf(u, id) = IF seen(i) THEN new ELSE inst
                         /\ ok => IsSound(u)
           S == [i \in 0 .. N |-> {u \in Trackers : Good(u, i)}]
<1>1. N \in Nat /\ \A i \in 1 .. N : m(i) \in NodeMessages /\ m(i) \in Range(wire[id])
  <2>1. wire[id] \in Seq(NodeMessages)
    BY DEF WireIsOwn
  <2>2. N \in Nat /\ DOMAIN wire[id] = 1 .. N /\ \A j \in 1 .. N : wire[id][j] \in NodeMessages
    BY <2>1
  <2>3. \A i \in 1 .. N : N + 1 - i \in 1 .. N
    BY <2>2
  <2>4. QED
    BY <2>2, <2>3 DEF Range
<1>2. \A i \in 1 .. N : m(i).from = Process(id)
  BY <1>1 DEF WireIsOwn
<1>3. Process(id)[1] = id
  BY DEF Process
<1>4. seen(N) <=> Came(id, type)
  <2>1. wire[id] \in Seq(NodeMessages)
    BY DEF WireIsOwn
  <2>2. DOMAIN wire[id] = 1 .. N
    BY <2>1
  <2>3. \A j \in 1 .. N : N + 1 - j \in 1 .. N /\ N + 1 - (N + 1 - j) = j
    BY <1>1
  <2>4. ASSUME Came(id, type) PROVE seen(N)
    <3>1. PICK j \in DOMAIN wire[id] : wire[id][j].type = type
      BY <2>4 DEF Came, Range
    <3>2. N + 1 - j \in 1 .. N /\ m(N + 1 - j) = wire[id][j]
      BY <2>2, <2>3, <3>1
    <3>3. QED
      BY <3>1, <3>2
  <2>5. ASSUME seen(N) PROVE Came(id, type)
    BY <1>1, <2>5 DEF Came
  <2>6. QED
    BY <2>4, <2>5
<1> HIDE DEF m, N
<1>5. t \in S[0]
  <2>1. Good(t, 0)
    BY DEF Others
  <2>2. QED
    BY <1>1, <2>1
<1>6. ASSUME NEW i \in 1 .. N, NEW u \in S[i - 1]
      PROVE  (IF m(i).type = type THEN Handle(u, m(i)) ELSE u) \in S[i]
  <2>1. i \in 0 .. N /\ i - 1 \in 0 .. N /\ Good(u, i - 1)
    BY <1>1
  <2>2. seen(i) <=> (seen(i - 1) \/ m(i).type = type)
    <3>1. 1 .. i = (1 .. (i - 1)) \cup {i}
      BY <1>1
    <3>2. QED
      BY <3>1
  <2> HIDE DEF seen
  <2>3. CASE m(i).type # type
    BY <2>1, <2>2, <2>3
  <2>4. CASE m(i).type = type
    <3> DEFINE r == Handle(u, m(i))
    <3>1. u \in Trackers /\ Others(t, u, id) /\ (ok => IsSound(u))
          /\ InstanceOf(u, id) \in {inst, new} /\ seen(i)
      BY <2>1, <2>2, <2>4
    <3>2. /\ r \in Trackers /\ Others(u, r, id) /\ InstanceOf(r, id) = new
          /\ ok => IsSound(r)
      <4>1. CASE type \in Announcing
        <5>1. Noticed(u, r, id, Process(id))
          BY <1>1, <1>2, <1>3, <2>4, <3>1, <4>1, HandleAnnouncing
        <5>2. QED
          BY <3>1, <4>1, <5>1 DEF Noticed
      <4>2. CASE type = "bye"
        <5>1. Noticed(u, r, id, Nothing)
          BY <1>1, <1>2, <1>3, <2>4, <3>1, <4>2, HandleByeBye
        <5>2. type \notin Announcing
          BY <4>2 DEF Announcing
        <5>3. QED
          BY <3>1, <4>2, <5>1, <5>2 DEF Noticed
      <4>3. CASE type \in Counting
        <5>1. Keeps(u, r, id)
          BY <1>1, <1>2, <1>3, <2>4, <3>1, <4>3, HandleCounting
        <5>2. type \notin Announcing /\ type # "bye"
          BY <4>3 DEF Announcing, Counting
        <5>3. QED
          BY <3>1, <5>1, <5>2 DEF Keeps
      <4>4. CASE type \in Telling
        <5>1. Tells(u, r, id, Process(id))
          BY <1>1, <1>2, <1>3, <2>4, <3>1, <4>4, HandleTelling
        <5>2. type \notin Announcing /\ type # "bye"
          BY <4>4 DEF Announcing, Telling, BuildInfo, SystemInfo
        <5>3. Came(id, type)
          BY <1>1, <2>4 DEF Came
        <5>4. ok => inst = Process(id)
          BY <4>4, <5>3 DEF ToldByInstance
        <5>5. QED
          BY <3>1, <5>1, <5>2, <5>4 DEF Tells
      <4>5. QED
        BY <4>1, <4>2, <4>3, <4>4 DEF QueueTypes
    <3> HIDE DEF r, new, inst, ok
    <3>3. Others(t, r, id)
      BY <3>1, <3>2 DEF Others
    <3>4. r \in S[i]
      BY <2>1, <3>1, <3>2, <3>3
    <3>5. QED
      BY <2>4, <3>4 DEF r
  <2>5. QED
    BY <2>3, <2>4
<1>7. HandleFrom(t, id, type) \in S[N]
  <2> HIDE DEF S
  <2>1. QED
    BY <1>1, <1>5, <1>6, HandleFromStays DEF N, m
<1>8. Good(HandleFrom(t, id, type), N)
  BY <1>1, <1>7
<1>9. Renamed(inst, id, type) = IF seen(N) THEN new ELSE inst
  BY <1>4 DEF Renamed
<1> HIDE DEF seen, new
<1>10. QED
  BY <1>8, <1>9


\* Of every node there is only what its process said
AllOwn == \A id \in Ids : WireIsOwn(id) /\ Process(id) \in NodeProcesses

(* No messages                                                             *)
LEMMA NoMessages == Range(<<>>) = {}
BY DEF Range

(* Every node that said something is among those that messages come from   *)
LEMMA ArrivalsFacts ==
  ASSUME NEW order \in Arrivals
  PROVE  /\ Len(order) \in Nat /\ \A k \in 1 .. Len(order) : order[k] \in Ids
         /\ \A id \in Ids : (\E type : Came(id, type)) => \E k \in 1 .. Len(order) : order[k] = id
<1> DEFINE saying == {id \in Ids : wire[id] # <<>>}
           n == Cardinality(saying)
<1>1. IsFiniteSet(saying) /\ n \in Nat
  <2>1. saying \subseteq Ids /\ IsFiniteSet(Ids)
    BY TrackerAssumption
  <2> HIDE DEF saying
  <2>2. QED
    BY <2>1, FS_Subset, FS_CardinalityType
<1>2. order \in [1 .. n -> saying] /\ \A i, j \in 1 .. n : i # j => order[i] # order[j]
  BY DEF Arrivals, SetToSeqs
<1>3. \A id \in Ids : (\E type : Came(id, type)) => id \in saying
  BY NoMessages DEF Came
<1>4. \A id \in saying : id \in Ids
  OBVIOUS
<1> HIDE DEF saying, n
<1>5. order \in Surjection(1 .. n, saying)
  <2>1. order \in Injection(1 .. n, saying)
    BY <1>2 DEF Injection, IsInjective
  <2>2. Cardinality(1 .. n) = n
    BY <1>1, FS_Interval
  <2>3. QED
    BY <1>1, <2>1, <2>2, FS_Injection DEF n
<1>6. Len(order) = n
  <2>1. order \in Seq(saying)
    BY <1>1, <1>2
  <2>2. DOMAIN order = 1 .. n /\ DOMAIN order = 1 .. Len(order) /\ Len(order) \in Nat
    BY <1>2, <2>1
  <2>3. QED
    BY <1>1, <2>2
<1>7. QED
  BY <1>1, <1>2, <1>3, <1>4, <1>5, <1>6 DEF Surjection

(* All messages of a type                                                  *)
LEMMA HandleTypeFacts ==
  ASSUME NEW t \in Trackers, NEW type \in QueueTypes, NEW order \in Arrivals, AllOwn
  PROVE  /\ HandleType(t, type, order) \in Trackers
         /\ \A id \in Ids : InstanceOf(HandleType(t, type, order), id) = Renamed(InstanceOf(t, id), id, type)
         /\ IsSound(t) /\ (\A id \in Ids : ToldByInstance(t, id, type)) => IsSound(HandleType(t, type, order))
<1> DEFINE N == Len(order)
           done(k) == {order[j] : j \in 1 .. k}
           inst(id) == InstanceOf(t, id)
           new(id) == Renamed(inst(id), id, type)
           ok == IsSound(t) /\ \A id \in Ids : ToldByInstance(t, id, type)
           Good(u, k) == /\ u \in Trackers
                         /\ \A id \in Ids : InstanceOf(u, id) = IF id \in done(k) THEN new(id) ELSE inst(id)
                         /\ ok => IsSound(u)
           S == [k \in 0 .. N |-> {u \in Trackers : Good(u, k)}]
<1>1. /\ N \in Nat /\ \A k \in 1 .. N : order[k] \in Ids
      /\ \A id \in Ids : Came(id, type) => id \in done(N)
  BY ArrivalsFacts
<1>2. t \in S[0]
  <2>1. done(0) = {}
    OBVIOUS
  <2> HIDE DEF done
  <2>2. Good(t, 0)
    BY <2>1
  <2>3. QED
    BY <1>1, <2>2
<1>3. ASSUME NEW k \in 1 .. N, NEW u \in S[k - 1]
      PROVE  (IF Came(order[k], type) THEN HandleFrom(u, order[k], type) ELSE u) \in S[k]
  <2> DEFINE x == order[k]
             r == IF Came(x, type) THEN HandleFrom(u, x, type) ELSE u
  <2>1. k \in 0 .. N /\ k - 1 \in 0 .. N /\ Good(u, k - 1) /\ x \in Ids
    BY <1>1
  <2>2. done(k) = done(k - 1) \cup {x}
    <3>1. 1 .. k = (1 .. (k - 1)) \cup {k}
      BY <1>1
    <3>2. QED
      BY <3>1
  <2>3. WireIsOwn(x) /\ Process(x) \in NodeProcesses
    BY <2>1 DEF AllOwn
  <2>4. InstanceOf(u, x) \in {inst(x), new(x)}
    BY <2>1
  <2>5. Renamed(InstanceOf(u, x), x, type) = new(x)
    BY <2>4 DEF Renamed
  <2>6. ok => ToldByInstance(u, x, type)
    <3>1. type \in Telling => type \notin Announcing /\ type # "bye"
      BY DEF Telling, Announcing, BuildInfo, SystemInfo
    <3>2. type \in Telling => InstanceOf(u, x) = inst(x)
      BY <2>4, <3>1 DEF Renamed
    <3>3. QED
      BY <2>1, <3>2 DEF ToldByInstance
  <2>7. u \in Trackers
    BY <2>1
  <2>8. /\ r \in Trackers /\ Others(u, r, x) /\ InstanceOf(r, x) = Renamed(InstanceOf(u, x), x, type)
        /\ IsSound(u) /\ ToldByInstance(u, x, type) => IsSound(r)
    <3>1. CASE Came(x, type)
      BY <2>1, <2>3, <2>7, <3>1, HandleFromFacts
    <3>2. CASE ~Came(x, type)
      BY <2>7, <3>2 DEF Renamed, Others
    <3>3. QED
      BY <3>1, <3>2
  <2> HIDE DEF r, done, new, inst, ok
  <2>9. ASSUME NEW id \in Ids
        PROVE  InstanceOf(r, id) = IF id \in done(k) THEN new(id) ELSE inst(id)
    <3>1. CASE id = x
      BY <2>2, <2>5, <2>8, <3>1
    <3>2. CASE id # x
      <4>1. InstanceOf(r, id) = InstanceOf(u, id)
        BY <2>8, <3>2 DEF Others, InstanceOf
      <4>2. QED
        BY <2>1, <2>2, <3>2, <4>1
    <3>3. QED
      BY <3>1, <3>2
  <2>10. Good(r, k)
    BY <2>1, <2>6, <2>8, <2>9
  <2>11. QED
    BY <2>1, <2>8, <2>10 DEF r
<1>4. HandleType(t, type, order) \in S[N]
  <2> HIDE DEF S
  <2>1. QED
    BY <1>1, <1>2, <1>3, HandleTypeStays DEF N
<1>5. Good(HandleType(t, type, order), N)
  BY <1>1, <1>4
<1>6. \A id \in Ids : ~Came(id, type) => new(id) = inst(id)
  BY DEF Renamed
<1> HIDE DEF done
<1>7. QED
  BY <1>1, <1>5, <1>6

(* The order of the queues                                                 *)
LEMMA QueueOrderFacts ==
  /\ Len(QueueOrder) = 17 /\ \A k \in 1 .. 17 : QueueOrder[k] \in QueueTypes
  /\ \A k \in 1 .. 4 : QueueOrder[k] \in Announcing
  /\ QueueOrder[5] = "bye"
  /\ \A k \in 6 .. 17 : QueueOrder[k] \in Counting \cup Telling
  /\ \A a \in Announcing : \E k \in 1 .. 4 : QueueOrder[k] = a
<1>1. /\ Len(QueueOrder) = 17 /\ QueueOrder[1] = "alive" /\ QueueOrder[2] = "subscribed"
      /\ QueueOrder[3] = "unsubscribed" /\ QueueOrder[4] = "topology" /\ QueueOrder[5] = "bye"
      /\ QueueOrder[6] = "stats" /\ QueueOrder[7] = "connStats" /\ QueueOrder[8] = "info"
      /\ QueueOrder[9] = "appName" /\ QueueOrder[10] = "hostId" /\ QueueOrder[11] = "hostname"
      /\ QueueOrder[12] = "buildVersion" /\ QueueOrder[13] = "compiler"
      /\ QueueOrder[14] = "cpuThreads" /\ QueueOrder[15] = "totalRam"
      /\ QueueOrder[16] = "totalSwap" /\ QueueOrder[17] = "pong"
  BY DEF QueueOrder
<1>2. \A k \in 1 .. 4 : k = 1 \/ k = 2 \/ k = 3 \/ k = 4
  OBVIOUS
<1>3. \A k \in 6 .. 17 : \/ k = 6 \/ k = 7 \/ k = 8 \/ k = 9 \/ k = 10 \/ k = 11
                         \/ k = 12 \/ k = 13 \/ k = 14 \/ k = 15 \/ k = 16 \/ k = 17
  OBVIOUS
<1>4. \A k \in 1 .. 4 : QueueOrder[k] \in Announcing
  BY <1>1, <1>2 DEF Announcing
<1>5. \A k \in 6 .. 17 : QueueOrder[k] \in Counting \cup Telling
  BY <1>1, <1>3 DEF Counting, Telling, BuildInfo, SystemInfo
<1>6. \A a \in Announcing : \E k \in 1 .. 4 : QueueOrder[k] = a
  <2>1. 1 \in 1 .. 4 /\ 2 \in 1 .. 4 /\ 3 \in 1 .. 4 /\ 4 \in 1 .. 4
    OBVIOUS
  <2>2. QED
    BY <1>1, <2>1 DEF Announcing
<1>7. \A k \in 1 .. 17 : k \in 1 .. 4 \/ k = 5 \/ k \in 6 .. 17
  OBVIOUS
<1>8. QED
  BY <1>1, <1>4, <1>5, <1>6, <1>7 DEF QueueTypes

\* What a node told that is not handled after its bye-bye is of the instance
\* it is shown with, or comes with an announcement of it
IsAnnounced(id) == \E a \in Announcing : Came(id, a)
IsExpected(t) ==
    \A id \in Ids : (\E type \in Telling : Came(id, type)) =>
        ~Came(id, "bye") /\ (InstanceOf(t, id) = Process(id) \/ IsAnnounced(id))

\* The instance that is shown of a node after all its messages
ShownAfter(inst, id) ==
    IF Came(id, "bye") THEN Nothing ELSE IF IsAnnounced(id) THEN Process(id) ELSE inst

(* All messages of a turn                                                  *)
LEMMA ProcessMessagesFacts ==
  ASSUME NEW t \in Trackers, NEW order \in Arrivals, AllOwn
  PROVE  /\ ProcessMessages(t, order) \in Trackers
         /\ \A id \in Ids : InstanceOf(ProcessMessages(t, order), id) = ShownAfter(InstanceOf(t, id), id)
         /\ IsSound(t) /\ IsExpected(t) => IsSound(ProcessMessages(t, order))
<1> DEFINE N == Len(QueueOrder)
           Q(k) == QueueOrder[k]
           inst(id) == InstanceOf(t, id)
           early(id, k) == \E j \in 1 .. k : Q(j) \in Announcing /\ Came(id, Q(j))
           name(id, k) == IF k >= 5 /\ Came(id, "bye") THEN Nothing
                          ELSE IF early(id, k) THEN Process(id) ELSE inst(id)
           ok == IsSound(t) /\ IsExpected(t)
           Good(u, k) == /\ u \in Trackers
                         /\ \A id \in Ids : InstanceOf(u, id) = name(id, k)
                         /\ ok => IsSound(u)
           S == [k \in 0 .. N |-> {u \in Trackers : Good(u, k)}]
<1>1. /\ N = 17 /\ \A k \in 1 .. 17 : Q(k) \in QueueTypes
      /\ \A k \in 1 .. 4 : Q(k) \in Announcing
      /\ Q(5) = "bye" /\ \A k \in 6 .. 17 : Q(k) \in Counting \cup Telling
      /\ \A a \in Announcing : \E k \in 1 .. 4 : Q(k) = a
  BY QueueOrderFacts
<1>2. /\ \A type \in Counting \cup Telling : type \notin Announcing /\ type # "bye"
      /\ "bye" \notin Announcing /\ \A type \in Counting : type \notin Telling
      /\ "bye" \notin Telling /\ \A type \in Announcing : type \notin Telling /\ type # "bye"
  BY DEF Counting, Telling, Announcing, BuildInfo, SystemInfo
<1> HIDE DEF N, Q
<1>3. ASSUME NEW id \in Ids, NEW k \in 5 .. 17 PROVE early(id, k) <=> IsAnnounced(id)
  <2>1. ASSUME NEW a \in Announcing, Came(id, a) PROVE early(id, k)
    <3>1. PICK j \in 1 .. 4 : Q(j) = a
      BY <1>1
    <3>2. j \in 1 .. k
      OBVIOUS
    <3>3. QED
      BY <2>1, <3>1, <3>2
  <2>2. early(id, k) => IsAnnounced(id)
    BY DEF IsAnnounced
  <2>3. QED
    BY <2>1, <2>2 DEF IsAnnounced
<1>4. ASSUME NEW id \in Ids, NEW k \in 1 .. 17
      PROVE  early(id, k) <=> early(id, k - 1) \/ (Q(k) \in Announcing /\ Came(id, Q(k)))
  <2>1. 1 .. k = (1 .. (k - 1)) \cup {k}
    OBVIOUS
  <2>2. QED
    BY <2>1
<1>5. \A id \in Ids : ~early(id, 0)
  OBVIOUS
<1> HIDE DEF early
<1>6. t \in S[0]
  <2>1. Good(t, 0)
    BY <1>5
  <2>2. QED
    BY <1>1, <2>1
<1>7. ASSUME NEW k \in 1 .. N, NEW u \in S[k - 1]
      PROVE  (IF HaveCome(Q(k)) THEN HandleType(u, Q(k), order) ELSE u) \in S[k]
  <2> DEFINE r == IF HaveCome(Q(k)) THEN HandleType(u, Q(k), order) ELSE u
  <2>1. /\ k \in 1 .. 17 /\ k \in 0 .. N /\ k - 1 \in 0 .. N /\ Good(u, k - 1)
    BY <1>1
  <2>2. u \in Trackers /\ Q(k) \in QueueTypes
    BY <1>1, <2>1
  <2>3. /\ r \in Trackers
        /\ \A id \in Ids : InstanceOf(r, id) = Renamed(InstanceOf(u, id), id, Q(k))
        /\ IsSound(u) /\ (\A id \in Ids : ToldByInstance(u, id, Q(k))) => IsSound(r)
    <3>1. CASE HaveCome(Q(k))
      BY <2>2, <3>1, HandleTypeFacts
    <3>2. CASE ~HaveCome(Q(k))
      BY <2>2, <3>2 DEF HaveCome, Renamed
    <3>3. QED
      BY <3>1, <3>2
  <2>4. k \in 1 .. 4 \/ k = 5 \/ k \in 6 .. 17
    BY <2>1
  <2>5. ASSUME NEW id \in Ids PROVE Renamed(name(id, k - 1), id, Q(k)) = name(id, k)
    <3>1. early(id, k) <=> early(id, k - 1) \/ (Q(k) \in Announcing /\ Came(id, Q(k)))
      BY <1>4, <2>1
    <3>2. CASE k \in 1 .. 4
      <4>1. Q(k) \in Announcing /\ ~(k >= 5) /\ ~(k - 1 >= 5)
        BY <1>1, <3>2
      <4>2. QED
        BY <3>1, <4>1 DEF Renamed
    <3>3. CASE k = 5
      <4>1. Q(k) = "bye" /\ Q(k) \notin Announcing /\ k >= 5 /\ ~(k - 1 >= 5)
        BY <1>1, <1>2, <3>3
      <4>2. QED
        BY <3>1, <4>1 DEF Renamed
    <3>4. CASE k \in 6 .. 17
      <4>1. Q(k) # "bye" /\ Q(k) \notin Announcing /\ k >= 5 /\ k - 1 >= 5
        BY <1>1, <1>2, <3>4
      <4>2. QED
        BY <3>1, <4>1 DEF Renamed
    <3>5. QED
      BY <2>4, <3>2, <3>3, <3>4
  <2>6. ASSUME ok, NEW id \in Ids PROVE ToldByInstance(u, id, Q(k))
    <3>1. SUFFICES ASSUME Came(id, Q(k)), Q(k) \in Telling PROVE InstanceOf(u, id) = Process(id)
      BY DEF ToldByInstance
    <3>2. ~Came(id, "bye") /\ (inst(id) = Process(id) \/ IsAnnounced(id))
      BY <2>6, <3>1 DEF IsExpected
    <3>3. k \in 6 .. 17
      BY <1>1, <1>2, <2>4, <3>1
    <3>4. k - 1 \in 5 .. 17
      BY <3>3
    <3>5. early(id, k - 1) <=> IsAnnounced(id)
      BY <1>3, <3>4
    <3>6. InstanceOf(u, id) = name(id, k - 1)
      BY <2>1
    <3>7. QED
      BY <3>2, <3>5, <3>6
  <2> HIDE DEF r, ok, inst
  <2>7. \A id \in Ids : InstanceOf(r, id) = name(id, k)
    BY <2>1, <2>3, <2>5
  <2>8. ok => IsSound(r)
    BY <2>1, <2>3, <2>6
  <2> HIDE DEF name
  <2>9. r \in S[k]
    BY <2>1, <2>3, <2>7, <2>8
  <2>10. QED
    BY <2>9 DEF r
<1>8. ProcessMessages(t, order) \in S[N]
  <2> HIDE DEF S
  <2>1. N \in Nat
    BY <1>1
  <2>2. QED
    BY <1>6, <1>7, <2>1, ProcessStays DEF N, Q
<1>9. Good(ProcessMessages(t, order), 17)
  BY <1>1, <1>8
<1>10. \A id \in Ids : name(id, 17) = ShownAfter(inst(id), id)
  BY <1>3 DEF ShownAfter
<1> HIDE DEF name
<1>11. QED
  BY <1>9, <1>10


-----------------------------------------------------------------------------
(* What the update makes of a tracker before the messages are handled.     *)

\* r has what t shows of every node
ShowsTheSame(t, r) == r \in Trackers /\ \A x \in Ids : SameIdentity(NodeOf(t, x), NodeOf(r, x))

(* With what is shown of the nodes stays whose they are                    *)
LEMMA SameShownSound ==
  ASSUME NEW t, NEW r, ShowsTheSame(t, r), NodesAreSound(t)
  PROVE  NodesAreSound(r)
BY DEF ShowsTheSame, SameIdentity, NodesAreSound, NodeIsSound

(* Pings that time out                                                     *)
LEMMA PingTimeoutsFacts ==
  ASSUME NEW t \in Trackers, NEW ids \in SUBSET Ids
  PROVE  /\ ShowsTheSame(t, PingTimeouts(t, ids))
         /\ PingTimeouts(t, ids).instances = t.instances /\ PingTimeouts(t, ids).hosts = t.hosts
<1> DEFINE found(id) == GetNode(t, id).nodes[id]
           late(id) == [found(id) EXCEPT !.pingBits = Shifted(@, FALSE)]
           w == [id \in DOMAIN t.nodes \cup ids |-> IF id \in ids THEN late(id) ELSE t.nodes[id]]
           r == PingTimeouts(t, ids)
<1>1. ASSUME NEW id \in Ids
      PROVE  /\ found(id) = NodeOf(t, id) /\ late(id) \in NodeStates
             /\ SameIdentity(NodeOf(t, id), late(id))
  <2>1. found(id) = NodeOf(t, id) /\ NodeOf(t, id) \in NodeStates
    BY GetNodeFacts, NodeOfType
  <2> HIDE DEF found
  <2>2. found(id).pingBits \in Nat /\ found(id) \in NodeStates
    BY <2>1 DEF NodeStates
  <2>3. Shifted(found(id).pingBits, FALSE) \in Nat
    BY <2>2, ShiftedType
  <2>4. late(id) \in NodeStates /\ SameIdentity(found(id), late(id))
    BY <2>2, <2>3 DEF NodeStates, SameIdentity
  <2>5. QED
    BY <2>1, <2>4
<1> HIDE DEF late
<1>2. /\ DOMAIN t.nodes \subseteq Ids /\ \A id \in DOMAIN t.nodes : t.nodes[id] \in NodeStates
      /\ t.pings \in SUBSET Ids
  BY StateTypes, TrackerFields
<1>3. w \in Partial(Ids, NodeStates)
  <2>1. /\ w = [x \in DOMAIN w |-> w[x]] /\ DOMAIN w \subseteq Ids
        /\ \A x \in DOMAIN w : w[x] \in NodeStates
    BY <1>1, <1>2
  <2> HIDE DEF w
  <2>2. QED
    BY <2>1, IsPartial
<1>4. /\ r.nodes = w /\ r.instances = t.instances /\ r.hosts = t.hosts
      /\ r = [t EXCEPT !.pings = @ \ ids, !.nodes = w]
  BY DEF PingTimeouts, late, Trackers
<1>5. r \in Trackers
  <2> HIDE DEF w, r
  <2> DEFINE pings == t.pings \ ids
  <2>1. pings \in SUBSET Ids /\ r = [t EXCEPT !.pings = pings, !.nodes = w]
    BY <1>2, <1>4
  <2> HIDE DEF pings
  <2>2. QED
    BY <1>3, <2>1 DEF Trackers
<1>6. ASSUME NEW x \in Ids PROVE SameIdentity(NodeOf(t, x), NodeOf(r, x))
  <2>1. DOMAIN w = DOMAIN t.nodes \cup ids
    OBVIOUS
  <2>2. CASE x \in ids
    <3>1. NodeOf(r, x) = late(x)
      BY <1>4, <2>1, <2>2 DEF NodeOf
    <3>2. QED
      BY <1>1, <3>1
  <2>3. CASE x \notin ids
    <3>1. NodeOf(r, x) = NodeOf(t, x)
      BY <1>4, <2>1, <2>3 DEF NodeOf
    <3>2. QED
      BY <3>1 DEF SameIdentity
  <2>4. QED
    BY <2>2, <2>3
<1> HIDE DEF r
<1>7. QED
  BY <1>4, <1>5, <1>6 DEF ShowsTheSame, r

(* What is reported of an instance or a host changes nothing that is shown *)
LEMMA UpdatedFacts ==
  /\ \A s \in InstanceStates : /\ [Updated(s) EXCEPT !.changes = {}] \in InstanceStates
                               /\ [Updated(s) EXCEPT !.changes = {}].known = s.known
                               /\ [Updated(s) EXCEPT !.changes = {}].host = s.host
  /\ \A s \in HostStates : /\ [Updated(s) EXCEPT !.changes = {}] \in HostStates
                           /\ [Updated(s) EXCEPT !.changes = {}].known = s.known
<1>1. ASSUME NEW s \in InstanceStates
      PROVE  /\ [Updated(s) EXCEPT !.changes = {}] \in InstanceStates
             /\ [Updated(s) EXCEPT !.changes = {}].known = s.known
             /\ [Updated(s) EXCEPT !.changes = {}].host = s.host
  <2>1. CASE s.wasAlive = s.expired
    BY <2>1 DEF Updated, InstanceStates
  <2>2. CASE s.wasAlive # s.expired
    BY <2>2 DEF Updated, InstanceStates
  <2>3. QED
    BY <2>1, <2>2
<1>2. ASSUME NEW s \in HostStates
      PROVE  /\ [Updated(s) EXCEPT !.changes = {}] \in HostStates
             /\ [Updated(s) EXCEPT !.changes = {}].known = s.known
  <2>1. CASE s.wasAlive = s.expired
    BY <2>1 DEF Updated, HostStates
  <2>2. CASE s.wasAlive # s.expired
    BY <2>2 DEF Updated, HostStates
  <2>3. QED
    BY <2>1, <2>2
<1>3. QED
  BY <1>1, <1>2

(* What was reported is not reported again, and nothing else changes       *)
LEMMA ChangedFacts ==
  ASSUME NEW t \in Trackers
  PROVE  ShowsTheSame(t, Changed(t)) /\ (IsSound(t) => IsSound(Changed(t)))
<1> DEFINE Report(s) == [Updated(s) EXCEPT !.changes = {}]
           instances == [k \in DOMAIN t.instances |-> Report(t.instances[k])]
           hosts == [k \in DOMAIN t.hosts |-> Report(t.hosts[k])]
           nodes == [x \in DOMAIN t.nodes |-> [t.nodes[x] EXCEPT !.newInstance = FALSE]]
           r == Changed(t)
<1>1. /\ \A id \in DOMAIN t.nodes : id \in Ids /\ t.nodes[id] \in NodeStates
      /\ \A i \in DOMAIN t.instances : i \in NodeProcesses /\ t.instances[i] \in InstanceStates
      /\ \A h \in DOMAIN t.hosts : h \in MaybeHosts /\ t.hosts[h] \in HostStates
  BY StateTypes
<1>2. /\ \A s \in InstanceStates : Report(s) \in InstanceStates /\ Report(s).known = s.known
                                   /\ Report(s).host = s.host
      /\ \A s \in HostStates : Report(s) \in HostStates /\ Report(s).known = s.known
  BY UpdatedFacts
<1>3. r = [t EXCEPT !.instances = instances, !.hosts = hosts, !.nodes = nodes]
  BY DEF Changed
<1> HIDE DEF Report
<1>4. instances \in Partial(NodeProcesses, InstanceStates)
  <2>1. \A k \in DOMAIN instances : instances[k] \in InstanceStates
    BY <1>1, <1>2
  <2>2. instances = [k \in DOMAIN instances |-> instances[k]] /\ DOMAIN instances \subseteq NodeProcesses
    BY <1>1
  <2> HIDE DEF instances
  <2>3. QED
    BY <2>1, <2>2, IsPartial
<1>5. hosts \in Partial(MaybeHosts, HostStates)
  <2>1. \A k \in DOMAIN hosts : hosts[k] \in HostStates
    BY <1>1, <1>2
  <2>2. hosts = [k \in DOMAIN hosts |-> hosts[k]] /\ DOMAIN hosts \subseteq MaybeHosts
    BY <1>1
  <2> HIDE DEF hosts
  <2>3. QED
    BY <2>1, <2>2, IsPartial
<1>6. nodes \in Partial(Ids, NodeStates) /\ \A x \in DOMAIN t.nodes : SameIdentity(t.nodes[x], nodes[x])
  <2>1. \A n \in NodeStates : /\ [n EXCEPT !.newInstance = FALSE] \in NodeStates
                              /\ SameIdentity(n, [n EXCEPT !.newInstance = FALSE])
    BY DEF NodeStates, SameIdentity
  <2>2. /\ \A x \in DOMAIN nodes : nodes[x] \in NodeStates
        /\ \A x \in DOMAIN t.nodes : SameIdentity(t.nodes[x], nodes[x])
    BY <1>1, <2>1
  <2>3. nodes = [k \in DOMAIN nodes |-> nodes[k]] /\ DOMAIN nodes \subseteq Ids
    BY <1>1
  <2> HIDE DEF nodes
  <2>4. QED
    BY <2>2, <2>3, IsPartial
<1>7. /\ DOMAIN nodes = DOMAIN t.nodes
      /\ DOMAIN instances = DOMAIN t.instances /\ DOMAIN hosts = DOMAIN t.hosts
      /\ \A i \in DOMAIN t.instances : InstanceIsSound(i, t.instances[i]) => InstanceIsSound(i, instances[i])
      /\ \A h \in DOMAIN t.hosts : HostIsSound(h, t.hosts[h]) => HostIsSound(h, hosts[h])
  BY <1>1, <1>2 DEF InstanceIsSound, HostIsSound
<1> HIDE DEF nodes, instances, hosts, r
<1>8. /\ r \in Trackers /\ r.nodes = nodes /\ r.instances = instances /\ r.hosts = hosts
  BY <1>3, <1>4, <1>5, <1>6 DEF Trackers
<1>9. \A x \in Ids : SameIdentity(NodeOf(t, x), NodeOf(r, x))
  BY <1>6, <1>7, <1>8 DEF NodeOf, SameIdentity
<1>10. ShowsTheSame(t, r)
  BY <1>8, <1>9 DEF ShowsTheSame
<1>11. IsSound(t) => IsSound(r)
  BY <1>7, <1>8, <1>10, SameShownSound DEF IsSound, InstancesAreSound, HostsAreSound
<1>12. QED
  BY <1>10, <1>11 DEF r

\* What the tracker has before it handles the messages
BeforeMessages(late, pinged) == [Changed(PingTimeouts(tracker, late)) EXCEPT !.pings = @ \cup pinged]

(* The update                                                              *)
LEMMA UpdateFacts ==
  ASSUME tracker \in Trackers, NEW late \in SUBSET Ids, NEW pinged \in SUBSET Ids
  PROVE  /\ ShowsTheSame(tracker, BeforeMessages(late, pinged))
         /\ IsSound(tracker) => IsSound(BeforeMessages(late, pinged))
<1> DEFINE t == PingTimeouts(tracker, late)
           u == Changed(t)
           r == BeforeMessages(late, pinged)
<1>1. /\ ShowsTheSame(tracker, t) /\ t.instances = tracker.instances /\ t.hosts = tracker.hosts
  BY PingTimeoutsFacts
<1>2. t \in Trackers /\ (IsSound(tracker) => IsSound(t))
  BY <1>1, SameShownSound DEF ShowsTheSame, IsSound, InstancesAreSound, HostsAreSound
<1>3. ShowsTheSame(t, u) /\ (IsSound(t) => IsSound(u))
  BY <1>2, ChangedFacts
<1>4. r = [u EXCEPT !.pings = @ \cup pinged] /\ u \in Trackers
  BY <1>3 DEF BeforeMessages, ShowsTheSame
<1> HIDE DEF r, u, t
<1>5. r \in Trackers /\ r.nodes = u.nodes /\ r.instances = u.instances /\ r.hosts = u.hosts
  BY <1>4 DEF Trackers
<1>6. \A x : NodeOf(r, x) = NodeOf(u, x)
  BY <1>5 DEF NodeOf
<1>7. ShowsTheSame(tracker, r)
  BY <1>1, <1>3, <1>5, <1>6 DEF ShowsTheSame, SameIdentity
<1>8. IsSound(u) => IsSound(r)
  BY <1>5, <1>6 DEF IsSound, NodesAreSound, InstancesAreSound, HostsAreSound
<1>9. QED
  BY <1>2, <1>3, <1>7, <1>8 DEF r


-----------------------------------------------------------------------------
(* What holds of the nodes and of what is shown of them.                   *)

Mishaps == [count : Nat, announcementLost : BOOLEAN, overtaken : BOOLEAN]
TrackerTypes ==
    /\ world \in [Ids -> [starts : Nat, up : BOOLEAN]]
    /\ wire \in [Ids -> Seq(NodeMessages)]
    /\ tracker \in Trackers /\ byes \in SUBSET NodeProcesses /\ mishaps \in Mishaps

\* Nothing of an announcement was lost, and no answer came after the bye-bye
Unharmed == ~mishaps.announcementLost /\ ~mishaps.overtaken

\* What may come from a node: of its process, and a router tells nothing of itself
Own(id) == {m \in NodeMessages : m.from = Process(id) /\ (id \in Routers => m.type \notin Telling)}

\* A bye-bye is the last word of a process; what is shown is never of one whose
\* bye-bye was handled
NodeInv(id) ==
    /\ Range(wire[id]) \subseteq Own(id)
    /\ Came(id, "bye") => ~world[id].up
    /\ \A q \in byes : q[1] = id => /\ q[2] <= world[id].starts
                                    /\ q = Process(id) => ~world[id].up /\ wire[id] = <<>>
    /\ InstanceOf(tracker, id) # Nothing => InstanceOf(tracker, id)[1] = id
    /\ InstanceOf(tracker, id) \notin byes

\* What an endpoint tells comes with its announcement or is after it
AnnouncedOrShown(id) ==
    id \notin Routers /\ (world[id].up \/ wire[id] # <<>>) =>
        Came(id, "alive") \/ Came(id, "subscribed") \/ InstanceOf(tracker, id) = Process(id)

TrackerIInv ==
    /\ TrackerTypes
    /\ \A id \in Ids : NodeInv(id)
    /\ Unharmed => IsSound(tracker) /\ \A id \in Ids : AnnouncedOrShown(id)

(* The process of a node                                                   *)
LEMMA NodeProcessType ==
  ASSUME TrackerTypes, NEW id \in Ids
  PROVE  Process(id) \in NodeProcesses /\ Process(id)[1] = id /\ Process(id)[2] = world[id].starts
<1>1. world[id].starts \in Nat
  BY DEF TrackerTypes
<1>2. QED
  BY <1>1 DEF Process, NodeProcesses

(* A step of one node keeps what holds of the others                       *)
LEMMA NodeMoves ==
  ASSUME TrackerIInv, NEW id \in Ids, tracker' = tracker, byes' = byes, mishaps' \in Mishaps,
         world' \in [Ids -> [starts : Nat, up : BOOLEAN]], wire' \in [Ids -> Seq(NodeMessages)],
         \A x \in Ids \ {id} : world'[x] = world[x] /\ wire'[x] = wire[x],
         NodeInv(id)', Unharmed' => Unharmed /\ AnnouncedOrShown(id)'
  PROVE  TrackerIInv'
<1>1. TrackerTypes'
  BY DEF TrackerIInv, TrackerTypes
<1>2. \A x \in Ids \ {id} : Process(x)' = Process(x) /\ Own(x)' = Own(x)
  BY DEF Process, Own
<1>3. \A x \in Ids \ {id} : NodeInv(x)'
  BY <1>2 DEF TrackerIInv, NodeInv, Came, InstanceOf, NodeOf
<1>4. \A x \in Ids \ {id} : AnnouncedOrShown(x) => AnnouncedOrShown(x)'
  BY <1>2 DEF AnnouncedOrShown, Came, InstanceOf, NodeOf
<1>5. Unharmed' => IsSound(tracker)' /\ \A x \in Ids : AnnouncedOrShown(x)'
  <2>1. IsSound(tracker)' = IsSound(tracker)
    BY DEF IsSound, NodesAreSound, InstancesAreSound, HostsAreSound, NodeOf
  <2>2. QED
    BY <1>4, <2>1 DEF TrackerIInv
<1>6. QED
  BY <1>1, <1>3, <1>5 DEF TrackerIInv

(* What is on the wire                                                     *)
LEMMA AppendedRange ==
  ASSUME NEW T, NEW s \in Seq(T), NEW r \in Seq(T)
  PROVE  /\ s \o r \in Seq(T) /\ Range(s \o r) = Range(s) \cup Range(r)
         /\ s \o r = <<>> => s = <<>> /\ r = <<>>
<1>1. /\ s \o r \in Seq(T) /\ Len(s \o r) = Len(s) + Len(r)
      /\ \A i \in 1 .. Len(s) + Len(r) : (s \o r)[i] = IF i <= Len(s) THEN s[i] ELSE r[i - Len(s)]
  BY ConcatProperties
<1>2. /\ DOMAIN (s \o r) = 1 .. Len(s) + Len(r) /\ DOMAIN s = 1 .. Len(s) /\ DOMAIN r = 1 .. Len(r)
      /\ Len(s) \in Nat /\ Len(r) \in Nat
  BY <1>1
<1> DEFINE a == Len(s)
           b == Len(r)
           c == s \o r
<1> HIDE DEF a, b, c
<1>3. /\ \A i \in 1 .. a + b : c[i] = IF i <= a THEN s[i] ELSE r[i - a]
      /\ DOMAIN c = 1 .. a + b /\ DOMAIN s = 1 .. a /\ DOMAIN r = 1 .. b
      /\ a \in Nat /\ b \in Nat
  BY <1>1, <1>2 DEF a, b, c
<1>4. Range(c) \subseteq Range(s) \cup Range(r)
  <2>1. \A i \in 1 .. a + b : (i <= a /\ i \in 1 .. a) \/ (~(i <= a) /\ i - a \in 1 .. b)
    BY <1>3
  <2>2. QED
    BY <1>3, <2>1 DEF Range
<1>5. Range(s) \subseteq Range(c)
  <2>1. \A i \in 1 .. a : i \in 1 .. a + b /\ i <= a
    BY <1>3
  <2>2. QED
    BY <1>3, <2>1 DEF Range
<1>6. Range(r) \subseteq Range(c)
  <2>1. ASSUME NEW i \in 1 .. b PROVE r[i] \in Range(c)
    <3>1. i + a \in 1 .. a + b /\ ~(i + a <= a) /\ (i + a) - a = i
      BY <1>3
    <3>2. c[i + a] = r[i]
      BY <1>3, <3>1
    <3>3. QED
      BY <1>3, <3>1, <3>2 DEF Range
  <2>2. QED
    BY <1>3, <2>1 DEF Range
<1>7. QED
  BY <1>1, <1>4, <1>5, <1>6, ConcatSimplifications DEF c

(* A sequence of one message                                               *)
LEMMA OneMessage ==
  ASSUME NEW T, NEW m \in T
  PROVE  <<m>> \in Seq(T) /\ Range(<<m>>) = {m} /\ <<m>> # <<>>
<1>1. <<m>> \in Seq(T) /\ DOMAIN <<m>> = {1} /\ <<m>>[1] = m /\ Len(<<m>>) = 1 /\ Len(<<>>) = 0
  OBVIOUS
<1>2. QED
  BY <1>1 DEF Range

(* A message that is taken out leaves the others                           *)
LEMMA RemovedRange ==
  ASSUME NEW T, NEW s \in Seq(T), NEW i \in DOMAIN s
  PROVE  /\ RemoveAt(s, i) \in Seq(T) /\ Range(RemoveAt(s, i)) \subseteq Range(s)
         /\ \A j \in DOMAIN s \ {i} : s[j] \in Range(RemoveAt(s, i))
<1> DEFINE n == Len(s)
           a == SubSeq(s, 1, i - 1)
           b == SubSeq(s, i + 1, n)
<1>1. n \in Nat /\ DOMAIN s = 1 .. n /\ i \in 1 .. n /\ \A j \in 1 .. n : s[j] \in T
  OBVIOUS
<1> HIDE DEF n
<1>2. /\ a \in Seq(T) /\ Len(a) = i - 1 /\ \A j \in 1 .. i - 1 : a[j] = s[j]
  <2>1. \A j \in 1 .. i - 1 : s[j] \in T
    BY <1>1
  <2>2. 1 \in Int /\ i - 1 \in Int
    BY <1>1
  <2>3. /\ a \in Seq(T) /\ Len(a) = (IF 1 <= i - 1 THEN (i - 1) - 1 + 1 ELSE 0)
        /\ \A j \in 1 .. (i - 1) - 1 + 1 : a[j] = s[1 + j - 1]
    BY <2>1, <2>2, SubSeqProperties
  <2> HIDE DEF a
  <2>4. \A j \in 1 .. i - 1 : j \in 1 .. (i - 1) - 1 + 1 /\ 1 + j - 1 = j
    BY <1>1
  <2>5. (IF 1 <= i - 1 THEN (i - 1) - 1 + 1 ELSE 0) = i - 1
    BY <1>1
  <2>6. QED
    BY <2>3, <2>4, <2>5
<1>3. /\ b \in Seq(T) /\ Len(b) = n - i /\ \A j \in 1 .. n - i : b[j] = s[i + j]
  <2>1. \A j \in i + 1 .. n : s[j] \in T
    BY <1>1
  <2>2. i + 1 \in Int /\ n \in Int
    BY <1>1
  <2>3. /\ b \in Seq(T) /\ Len(b) = (IF i + 1 <= n THEN n - (i + 1) + 1 ELSE 0)
        /\ \A j \in 1 .. n - (i + 1) + 1 : b[j] = s[(i + 1) + j - 1]
    BY <2>1, <2>2, SubSeqProperties
  <2> HIDE DEF b
  <2>4. \A j \in 1 .. n - i : j \in 1 .. n - (i + 1) + 1 /\ (i + 1) + j - 1 = i + j
    BY <1>1
  <2>5. (IF i + 1 <= n THEN n - (i + 1) + 1 ELSE 0) = n - i
    BY <1>1
  <2>6. QED
    BY <2>3, <2>4, <2>5
<1>4. RemoveAt(s, i) = a \o b
  BY DEF RemoveAt, n
<1>5. DOMAIN a = 1 .. i - 1 /\ DOMAIN b = 1 .. n - i
  BY <1>2, <1>3
<1> HIDE DEF a, b
<1>6. Range(a) \subseteq Range(s) /\ Range(b) \subseteq Range(s)
  <2>1. /\ \A j \in 1 .. i - 1 : j \in 1 .. n
        /\ \A j \in 1 .. n - i : i + j \in 1 .. n
    BY <1>1
  <2>2. \A j \in 1 .. n : s[j] \in Range(s)
    BY <1>1 DEF Range
  <2>3. \A j \in 1 .. i - 1 : a[j] \in Range(s)
    BY <1>2, <2>1, <2>2
  <2>4. \A j \in 1 .. n - i : b[j] \in Range(s)
    BY <1>3, <2>1, <2>2
  <2>5. QED
    BY <1>5, <2>3, <2>4 DEF Range
<1>7. \A j \in 1 .. n : j # i => s[j] \in Range(a) \cup Range(b)
  <2>1. \A j \in 1 .. n : j # i => j \in 1 .. i - 1 \/ (j - i \in 1 .. n - i /\ i + (j - i) = j)
    BY <1>1
  <2>2. \A j \in 1 .. i - 1 : a[j] \in Range(a)
    BY <1>5 DEF Range
  <2>3. \A j \in 1 .. n - i : b[j] \in Range(b)
    BY <1>5 DEF Range
  <2>4. QED
    BY <1>2, <1>3, <2>1, <2>2, <2>3
<1>8. a \o b \in Seq(T) /\ Range(a \o b) = Range(a) \cup Range(b)
  BY <1>2, <1>3, AppendedRange
<1>9. QED
  BY <1>1, <1>4, <1>6, <1>7, <1>8


-----------------------------------------------------------------------------
(* The steps of the nodes.                                                 *)

(* A node that is there says more, and may end with it                     *)
LEMMA NodeSays ==
  ASSUME TrackerIInv, NEW id \in Ids, NEW more \in Seq(Own(id)), NEW stays \in BOOLEAN, world[id].up,
         world' = [world EXCEPT ![id].up = stays], wire' = [wire EXCEPT ![id] = @ \o more],
         \A m \in Range(more) : m.type = "bye" => ~stays,
         tracker' = tracker, byes' = byes, mishaps' \in Mishaps, Unharmed' => Unharmed
  PROVE  TrackerIInv'
<1>1. /\ world \in [Ids -> [starts : Nat, up : BOOLEAN]] /\ wire \in [Ids -> Seq(NodeMessages)]
      /\ NodeInv(id) /\ (Unharmed => AnnouncedOrShown(id))
  BY DEF TrackerIInv, TrackerTypes
<1>2. /\ world'[id].starts = world[id].starts /\ world'[id].up = stays
      /\ world' \in [Ids -> [starts : Nat, up : BOOLEAN]]
      /\ wire'[id] = wire[id] \o more
      /\ \A x \in Ids \ {id} : world'[x] = world[x] /\ wire'[x] = wire[x]
  BY <1>1
<1>3. more \in Seq(NodeMessages) /\ Range(more) \subseteq Own(id)
  <2>1. Len(more) \in Nat /\ more \in [1 .. Len(more) -> Own(id)] /\ Own(id) \subseteq NodeMessages
    BY DEF Own
  <2>2. more \in [1 .. Len(more) -> NodeMessages]
    BY <2>1
  <2>3. more \in Seq(NodeMessages)
    BY <2>1, <2>2
  <2>4. QED
    BY <2>1, <2>3 DEF Range
<1>4. /\ wire[id] \o more \in Seq(NodeMessages)
      /\ Range(wire[id] \o more) = Range(wire[id]) \cup Range(more)
      /\ wire[id] \o more = <<>> => wire[id] = <<>>
  BY <1>1, <1>3, AppendedRange
<1>5. wire' \in [Ids -> Seq(NodeMessages)]
  BY <1>1, <1>4
<1>6. Process(id)' = Process(id) /\ Own(id)' = Own(id)
  BY <1>2 DEF Process, Own
<1>7. \A type : Came(id, type)' <=> Came(id, type) \/ \E m \in Range(more) : m.type = type
  BY <1>2, <1>4 DEF Came
<1>8. InstanceOf(tracker, id)' = InstanceOf(tracker, id)
  BY DEF InstanceOf, NodeOf
<1>9. NodeInv(id)'
  <2>1. Range(wire'[id]) \subseteq Own(id)'
    BY <1>1, <1>2, <1>3, <1>4, <1>6 DEF NodeInv
  <2>2. ~Came(id, "bye")
    BY <1>1 DEF NodeInv
  <2>3. Came(id, "bye")' => ~world'[id].up
    BY <1>2, <1>7, <2>2
  <2>4. \A q \in byes' : q[1] = id => /\ q[2] <= world'[id].starts
                                      /\ q = Process(id)' => ~world'[id].up /\ wire'[id] = <<>>
    <3>1. \A q \in byes : q[1] = id => q[2] <= world[id].starts /\ q # Process(id)
      BY <1>1 DEF NodeInv
    <3>2. QED
      BY <1>2, <1>6, <3>1
  <2>5. /\ InstanceOf(tracker, id)' # Nothing => InstanceOf(tracker, id)'[1] = id
        /\ InstanceOf(tracker, id)' \notin byes'
    BY <1>1, <1>8 DEF NodeInv
  <2>6. QED
    BY <2>1, <2>3, <2>4, <2>5 DEF NodeInv
<1>10. AnnouncedOrShown(id) => AnnouncedOrShown(id)'
  BY <1>6, <1>7, <1>8 DEF AnnouncedOrShown
<1>11. QED
  BY <1>1, <1>2, <1>5, <1>9, <1>10, NodeMoves

(* What a node may say of itself                                           *)
LEMMA ToldIsOwn ==
  ASSUME TrackerTypes, NEW id \in Ids, NEW type \in QueueTypes, id \in Routers => type \notin Telling
  PROVE  Told(type, Process(id)) \in Own(id) /\ Told(type, Process(id)).type = type
BY NodeProcessType DEF Told, Own, NodeMessages

(* What announces a node is neither a bye-bye nor tells anything else      *)
LEMMA AnnouncingTypes ==
  /\ Announcing \cup {"bye"} \subseteq QueueTypes /\ "alive" \in Announcing
  /\ "subscribed" \in Announcing /\ "unsubscribed" \in Announcing
  /\ \A type \in Announcing \cup {"bye"} : type \notin Telling
  /\ "bye" \notin Announcing /\ "alive" # "bye" /\ "subscribed" # "bye" /\ "unsubscribed" # "bye"
BY DEF QueueTypes, Announcing, Telling, BuildInfo, SystemInfo

\* The same world, said as a change of one node that stays
LEMMA WorldStays ==
  ASSUME TrackerTypes, NEW id \in Ids, world[id].up
  PROVE  world = [world EXCEPT ![id].up = TRUE]
BY DEF TrackerTypes

(* Nothing went wrong                                                      *)
LEMMA SameMishaps ==
  ASSUME TrackerTypes, mishaps' = mishaps
  PROVE  mishaps' \in Mishaps /\ (Unharmed' => Unharmed)
BY DEF TrackerTypes, Unharmed

(* Something went wrong, but not with an announcement                      *)
LEMMA FaultFacts ==
  ASSUME TrackerTypes, Fault
  PROVE  mishaps' \in Mishaps /\ (Unharmed' => Unharmed)
BY DEF TrackerTypes, Mishaps, Unharmed, Fault

(* A node that leaves or crashes                                           *)
LEMMA NodeEndsKeeps ==
  ASSUME TrackerIInv, NEW id \in Ids, NodeLeaves(id) \/ NodeCrashes(id)
  PROVE  TrackerIInv'
<1>1. TrackerTypes
  BY DEF TrackerIInv
<1>2. mishaps' \in Mishaps /\ (Unharmed' => Unharmed)
  BY <1>1, SameMishaps DEF NodeLeaves, NodeCrashes, NodeEnds
<1>3. CASE NodeLeaves(id)
  <2> DEFINE bye == <<Told("bye", Process(id))>>
  <2>1. /\ world[id].up /\ world' = [world EXCEPT ![id].up = FALSE]
        /\ wire' = [wire EXCEPT ![id] = @ \o bye] /\ tracker' = tracker /\ byes' = byes
    BY <1>3 DEF NodeLeaves, NodeEnds
  <2>2. bye \in Seq(Own(id))
    BY <1>1, AnnouncingTypes, ToldIsOwn, OneMessage
  <2> HIDE DEF bye
  <2>3. QED
    BY <1>2, <2>1, <2>2, NodeSays
<1>4. CASE NodeCrashes(id)
  <2> DEFINE bye == <<>>
  <2>1. /\ world[id].up /\ world' = [world EXCEPT ![id].up = FALSE]
        /\ wire' = [wire EXCEPT ![id] = @ \o bye] /\ tracker' = tracker /\ byes' = byes
    BY <1>4 DEF NodeCrashes, NodeEnds
  <2>2. bye \in Seq(Own(id))
    OBVIOUS
  <2> HIDE DEF bye
  <2>3. QED
    BY <1>2, <2>1, <2>2, NodeSays
<1>5. QED
  BY <1>3, <1>4

(* An endpoint that repeats that it is alive, or does not listen any more  *)
LEMMA NodeAnnouncesKeeps ==
  ASSUME TrackerIInv, NEW id \in Ids, NodeAnnounces(id)
  PROVE  TrackerIInv'
<1> DEFINE more == <<Told("alive", Process(id))>>
<1>1. TrackerTypes
  BY DEF TrackerIInv
<1>2. mishaps' \in Mishaps /\ (Unharmed' => Unharmed)
  BY <1>1, SameMishaps DEF NodeAnnounces
<1>3. more \in Seq(Own(id)) /\ \A m \in Range(more) : m.type # "bye"
  <2>1. Told("alive", Process(id)) \in Own(id) /\ Told("alive", Process(id)).type = "alive"
    BY <1>1, AnnouncingTypes, ToldIsOwn
  <2>2. QED
    BY <2>1, AnnouncingTypes, OneMessage
<1>4. /\ world[id].up /\ wire[id] = <<>> /\ wire' = [wire EXCEPT ![id] = more]
      /\ world' = world /\ tracker' = tracker /\ byes' = byes
  BY DEF NodeAnnounces
<1> HIDE DEF more
<1>5. wire[id] \o more = more
  BY <1>3, <1>4
<1>6. QED
  BY <1>1, <1>2, <1>3, <1>4, <1>5, WorldStays, NodeSays

(* An endpoint that cannot be pinged any more                              *)
LEMMA NodeUnsubscribesKeeps ==
  ASSUME TrackerIInv, NEW id \in Ids, NodeUnsubscribes(id)
  PROVE  TrackerIInv'
<1> DEFINE m == Told("unsubscribed", Process(id))
<1>1. TrackerTypes
  BY DEF TrackerIInv
<1>2. mishaps' \in Mishaps /\ (Unharmed' => Unharmed)
  BY <1>1, FaultFacts DEF NodeUnsubscribes
<1>3. m \in Own(id) /\ m.type = "unsubscribed"
  BY <1>1, AnnouncingTypes, ToldIsOwn
<1>4. /\ world[id].up /\ wire' = [wire EXCEPT ![id] = Append(@, m)]
      /\ world' = world /\ tracker' = tracker /\ byes' = byes
  BY DEF NodeUnsubscribes
<1> HIDE DEF m
<1>5. <<m>> \in Seq(Own(id)) /\ \A x \in Range(<<m>>) : x.type # "bye"
  BY <1>3, AnnouncingTypes, OneMessage
<1>6. Append(wire[id], m) = wire[id] \o <<m>>
  <2>1. wire[id] \in Seq(NodeMessages) /\ m \in NodeMessages
    BY <1>1, <1>3 DEF TrackerTypes, Own
  <2>2. QED
    BY <2>1
<1>7. wire' = [wire EXCEPT ![id] = @ \o <<m>>]
  BY <1>4, <1>6
<1>8. QED
  BY <1>1, <1>2, <1>4, <1>5, <1>7, WorldStays, NodeSays

(* A node that starts                                                      *)
LEMMA NodeStartsKeeps ==
  ASSUME TrackerIInv, NEW id \in Ids, NodeStarts(id)
  PROVE  TrackerIInv'
<1> DEFINE n == world[id].starts + 1
           p == <<id, n>>
<1>1. TrackerTypes /\ NodeInv(id)
  BY DEF TrackerIInv
<1>2. mishaps' \in Mishaps /\ (Unharmed' => Unharmed)
  BY <1>1, SameMishaps DEF NodeStarts
<1>3. /\ world \in [Ids -> [starts : Nat, up : BOOLEAN]] /\ wire \in [Ids -> Seq(NodeMessages)]
  BY <1>1 DEF TrackerTypes
<1>4. /\ world'[id] = [starts |-> n, up |-> TRUE] /\ n \in Nat
      /\ world' \in [Ids -> [starts : Nat, up : BOOLEAN]]
      /\ \A x \in Ids \ {id} : world'[x] = world[x] /\ wire'[x] = wire[x]
      /\ wire'[id] = StartMessages(<<id, world'[id].starts>>)
      /\ tracker' = tracker /\ byes' = byes
      /\ wire' = [wire EXCEPT ![id] = StartMessages(<<id, world'[id].starts>>)]
  BY <1>3 DEF NodeStarts
<1>5. Process(id)' = p /\ p \in NodeProcesses /\ p[1] = id /\ p[2] = n
  BY <1>4 DEF Process, NodeProcesses
<1>6. wire'[id] = StartMessages(p)
  BY <1>4
<1> DEFINE alive == Told("alive", p)
           subscribed == Told("subscribed", p)
<1>7. /\ alive \in NodeMessages /\ alive.from = p /\ alive.type = "alive"
      /\ subscribed \in NodeMessages /\ subscribed.from = p /\ subscribed.type = "subscribed"
  BY <1>5, AnnouncingTypes DEF Told, NodeMessages
<1>8. \/ id \in Routers /\ wire'[id] = <<>>
      \/ id \notin Routers /\ wire'[id] = <<alive, subscribed>>
  BY <1>5, <1>6 DEF StartMessages
<1> HIDE DEF p, alive, subscribed
<1>9. /\ wire'[id] \in Seq(NodeMessages) /\ Range(wire'[id]) \subseteq {alive, subscribed}
      /\ id \notin Routers => alive \in Range(wire'[id])
  <2>1. CASE id \in Routers
    <3>1. <<>> \in Seq(NodeMessages)
      OBVIOUS
    <3>2. QED
      BY <1>8, <2>1, <3>1, NoMessages
  <2>2. CASE id \notin Routers
    <3> DEFINE s == <<alive, subscribed>>
    <3>1. s \in Seq(NodeMessages) /\ DOMAIN s = {1, 2} /\ s[1] = alive /\ s[2] = subscribed
      BY <1>7
    <3> HIDE DEF s
    <3>2. Range(s) = {alive, subscribed}
      BY <3>1 DEF Range
    <3>3. QED
      BY <1>8, <2>2, <3>1, <3>2 DEF s
  <2>3. QED
    BY <2>1, <2>2
<1>10. wire' \in [Ids -> Seq(NodeMessages)]
  BY <1>3, <1>4, <1>9
<1>11. InstanceOf(tracker, id)' = InstanceOf(tracker, id)
  BY <1>4 DEF InstanceOf, NodeOf
<1>12. NodeInv(id)'
  <2>1. Range(wire'[id]) \subseteq Own(id)'
    <3>1. {alive, subscribed} \subseteq {m \in NodeMessages : m.from = p /\ m.type \notin Telling}
      BY <1>7, AnnouncingTypes
    <3>2. QED
      BY <1>5, <1>9, <3>1 DEF Own
  <2>2. ~Came(id, "bye")'
    BY <1>7, <1>9, AnnouncingTypes DEF Came
  <2>3. \A q \in byes' : q[1] = id => q[2] <= world'[id].starts /\ q # Process(id)'
    <3>1. ASSUME NEW q \in byes, q[1] = id PROVE q[2] <= n /\ q # p
      <4>1. q[2] <= world[id].starts /\ q[2] \in Nat /\ world[id].starts \in Nat
        BY <1>1, <1>3, <3>1, ProcessIsSomething DEF NodeInv, TrackerTypes
      <4>2. QED
        BY <1>5, <4>1
    <3>2. QED
      BY <1>4, <1>5, <3>1
  <2>4. /\ InstanceOf(tracker, id)' # Nothing => InstanceOf(tracker, id)'[1] = id
        /\ InstanceOf(tracker, id)' \notin byes'
    BY <1>1, <1>4, <1>11 DEF NodeInv
  <2>5. QED
    BY <2>1, <2>2, <2>3, <2>4 DEF NodeInv
<1>13. AnnouncedOrShown(id)'
  BY <1>7, <1>9 DEF AnnouncedOrShown, Came
<1>14. QED
  BY <1>2, <1>4, <1>10, <1>12, <1>13, NodeMoves


(* What a node answers is its own, and no bye-bye                          *)
LEMMA TellsIsOwn ==
  ASSUME TrackerTypes, NEW id \in Ids, NEW type \in QueueTypes
  PROVE  (IF id \in Routers THEN RouterTells(id, type) ELSE EndpointTells(id, type))
            \in Seq({m \in Own(id) : m.type # "bye"})
<1> DEFINE T == {m \in Own(id) : m.type # "bye"}
           m == Told(type, Process(id))
<1>1. Process(id) \in NodeProcesses /\ Process(id)[1] = id
  BY NodeProcessType
<1>2. <<>> \in Seq(T)
  OBVIOUS
<1>3. ASSUME type # "bye", id \in Routers => type \notin Telling
      PROVE  <<m>> \in Seq(T)
  <2>1. m \in T
    BY <1>3, ToldIsOwn
  <2> HIDE DEF T, m
  <2>2. QED
    BY <2>1, OneMessage
<1>4. CASE id \in Routers
  <2>1. CASE type \in {"topology", "connStats"}
    <3> DEFINE linked == SetToSeq(Linked(id))
               tell(i) == [Told(type, Process(id)) EXCEPT !.remote = linked[i]]
    <3>1. Linked(id) \subseteq Ids /\ IsFiniteSet(Linked(id))
      <4>1. Linked(id) \subseteq Ids /\ IsFiniteSet(Ids)
        BY TrackerAssumption DEF Linked
      <4>2. QED
        BY <4>1, FS_Subset
    <3>2. linked \in Seq(Linked(id))
      BY <3>1, SetToSeqIsSeq
    <3> HIDE DEF linked
    <3>3. /\ Len(linked) \in Nat /\ DOMAIN linked = 1 .. Len(linked)
          /\ \A i \in 1 .. Len(linked) : linked[i] \in Ids
      BY <3>1, <3>2
    <3>4. type # "bye" /\ type \notin Telling
      BY <2>1 DEF Telling, BuildInfo, SystemInfo
    <3>5. \A i \in 1 .. Len(linked) : tell(i) \in T
      BY <1>1, <3>3, <3>4 DEF Told, Own, NodeMessages
    <3>6. RouterTells(id, type) = [i \in DOMAIN linked |-> tell(i)]
      BY <2>1 DEF RouterTells, PerLink, linked
    <3> HIDE DEF T, tell
    <3>7. [i \in DOMAIN linked |-> tell(i)] \in [1 .. Len(linked) -> T]
      BY <3>3, <3>5
    <3>8. QED
      BY <1>4, <3>3, <3>6, <3>7 DEF T
  <2>2. CASE type \in {"stats", "pong"}
    <3>1. type # "bye" /\ type \notin Telling /\ type \notin {"topology", "connStats"}
      BY <2>2 DEF Telling, BuildInfo, SystemInfo
    <3>2. RouterTells(id, type) = <<m>>
      BY <2>2, <3>1 DEF RouterTells
    <3>3. QED
      BY <1>3, <1>4, <3>1, <3>2
  <2>3. CASE type \notin {"topology", "connStats"} /\ type \notin {"stats", "pong"}
    <3>1. RouterTells(id, type) = <<>>
      BY <2>3 DEF RouterTells
    <3>2. QED
      BY <1>2, <1>4, <3>1
  <2>4. QED
    BY <2>1, <2>2, <2>3
<1>5. CASE id \notin Routers
  <2>1. "bye" \notin {"topology", "stats", "subscribed", "info", "hostId", "pong"} \cup InstanceInfo \cup HostInfo
    BY TrackerAssumption
  <2>2. EndpointTells(id, type) \in {<<>>, <<m>>} /\ (type = "bye" => EndpointTells(id, type) = <<>>)
    BY <2>1 DEF EndpointTells
  <2>3. QED
    BY <1>2, <1>3, <1>5, <2>2
<1>6. QED
  BY <1>4, <1>5

(* All answers to what a node was asked are its own, and none is a bye-bye *)
LEMMA AnswersAreOwn ==
  ASSUME TrackerTypes, NEW id \in Ids, NEW queries
  PROVE  /\ AnswersTo(id, queries) \in Seq(Own(id))
         /\ \A m \in Range(AnswersTo(id, queries)) : m.type # "bye"
<1> DEFINE T == {m \in Own(id) : m.type # "bye"}
           tells(type) == IF QueryOf(type) \notin queries THEN <<>>
                          ELSE IF id \in Routers THEN RouterTells(id, type) ELSE EndpointTells(id, type)
           seqs == [k \in 1 .. Len(QueueOrder) |-> tells(QueueOrder[k])]
           s == FlattenSeq(seqs)
<1>1. AnswersTo(id, queries) = s
  BY DEF AnswersTo
<1>2. \A type \in QueueTypes : tells(type) \in Seq(T)
  <2>1. <<>> \in Seq(T)
    OBVIOUS
  <2>2. QED
    BY <2>1, TellsIsOwn
<1> HIDE DEF tells
<1>3. seqs \in Seq(Seq(T))
  <2>1. Len(QueueOrder) = 17 /\ \A k \in 1 .. 17 : QueueOrder[k] \in QueueTypes
    BY QueueOrderFacts
  <2>2. seqs \in [1 .. 17 -> Seq(T)]
    BY <1>2, <2>1
  <2> DEFINE n == 17
  <2>3. n \in Nat /\ seqs \in [1 .. n -> Seq(T)]
    BY <2>2
  <2> HIDE DEF seqs, T, n
  <2>4. QED
    BY <2>3
<1> HIDE DEF seqs, T
<1>4. s \in Seq(T)
  BY <1>3, FlattenIsSeq
<1> HIDE DEF s
<1>5. Len(s) \in Nat /\ s \in [1 .. Len(s) -> T]
  BY <1>4
<1>6. T \subseteq Own(id) /\ \A m \in T : m.type # "bye"
  BY DEF T
<1>7. s \in [1 .. Len(s) -> Own(id)]
  BY <1>5, <1>6
<1>8. s \in Seq(Own(id))
  BY <1>5, <1>7
<1>9. Range(s) \subseteq T
  BY <1>5 DEF Range
<1>10. QED
  BY <1>1, <1>6, <1>8, <1>9

(* A node that answers what it was asked                                   *)
LEMMA NodeAnswersKeeps ==
  ASSUME TrackerIInv, NEW id \in Ids, NodeAnswers(id)
  PROVE  TrackerIInv'
<1> DEFINE more == AnswersTo(id, asked[id])
<1>1. TrackerTypes
  BY DEF TrackerIInv
<1>2. mishaps' \in Mishaps /\ (Unharmed' => Unharmed)
  BY <1>1, SameMishaps DEF NodeAnswers
<1>3. more \in Seq(Own(id)) /\ \A m \in Range(more) : m.type # "bye"
  BY <1>1, AnswersAreOwn
<1>4. /\ world[id].up /\ wire' = [wire EXCEPT ![id] = @ \o more]
      /\ world' = world /\ tracker' = tracker /\ byes' = byes
  BY DEF NodeAnswers
<1> HIDE DEF more
<1>5. QED
  BY <1>1, <1>2, <1>3, <1>4, WorldStays, NodeSays

(* A query that gets lost                                                  *)
LEMMA LoseQueryKeeps ==
  ASSUME TrackerIInv, NEW id \in Ids, LoseQuery(id)
  PROVE  TrackerIInv'
<1>1. TrackerTypes
  BY DEF TrackerIInv
<1>2. mishaps' \in Mishaps /\ (Unharmed' => Unharmed)
  BY <1>1, FaultFacts DEF LoseQuery
<1>3. world' = world /\ wire' = wire /\ tracker' = tracker /\ byes' = byes
  BY DEF LoseQuery
<1>4. Process(id)' = Process(id)
  BY <1>3 DEF Process
<1>5. NodeInv(id)'
  BY <1>3, <1>4 DEF TrackerIInv, NodeInv, Own, Came, InstanceOf, NodeOf
<1>6. AnnouncedOrShown(id) => AnnouncedOrShown(id)'
  BY <1>3, <1>4 DEF AnnouncedOrShown, Came, InstanceOf, NodeOf
<1>7. QED
  BY <1>1, <1>2, <1>3, <1>5, <1>6, NodeMoves DEF TrackerIInv, TrackerTypes

(* A message that gets lost                                                *)
LEMMA LoseMessageKeeps ==
  ASSUME TrackerIInv, NEW id \in Ids, LoseMessage(id)
  PROVE  TrackerIInv'
<1>1. TrackerTypes /\ NodeInv(id) /\ (Unharmed => AnnouncedOrShown(id))
  BY DEF TrackerIInv
<1>2. PICK i \in DOMAIN wire[id] :
         /\ wire' = [wire EXCEPT ![id] = RemoveAt(@, i)]
         /\ mishaps' = [mishaps EXCEPT !.count = @ + 1,
                !.announcementLost = @ \/ wire[id][i].type \in {"alive", "subscribed"}]
  BY DEF LoseMessage
<1>3. world' = world /\ tracker' = tracker /\ byes' = byes
  BY DEF LoseMessage
<1>4. wire \in [Ids -> Seq(NodeMessages)] /\ wire[id] \in Seq(NodeMessages)
  BY <1>1 DEF TrackerTypes
<1> DEFINE s == RemoveAt(wire[id], i)
<1>5. /\ s \in Seq(NodeMessages) /\ Range(s) \subseteq Range(wire[id])
      /\ \A j \in DOMAIN wire[id] \ {i} : wire[id][j] \in Range(s)
  BY <1>4, RemovedRange
<1>6. wire'[id] = s /\ \A x \in Ids \ {id} : wire'[x] = wire[x]
  BY <1>2, <1>4
<1>7. wire' \in [Ids -> Seq(NodeMessages)]
  BY <1>2, <1>4, <1>5
<1>8. /\ mishaps' \in Mishaps
      /\ Unharmed' => Unharmed /\ wire[id][i].type \notin {"alive", "subscribed"}
  <2> DEFINE lost == wire[id][i].type \in {"alive", "subscribed"}
  <2>1. mishaps \in Mishaps
    BY <1>1 DEF TrackerTypes
  <2>2. mishaps' = [mishaps EXCEPT !.count = @ + 1, !.announcementLost = @ \/ lost]
    BY <1>2
  <2> DEFINE a == mishaps.announcementLost \/ lost
             c == mishaps.count + 1
  <2>3. mishaps' = [mishaps EXCEPT !.count = c, !.announcementLost = a] /\ a \in BOOLEAN /\ c \in Nat
    BY <2>1, <2>2 DEF Mishaps
  <2> HIDE DEF a, c
  <2>4. mishaps'.announcementLost = a /\ mishaps'.overtaken = mishaps.overtaken /\ mishaps' \in Mishaps
    BY <2>1, <2>3 DEF Mishaps
  <2> HIDE DEF lost
  <2>5. Unharmed' => Unharmed /\ ~lost
    BY <2>4 DEF Unharmed, a
  <2>6. QED
    BY <2>4, <2>5 DEF lost
<1> HIDE DEF s
<1>9. wire[id] # <<>>
  <2>1. DOMAIN <<>> = {}
    OBVIOUS
  <2>2. QED
    BY <2>1
<1>10. Process(id)' = Process(id) /\ Own(id)' = Own(id) /\ InstanceOf(tracker, id)' = InstanceOf(tracker, id)
  BY <1>3 DEF Process, Own, InstanceOf, NodeOf
<1>11. NodeInv(id)'
  <2>1. Range(wire'[id]) \subseteq Own(id)' /\ (Came(id, "bye")' => Came(id, "bye"))
    BY <1>1, <1>5, <1>6, <1>10 DEF NodeInv, Came
  <2>2. \A q \in byes : q[1] = id => q[2] <= world[id].starts /\ q # Process(id)
    BY <1>1, <1>9 DEF NodeInv
  <2>3. QED
    BY <1>1, <1>3, <1>10, <2>1, <2>2 DEF NodeInv
<1>12. ASSUME Unharmed' PROVE AnnouncedOrShown(id)'
  <2>1. wire[id][i].type \notin {"alive", "subscribed"} /\ AnnouncedOrShown(id)
    BY <1>1, <1>8, <1>12
  <2>2. \A type \in {"alive", "subscribed"} : Came(id, type) => Came(id, type)'
    <3>1. ASSUME NEW type \in {"alive", "subscribed"}, Came(id, type) PROVE Came(id, type)'
      <4>1. PICK j \in DOMAIN wire[id] : wire[id][j].type = type
        BY <3>1 DEF Came, Range
      <4>2. j # i
        BY <2>1, <4>1
      <4>3. QED
        BY <1>5, <1>6, <4>1, <4>2 DEF Came
    <3>2. QED
      BY <3>1
  <2>3. QED
    BY <1>3, <1>9, <1>10, <2>1, <2>2 DEF AnnouncedOrShown
<1>13. QED
  BY <1>1, <1>3, <1>6, <1>7, <1>8, <1>11, <1>12, NodeMoves DEF TrackerTypes


-----------------------------------------------------------------------------
(* The steps of the tracker.                                               *)

(* Nothing is heard of an instance or a host                               *)
LEMMA SilenceKeeps ==
  ASSUME TrackerIInv, Silence
  PROVE  TrackerIInv'
<1>1. TrackerTypes /\ tracker \in Trackers
  BY DEF TrackerIInv, TrackerTypes
<1>2. mishaps' \in Mishaps /\ (Unharmed' => Unharmed)
  BY <1>1, FaultFacts DEF Silence
<1>3. world' = world /\ wire' = wire /\ byes' = byes
  BY DEF Silence
<1>4. tracker' \in Trackers /\ tracker'.nodes = tracker.nodes /\ (IsSound(tracker) => IsSound(tracker'))
  <2>1. CASE \E i \in DOMAIN tracker.instances : tracker' = [tracker EXCEPT !.instances[i].expired = TRUE]
    <3>1. PICK i \in DOMAIN tracker.instances : tracker' = [tracker EXCEPT !.instances[i].expired = TRUE]
      BY <2>1
    <3> DEFINE s == [tracker.instances[i] EXCEPT !.expired = TRUE]
    <3>2. s \in InstanceStates /\ (InstanceIsSound(i, tracker.instances[i]) => InstanceIsSound(i, s))
      BY <1>1, StateTypes DEF InstanceStates, InstanceIsSound
    <3>3. tracker' = PutInstance(tracker, i, s)
      BY <3>1 DEF PutInstance
    <3> HIDE DEF s
    <3>4. /\ tracker' \in Trackers /\ tracker'.nodes = tracker.nodes /\ tracker'.hosts = tracker.hosts
          /\ InstancesAreSound(tracker) /\ InstanceIsSound(i, s) => InstancesAreSound(tracker')
      BY <1>1, <3>2, <3>3, PutInstanceFacts
    <3>5. InstancesAreSound(tracker) => InstancesAreSound(tracker')
      BY <3>2, <3>4 DEF InstancesAreSound
    <3>6. QED
      BY <3>4, <3>5 DEF IsSound, NodesAreSound, HostsAreSound, NodeOf
  <2>2. CASE \E h \in DOMAIN tracker.hosts : tracker' = [tracker EXCEPT !.hosts[h].expired = TRUE]
    <3>1. PICK h \in DOMAIN tracker.hosts : tracker' = [tracker EXCEPT !.hosts[h].expired = TRUE]
      BY <2>2
    <3> DEFINE s == [tracker.hosts[h] EXCEPT !.expired = TRUE]
    <3>2. s \in HostStates /\ (HostIsSound(h, tracker.hosts[h]) => HostIsSound(h, s))
      BY <1>1, StateTypes DEF HostStates, HostIsSound
    <3>3. tracker' = PutHost(tracker, h, s)
      BY <3>1 DEF PutHost
    <3> HIDE DEF s
    <3>4. /\ tracker' \in Trackers /\ tracker'.nodes = tracker.nodes
          /\ tracker'.instances = tracker.instances
          /\ HostsAreSound(tracker) /\ HostIsSound(h, s) => HostsAreSound(tracker')
      BY <1>1, <3>2, <3>3, PutHostFacts
    <3>5. HostsAreSound(tracker) => HostsAreSound(tracker')
      BY <3>2, <3>4 DEF HostsAreSound
    <3>6. QED
      BY <3>4, <3>5 DEF IsSound, NodesAreSound, InstancesAreSound, NodeOf
  <2>3. QED
    BY <2>1, <2>2 DEF Silence
<1>5. \A id : Process(id)' = Process(id) /\ InstanceOf(tracker', id) = InstanceOf(tracker, id)
  BY <1>3, <1>4 DEF Process, InstanceOf, NodeOf
<1>6. \A id \in Ids : NodeInv(id)' /\ (AnnouncedOrShown(id) => AnnouncedOrShown(id)')
  BY <1>3, <1>5 DEF TrackerIInv, NodeInv, Own, Came, AnnouncedOrShown
<1>7. QED
  BY <1>1, <1>2, <1>3, <1>4, <1>6 DEF TrackerIInv, TrackerTypes

(* What was handled in a turn                                              *)
LEMMA TurnTracker ==
  ASSUME TrackerIInv, NEW ask \in BOOLEAN, NEW late \in SUBSET Ids, UpdateAndProcessAll(ask, late)
  PROVE  /\ tracker' \in Trackers
         /\ \A id \in Ids : InstanceOf(tracker', id) = ShownAfter(InstanceOf(tracker, id), id)
         /\ Unharmed /\ ~ByeOvertakes => IsSound(tracker')
<1> DEFINE t == PingTimeouts(tracker, late)
           pinged == IF ask THEN CanBePinged(t, asked) ELSE {}
           u == BeforeMessages(late, pinged)
<1>1. TrackerTypes /\ tracker \in Trackers
  BY DEF TrackerIInv, TrackerTypes
<1>2. t \in Trackers
  BY <1>1, PingTimeoutsFacts DEF ShowsTheSame
<1>3. pinged \in SUBSET Ids
  BY <1>2, StateTypes DEF CanBePinged
<1>4. PICK order \in Arrivals : tracker' = ProcessMessages(u, order)
  BY DEF UpdateAndProcessAll, BeforeMessages
<1> HIDE DEF pinged, t
<1>5. ShowsTheSame(tracker, u) /\ (IsSound(tracker) => IsSound(u))
  BY <1>1, <1>3, UpdateFacts
<1> HIDE DEF u
<1>6. u \in Trackers /\ \A id \in Ids : InstanceOf(u, id) = InstanceOf(tracker, id)
  BY <1>5 DEF ShowsTheSame, SameIdentity, InstanceOf
<1>7. AllOwn
  <2>1. \A id \in Ids : wire[id] \in Seq(NodeMessages) /\ \A m \in Range(wire[id]) : m.from = Process(id)
    BY DEF TrackerIInv, TrackerTypes, NodeInv, Own
  <2>2. QED
    BY <1>1, <2>1, NodeProcessType DEF AllOwn, WireIsOwn
<1>8. /\ ProcessMessages(u, order) \in Trackers
      /\ \A id \in Ids : InstanceOf(ProcessMessages(u, order), id) = ShownAfter(InstanceOf(u, id), id)
      /\ IsSound(u) /\ IsExpected(u) => IsSound(ProcessMessages(u, order))
  BY <1>6, <1>7, ProcessMessagesFacts
<1>9. ASSUME Unharmed, ~ByeOvertakes PROVE IsExpected(u)
  <2>1. SUFFICES ASSUME NEW id \in Ids, NEW type \in Telling, Came(id, type)
                 PROVE  ~Came(id, "bye") /\ (InstanceOf(u, id) = Process(id) \/ IsAnnounced(id))
    BY DEF IsExpected
  <2>2. PICK m \in Range(wire[id]) : m.type = type
    BY <2>1 DEF Came
  <2>3. m.type \notin Announcing \cup {"bye"}
    BY <2>2, AnnouncingTypes
  <2>4. ~Came(id, "bye")
    BY <1>9, <2>3 DEF ByeOvertakes
  <2>5. id \notin Routers
    BY <2>2 DEF TrackerIInv, NodeInv, Own
  <2>6. wire[id] # <<>>
    BY <2>2, NoMessages
  <2>7. Came(id, "alive") \/ Came(id, "subscribed") \/ InstanceOf(tracker, id) = Process(id)
    BY <1>9, <2>5, <2>6 DEF TrackerIInv, AnnouncedOrShown
  <2>8. QED
    BY <1>6, <2>4, <2>7, AnnouncingTypes DEF IsAnnounced
<1>10. Unharmed => IsSound(u)
  BY <1>5 DEF TrackerIInv
<1>11. QED
  BY <1>4, <1>6, <1>8, <1>9, <1>10

(* The turn                                                                *)
LEMMA UpdateKeeps ==
  ASSUME TrackerIInv, NEW ask \in BOOLEAN, NEW late \in SUBSET Ids, UpdateAndProcessAll(ask, late),
         mishaps' \in Mishaps, Unharmed' => Unharmed /\ ~ByeOvertakes
  PROVE  TrackerIInv'
<1>1. TrackerTypes /\ (\A id \in Ids : NodeInv(id)) /\ byes \in SUBSET NodeProcesses
  BY DEF TrackerIInv, TrackerTypes
<1>2. /\ world' = world /\ wire' = [id \in Ids |-> <<>>]
      /\ byes' = byes \cup {Process(id) : id \in {x \in Ids : Came(x, "bye")}}
  BY DEF UpdateAndProcessAll
<1>3. /\ tracker' \in Trackers
      /\ \A id \in Ids : InstanceOf(tracker', id) = ShownAfter(InstanceOf(tracker, id), id)
      /\ Unharmed /\ ~ByeOvertakes => IsSound(tracker')
  BY TurnTracker
<1>4. \A id \in Ids : Process(id) \in NodeProcesses /\ Process(id)[1] = id /\ Process(id)[2] = world[id].starts
  BY <1>1, NodeProcessType
<1>5. byes' \in SUBSET NodeProcesses
  BY <1>1, <1>2, <1>4
<1>6. wire' \in [Ids -> Seq(NodeMessages)] /\ \A id \in Ids : wire'[id] = <<>>
  BY <1>2
<1>7. TrackerTypes'
  BY <1>1, <1>2, <1>3, <1>5, <1>6 DEF TrackerTypes
<1>8. \A id : Process(id)' = Process(id)
  BY <1>2 DEF Process
<1>9. ASSUME NEW id \in Ids PROVE NodeInv(id)'
  <2> DEFINE was == InstanceOf(tracker, id)
             is == InstanceOf(tracker', id)
  <2>1. Range(wire'[id]) \subseteq Own(id)' /\ ~Came(id, "bye")'
    BY <1>6, NoMessages DEF Came
  <2>2. \A q \in byes' : q[1] = id => /\ q[2] <= world'[id].starts
                                      /\ q = Process(id)' => ~world'[id].up /\ wire'[id] = <<>>
    <3>1. ASSUME NEW q \in byes', q[1] = id
          PROVE  q[2] <= world[id].starts /\ (q = Process(id) => ~world[id].up)
      <4>1. CASE q \in byes
        BY <1>1, <3>1, <4>1 DEF NodeInv
      <4>2. CASE q \notin byes
        <5>1. PICK x \in Ids : Came(x, "bye") /\ q = Process(x)
          BY <1>2, <4>2
        <5>2. x = id /\ world[id].starts \in Nat
          BY <1>1, <1>4, <3>1, <5>1 DEF TrackerTypes
        <5>3. q[2] = world[id].starts /\ ~world[id].up
          BY <1>1, <1>4, <5>1, <5>2 DEF NodeInv
        <5>4. QED
          BY <5>2, <5>3
      <4>3. QED
        BY <4>1, <4>2
    <3>2. QED
      BY <1>2, <1>6, <1>8, <3>1
  <2>3. is = ShownAfter(was, id) /\ was \notin byes /\ (was # Nothing => was[1] = id)
    BY <1>1, <1>3 DEF NodeInv
  <2> HIDE DEF was, is
  <2>4. (is # Nothing => is[1] = id) /\ is \notin byes'
    <3>1. CASE Came(id, "bye")
      <4>1. is = Nothing
        BY <2>3, <3>1 DEF ShownAfter
      <4>2. QED
        BY <1>5, <4>1, ProcessIsSomething
    <3>2. CASE ~Came(id, "bye") /\ IsAnnounced(id)
      <4>1. is = Process(id)
        BY <2>3, <3>2 DEF ShownAfter
      <4>2. wire[id] # <<>>
        BY <3>2, NoMessages DEF IsAnnounced, Came
      <4>3. Process(id) \notin byes
        BY <1>1, <1>4, <4>2 DEF NodeInv
      <4>4. \A x \in Ids : Came(x, "bye") => Process(x) # Process(id)
        BY <1>4, <3>2
      <4>5. QED
        BY <1>2, <1>4, <4>1, <4>3, <4>4
    <3>3. CASE ~Came(id, "bye") /\ ~IsAnnounced(id)
      <4>1. is = was
        BY <2>3, <3>3 DEF ShownAfter
      <4>2. \A x \in Ids : Came(x, "bye") => was # Process(x)
        <5>1. ASSUME NEW x \in Ids, Came(x, "bye"), was = Process(x) PROVE FALSE
          <6>1. was # Nothing /\ was[1] = x
            BY <1>4, <5>1, ProcessIsSomething
          <6>2. QED
            BY <2>3, <3>3, <5>1, <6>1
        <5>2. QED
          BY <5>1
      <4>3. QED
        BY <1>2, <2>3, <4>1, <4>2
    <3>4. QED
      BY <3>1, <3>2, <3>3
  <2>5. InstanceOf(tracker, id)' = is
    BY DEF is, InstanceOf, NodeOf
  <2>6. QED
    BY <2>1, <2>2, <2>4, <2>5 DEF NodeInv
<1>10. ASSUME Unharmed', NEW id \in Ids PROVE AnnouncedOrShown(id)'
  <2>1. SUFFICES ASSUME id \notin Routers, world[id].up PROVE InstanceOf(tracker', id) = Process(id)
    BY <1>2, <1>6, <1>8 DEF AnnouncedOrShown, InstanceOf, NodeOf
  <2>2. Came(id, "alive") \/ Came(id, "subscribed") \/ InstanceOf(tracker, id) = Process(id)
    BY <1>10, <2>1 DEF TrackerIInv, AnnouncedOrShown
  <2>3. ~Came(id, "bye")
    BY <1>1, <2>1 DEF NodeInv
  <2>4. Came(id, "alive") \/ Came(id, "subscribed") => IsAnnounced(id)
    BY AnnouncingTypes DEF IsAnnounced
  <2>5. QED
    BY <1>3, <2>2, <2>3, <2>4 DEF ShownAfter
<1>11. Unharmed' => IsSound(tracker)'
  <2>1. IsSound(tracker)' <=> IsSound(tracker')
    BY DEF IsSound, NodesAreSound, InstancesAreSound, HostsAreSound, NodeOf
  <2>2. QED
    BY <1>3, <2>1
<1>12. QED
  BY <1>7, <1>9, <1>10, <1>11 DEF TrackerIInv

(* Bye-byes that overtake are kept in mind                                 *)
LEMMA OvertakenFacts ==
  ASSUME TrackerTypes, NEW count \in Nat,
         mishaps' = [mishaps EXCEPT !.count = count, !.overtaken = @ \/ ByeOvertakes]
  PROVE  mishaps' \in Mishaps /\ (Unharmed' => Unharmed /\ ~ByeOvertakes)
<1> DEFINE b == mishaps.overtaken \/ ByeOvertakes
<1>1. mishaps \in Mishaps
  BY DEF TrackerTypes
<1>2. mishaps' = [mishaps EXCEPT !.count = count, !.overtaken = b] /\ b \in BOOLEAN
  OBVIOUS
<1> HIDE DEF b
<1>3. /\ mishaps'.overtaken = b /\ mishaps'.announcementLost = mishaps.announcementLost
      /\ mishaps' \in Mishaps
  BY <1>1, <1>2 DEF Mishaps
<1>4. Unharmed' => ~mishaps.announcementLost /\ ~b
  BY <1>3 DEF Unharmed
<1>5. QED
  BY <1>3, <1>4 DEF Unharmed, b

(* The pings that are waited for are of nodes                              *)
LEMMA LostPingsType ==
  ASSUME TrackerTypes
  PROVE  LostPings \in SUBSET Ids /\ tracker.pings \in SUBSET Ids
BY TrackerFields DEF TrackerTypes, LostPings

(* A turn of the tracker                                                   *)
LEMMA TrackerTurnKeeps ==
  ASSUME TrackerIInv, NEW ask \in BOOLEAN, TrackerTurn(ask)
  PROVE  TrackerIInv'
<1>1. TrackerTypes /\ LostPings \in SUBSET Ids
  BY LostPingsType DEF TrackerIInv
<1>2. UpdateAndProcessAll(ask, LostPings)
  BY DEF TrackerTurn
<1>3. mishaps' = [mishaps EXCEPT !.count = mishaps.count, !.overtaken = @ \/ ByeOvertakes] /\ mishaps.count \in Nat
  <2>1. mishaps' = [mishaps EXCEPT !.overtaken = @ \/ ByeOvertakes]
    BY DEF TrackerTurn
  <2>2. mishaps \in Mishaps
    BY <1>1 DEF TrackerTypes
  <2> DEFINE b == mishaps.overtaken \/ ByeOvertakes
  <2> HIDE DEF b
  <2>3. [mishaps EXCEPT !.overtaken = b] = [mishaps EXCEPT !.count = mishaps.count, !.overtaken = b]
    BY <2>2 DEF Mishaps
  <2>4. QED
    BY <2>1, <2>2, <2>3 DEF b, Mishaps
<1>4. mishaps' \in Mishaps /\ (Unharmed' => Unharmed /\ ~ByeOvertakes)
  BY <1>1, <1>3, OvertakenFacts
<1>5. QED
  BY <1>1, <1>2, <1>4, UpdateKeeps

(* A turn with a ping that is answered too late                            *)
LEMMA SlowPingKeeps ==
  ASSUME TrackerIInv, SlowPing
  PROVE  TrackerIInv'
<1>1. TrackerTypes /\ LostPings \in SUBSET Ids /\ tracker.pings \in SUBSET Ids
  BY LostPingsType DEF TrackerIInv
<1>2. PICK id \in tracker.pings \ LostPings : UpdateAndProcessAll(FALSE, LostPings \cup {id})
  BY DEF SlowPing
<1>3. mishaps.count + 1 \in Nat
  BY <1>1 DEF TrackerTypes, Mishaps
<1>4. mishaps' = [mishaps EXCEPT !.count = mishaps.count + 1, !.overtaken = @ \/ ByeOvertakes]
  BY DEF SlowPing
<1>5. mishaps' \in Mishaps /\ (Unharmed' => Unharmed /\ ~ByeOvertakes)
  BY <1>1, <1>3, <1>4, OvertakenFacts
<1>6. LostPings \cup {id} \in SUBSET Ids
  BY <1>1
<1>7. QED
  BY <1>2, <1>5, <1>6, UpdateKeeps

-----------------------------------------------------------------------------
(* What the tracker promises, of any nodes, links, hosts and infos.        *)

(* The invariant holds at first                                            *)
LEMMA TrackerStarts == TrackerInit => TrackerIInv
<1> SUFFICES ASSUME TrackerInit PROVE TrackerIInv
  OBVIOUS
<1>1. /\ world = [id \in Ids |-> [starts |-> 0, up |-> FALSE]] /\ wire = [id \in Ids |-> <<>>] /\ byes = {}
      /\ tracker = [nodes |-> <<>>, instances |-> <<>>, hosts |-> <<>>, connections |-> {}, pings |-> {}]
      /\ mishaps = [count |-> 0, announcementLost |-> FALSE, overtaken |-> FALSE]
  BY DEF TrackerInit
<1>2. \A K, V : <<>> \in Partial(K, V)
  <2>1. DOMAIN <<>> = {} /\ <<>> = [k \in DOMAIN <<>> |-> <<>>[k]]
    OBVIOUS
  <2>2. QED
    BY <2>1, IsPartial
<1>3. tracker \in Trackers /\ DOMAIN tracker.nodes = {} /\ DOMAIN tracker.instances = {} /\ DOMAIN tracker.hosts = {}
  BY <1>1, <1>2 DEF Trackers
<1>4. TrackerTypes
  BY <1>1, <1>3 DEF TrackerTypes, Mishaps
<1>5. \A id \in Ids : InstanceOf(tracker, id) = Nothing
  BY <1>3, NewStates DEF InstanceOf, NodeOf
<1>6. \A id \in Ids : NodeInv(id)
  BY <1>1, <1>5, NoMessages DEF NodeInv, Came
<1>7. IsSound(tracker)
  BY <1>3, NewStates DEF IsSound, NodesAreSound, InstancesAreSound, HostsAreSound, NodeOf
<1>8. \A id \in Ids : AnnouncedOrShown(id)
  BY <1>1 DEF AnnouncedOrShown
<1>9. QED
  BY <1>4, <1>6, <1>7, <1>8 DEF TrackerIInv

(* The invariant is kept by every step                                     *)
LEMMA TrackerSteps == TrackerIInv /\ [TrackerNext]_trackerVars => TrackerIInv'
<1> SUFFICES ASSUME TrackerIInv, [TrackerNext]_trackerVars PROVE TrackerIInv'
  OBVIOUS
<1>1. ASSUME NEW id \in Ids, NodeStarts(id) PROVE TrackerIInv'
  BY <1>1, NodeStartsKeeps
<1>2. ASSUME NEW id \in Ids, NodeLeaves(id) \/ NodeCrashes(id) PROVE TrackerIInv'
  BY <1>2, NodeEndsKeeps
<1>3. ASSUME NEW id \in Ids, NodeAnnounces(id) PROVE TrackerIInv'
  BY <1>3, NodeAnnouncesKeeps
<1>4. ASSUME NEW id \in Ids, NodeAnswers(id) PROVE TrackerIInv'
  BY <1>4, NodeAnswersKeeps
<1>5. ASSUME NEW id \in Ids, LoseQuery(id) PROVE TrackerIInv'
  BY <1>5, LoseQueryKeeps
<1>6. ASSUME NEW id \in Ids, LoseMessage(id) PROVE TrackerIInv'
  BY <1>6, LoseMessageKeeps
<1>7. ASSUME NEW id \in Ids, NodeUnsubscribes(id) PROVE TrackerIInv'
  BY <1>7, NodeUnsubscribesKeeps
<1>8. CASE TrackerTurn(TRUE) \/ TrackerTurn(FALSE)
  BY <1>8, TrackerTurnKeeps
<1>9. CASE SlowPing
  BY <1>9, SlowPingKeeps
<1>10. CASE Silence
  BY <1>10, SilenceKeeps
<1>11. CASE UNCHANGED trackerVars
  BY <1>11 DEF trackerVars, TrackerIInv, TrackerTypes, Unharmed, NodeInv, AnnouncedOrShown, Own, Came,
       Process, InstanceOf, NodeOf, IsSound, NodesAreSound, InstancesAreSound, HostsAreSound
<1>12. QED
  BY <1>1, <1>2, <1>3, <1>4, <1>5, <1>6, <1>7, <1>8, <1>9, <1>10, <1>11 DEF TrackerNext

(* In every reachable state what the tracker shows of a node is of the last *)
(* process of its id or of none, an instance whose bye-bye was handled is   *)
(* shown no more, and as long as no announcement was lost nothing that is   *)
(* known of a node, an instance or a host is of another one.                *)
THEOREM TrackerInvariant == TrackerSpec => []TrackerIInv
<1>1. TrackerSpec => TrackerInit /\ [][TrackerNext]_trackerVars
  BY DEF TrackerSpec
<1>2. QED
  BY <1>1, TrackerStarts, TrackerSteps, PTL

(* What is promised follows from the invariant                             *)
LEMMA ShownFollows == TrackerIInv => ShownIsOfProcess
<1> SUFFICES ASSUME TrackerIInv PROVE InfoIsOfItsInstance /\ ByeIsFinal
  BY DEF ShownIsOfProcess
<1>1. tracker \in Trackers
  BY DEF TrackerIInv, TrackerTypes
<1>2. /\ \A id \in DOMAIN tracker.nodes : id \in Ids /\ NodeOf(tracker, id) = tracker.nodes[id]
      /\ \A i \in DOMAIN tracker.instances : tracker.instances[i] \in InstanceStates
      /\ \A h \in DOMAIN tracker.hosts : tracker.hosts[h] \in HostStates
  BY <1>1, StateTypes DEF NodeOf
<1>3. ByeIsFinal
  BY <1>2 DEF ByeIsFinal, TrackerIInv, NodeInv, InstanceOf
<1>4. CASE mishaps.announcementLost \/ mishaps.overtaken
  BY <1>3, <1>4 DEF InfoIsOfItsInstance
<1>5. CASE Unharmed
  <2>1. IsSound(tracker)
    BY <1>5 DEF TrackerIInv
  <2>2. \A id \in DOMAIN tracker.nodes :
            LET held == tracker.nodes[id]
            IN  held.instance # Nothing => /\ held.info \in {Nothing, held.instance}
                                        /\ held.host \in {Nothing, HostOf(held.instance)}
    BY <1>2, <2>1 DEF IsSound, NodesAreSound, NodeIsSound
  <2>3. \A i \in DOMAIN tracker.instances :
            /\ Range(tracker.instances[i].known) \subseteq {Nothing, i}
            /\ tracker.instances[i].host \in {Nothing, HostOf(i)}
    BY <1>2, <2>1 DEF IsSound, InstancesAreSound, InstanceIsSound, InstanceStates, Range
  <2>4. \A h \in DOMAIN tracker.hosts : Range(tracker.hosts[h].known) \subseteq {Nothing, h}
    BY <1>2, <2>1 DEF IsSound, HostsAreSound, HostIsSound, HostStates, Range
  <2>5. QED
    BY <1>3, <2>2, <2>3, <2>4 DEF InfoIsOfItsInstance
<1>6. QED
  BY <1>4, <1>5 DEF Unharmed

(* ShownIsOfProcess for any nodes, routers, links and hosts, whatever gets  *)
(* lost, comes late or is not heard of, and however often an id is used     *)
(* again (notice_instance, the order of the queues, on_bye).                *)
THEOREM ShownIsOfProcessAlways == TrackerSpec => []ShownIsOfProcess
<1>1. QED
  BY TrackerInvariant, ShownFollows, PTL

=============================================================================
