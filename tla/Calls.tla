------------------------------- MODULE Calls --------------------------------
(***************************************************************************)
(* Remote calls: invokers with their futures (core/invoker.cpp,            *)
(* core/future.cpp), the skeletons that answer at once, later, or from     *)
(* worker threads (core/skeleton.cpp), as the clients and servers of       *)
(* example/eagine/msgbus/010_fib_futures.cpp and 010_fib_async.cpp use     *)
(* them: a call is broadcast, each server answers it, and the client ends  *)
(* when it waits for no answer.                                            *)
(***************************************************************************)
EXTENDS Integers, Sequences, FiniteSets, FiniteSetsExt, Functions

CONSTANTS
    Clients,   \* each with one invoker
    Servers,   \* each with one skeleton
    Kinds,     \* what skeletons the servers may have: "function", "lazy", "async"
    MaxCalls,  \* bound: calls of each client
    MaxFaults  \* bound: lost messages, and deadlines that pass

ASSUME CallsAssumption ==
    /\ Kinds \subseteq [Servers -> {"function", "lazy", "async"}]
    /\ MaxCalls \in [Clients -> Nat] /\ MaxFaults \in Nat

VARIABLES
    calls,    \* [Clients -> Seq]: the calls, by their numbers, and their futures
    promises, \* [Clients -> SUBSET numbers]: what an invoker waits for
    requests, \* on the way to a server
    answers,  \* on the way to a client
    kind,     \* [Servers -> kinds], one of Kinds
    pending,  \* [Servers -> [number -> call]]: what a skeleton has not answered
    faults

vars == <<calls, promises, requests, answers, kind, pending, faults>>

Timeout == <<"timeout">>

-----------------------------------------------------------------------------
(* The clients.                                                            *)

\* make: the number of a call counts the calls of this invoker. A future that
\* is dropped, as that of a call which cannot be serialized, is not concluded.
\* What a call computes is named by the call, <<client, number>>.
Future(kept) == [kept |-> kept, late |-> FALSE, ends |-> <<>>]

Invoke(c, sent, kept) ==
    /\ Len(calls[c]) < MaxCalls[c]
    /\ calls' = [calls EXCEPT ![c] = Append(@, Future(sent /\ kept))]
    /\ promises' = [promises EXCEPT ![c] = @ \cup {Len(calls[c]) + 1}]
    /\ requests' = requests \cup {[to |-> s, from |-> c, number |-> Len(calls[c]) + 1] :
                                    s \in IF sent THEN Servers ELSE {}}
    /\ UNCHANGED <<answers, kind, pending, faults>>

\* The future's time is up; nothing is done about it now
DeadlinePasses(c, n) ==
    /\ n \in promises[c] /\ ~calls[c][n].late /\ faults < MaxFaults
    /\ calls' = [calls EXCEPT ![c][n].late = TRUE]
    /\ faults' = faults + 1
    /\ UNCHANGED <<promises, requests, answers, kind, pending>>

\* promise::fulfill: of a future that is still there, one handler is called
Fulfilled(f, value) ==
    IF ~f.kept THEN f
    ELSE [f EXCEPT !.ends = Append(@, IF f.late THEN Timeout ELSE value), !.kept = FALSE]

\* promise::should_be_removed
ShouldBeRemoved(f) == f.late \/ ~f.kept
TimedOut(f) == IF f.kept /\ f.late THEN [f EXCEPT !.ends = Append(@, Timeout), !.kept = FALSE] ELSE f

\* Mutant: a copy of the promise is fulfilled, and it stays where it is
FulfilCopy(c, n, value) ==
    LET found == n \in promises[c]
    IN  [futures |-> IF found /\ calls[c][n].kept
                     THEN [calls[c] EXCEPT ![n].ends = Append(@, value)] ELSE calls[c],
         waiting |-> {k \in promises[c] : ~calls[c][k].late}]

\* Mutant: the promises are not looked over
FulfilOnly(c, n, value) ==
    [futures |-> IF n \in promises[c] THEN [calls[c] EXCEPT ![n] = Fulfilled(@, value)] ELSE calls[c],
     waiting |-> promises[c] \ {n}]

\* pending_promises::fulfill, then update: all promises are looked over
\* whenever an answer comes, and only then
AfterFulfil(c, n, value) ==
    LET found == n \in promises[c]
        set   == IF found THEN [calls[c] EXCEPT ![n] = Fulfilled(@, value)] ELSE calls[c]
        left  == promises[c] \ {n}
    IN  [futures |-> [k \in DOMAIN set |-> IF k \in left THEN TimedOut(set[k]) ELSE set[k]],
         waiting |-> {k \in left : ~ShouldBeRemoved(set[k])}]

\* invoker_base::fulfill_by: an answer is recognized by its number
FulfillBy(m) ==
    /\ m \in answers
    /\ answers' = answers \ {m}
    /\ LET after == AfterFulfil(m.to, m.number, m.value)
       IN  /\ promises' = [promises EXCEPT ![m.to] = after.waiting]
           /\ calls' = [calls EXCEPT ![m.to] = after.futures]
    /\ UNCHANGED <<requests, kind, pending, faults>>

IsDone(c) == promises[c] = {}

-----------------------------------------------------------------------------
(* The servers.                                                            *)

AnswerTo(from, n, value, s) == [to |-> from, number |-> n, value |-> value, by |-> s]

\* skeleton::call: the function is called and the answer sent
InvokeBy(s, m) ==
    /\ answers' = answers \cup {AnswerTo(m.from, m.number, <<m.from, m.number>>, s)}
    /\ UNCHANGED pending

\* enqueue: pending calls are known by their number alone. While a call of one
\* client is pending, that of another with the same number is refused.
Enqueue(s, m) ==
    /\ pending' =
            IF m.number \in DOMAIN pending[s] THEN pending
            ELSE [pending EXCEPT ![s] =
                    [n \in DOMAIN @ \cup {m.number} |->
                        IF n = m.number THEN [from |-> m.from, late |-> FALSE, finished |-> FALSE]
                        ELSE @[n]]]
    /\ UNCHANGED answers

Calculate(s, m) ==
    /\ m \in requests /\ m.to = s
    /\ requests' = requests \ {m}
    /\ IF kind[s] = "function" THEN InvokeBy(s, m) ELSE Enqueue(s, m)
    /\ UNCHANGED <<calls, promises, kind, faults>>

\* A lazy call that waited too long is not answered any more
CallIsLate(s) ==
    /\ kind[s] = "lazy" /\ faults < MaxFaults
    /\ \E n \in DOMAIN pending[s] : ~pending[s][n].late /\ pending' = [pending EXCEPT ![s][n].late = TRUE]
    /\ faults' = faults + 1
    /\ UNCHANGED <<calls, promises, requests, answers, kind>>

\* async_call::do_it and deliver, in a worker thread
Work(s, n) ==
    /\ kind[s] = "async" /\ n \in DOMAIN pending[s] /\ ~pending[s][n].finished
    /\ pending' = [pending EXCEPT ![s][n].finished = TRUE]
    /\ UNCHANGED <<calls, promises, requests, answers, kind, faults>>

\* Mutant: it ends at a call that is too late
LazyFirst(s) ==
    LET first == Min(DOMAIN pending[s])
    IN  IF pending[s][first].late THEN [answered |-> {}, forgotten |-> {}]
        ELSE [answered |-> {first}, forgotten |-> {first}]

\* lazy_skeleton::handle_one: the first that is not too late is answered, and
\* forgotten with those before it
LazyNumbers(s) ==
    LET intime == {n \in DOMAIN pending[s] : ~pending[s][n].late}
        first  == IF intime = {} THEN {} ELSE {Min(intime)}
    IN  [answered |-> first,
         forgotten |-> {n \in DOMAIN pending[s] : \A k \in first : n <= k}]

\* async_skeleton::handle_one
AsyncNumbers(s) ==
    LET finished == {n \in DOMAIN pending[s] : pending[s][n].finished}
        first    == IF finished = {} THEN {} ELSE {Min(finished)}
    IN  [answered |-> first, forgotten |-> first]

\* Mutant: the answer has the number of the call after it
NextNumber(s, n) == LET later == {k \in DOMAIN pending[s] : k > n}
                    IN  AnswerTo(pending[s][n].from, IF later = {} THEN n ELSE Min(later),
                                 <<pending[s][n].from, n>>, s)

AnswerOf(s, n) == AnswerTo(pending[s][n].from, n, <<pending[s][n].from, n>>, s)

HandleOne(s) ==
    /\ kind[s] # "function" /\ pending[s] # <<>>
    /\ LET done == IF kind[s] = "lazy" THEN LazyNumbers(s) ELSE AsyncNumbers(s)
       IN  /\ answers' = answers \cup {AnswerOf(s, n) : n \in done.answered}
           /\ pending' = [pending EXCEPT ![s] = Restrict(@, DOMAIN @ \ done.forgotten)]
    /\ UNCHANGED <<calls, promises, requests, kind, faults>>

-----------------------------------------------------------------------------
\* A message is lost, or cannot be deserialized where it arrives
Lose ==
    /\ faults < MaxFaults
    /\ faults' = faults + 1
    /\ \/ \E m \in requests : requests' = requests \ {m} /\ UNCHANGED answers
       \/ \E m \in answers : answers' = answers \ {m} /\ UNCHANGED requests
    /\ UNCHANGED <<calls, promises, kind, pending>>

Init ==
    /\ calls = [c \in Clients |-> <<>>] /\ promises = [c \in Clients |-> {}]
    /\ requests = {} /\ answers = {}
    /\ kind \in Kinds /\ pending = [s \in Servers |-> <<>>]
    /\ faults = 0

Next ==
    \/ \E c \in Clients, sent, kept \in BOOLEAN : Invoke(c, sent, kept)
    \/ \E c \in Clients : \E n \in promises[c] : DeadlinePasses(c, n)
    \/ \E m \in answers : FulfillBy(m)
    \/ \E m \in requests : Calculate(m.to, m)
    \/ \E s \in Servers : CallIsLate(s) \/ HandleOne(s) \/ \E n \in DOMAIN pending[s] : Work(s, n)
    \/ Lose

\* All take their turns in a loop; the workers work, time passes
Numbers == UNION {1..MaxCalls[c] : c \in Clients}
Fairness ==
    /\ \A c \in Clients : WF_vars(\E m \in answers : m.to = c /\ FulfillBy(m))
    /\ \A s \in Servers : WF_vars(\E m \in requests : Calculate(s, m)) /\ WF_vars(HandleOne(s))
    /\ \A s \in Servers, n \in Numbers : WF_vars(Work(s, n))

Spec == Init /\ [][Next]_vars /\ Fairness

-----------------------------------------------------------------------------
(* What is promised.                                                       *)

\* However many servers answer a call, and however late, one handler of its
\* future is called, once, and a result is that of this very call, although
\* the calls of all clients have the same numbers (future.cpp, skeleton.cpp)
CallEndsOnce ==
    \A c \in Clients : \A n \in DOMAIN calls[c] : Len(calls[c][n].ends) <= 1

ResultIsOfItsCall ==
    \A c \in Clients : \A n \in DOMAIN calls[c] :
        Range(calls[c][n].ends) \subseteq {<<c, n>>, Timeout}

\* When an answer comes, of whatever call, all calls of this client that are
\* overdue are ended: those whose answers are lost do not keep it waiting
\* (future.cpp, pending_promises::update; nothing else makes it look for them)
OverdueAreEnded ==
    [][\A m \in answers \ answers' : faults' = faults =>
        \A n \in DOMAIN calls[m.to] : calls[m.to][n].late =>
            n \notin promises'[m.to] /\ (calls[m.to][n].kept => calls'[m.to][n].ends # <<>>)]_vars

-----------------------------------------------------------------------------
(* What lies behind the first two: the inductive invariant.                *)

TypeOK ==
    /\ calls \in [Clients -> Seq([kept : BOOLEAN, late : BOOLEAN,
                                  ends : Seq((Clients \X Nat) \cup {Timeout})])]
    /\ promises \in [Clients -> SUBSET Nat]
    /\ requests \subseteq [to : Servers, from : Clients, number : Nat]
    /\ answers \subseteq [to : Clients, number : Nat, value : Clients \X Nat, by : Servers]
    /\ DOMAIN pending = Servers
    /\ \A s \in Servers :
          /\ DOMAIN pending[s] \subseteq Nat
          /\ \A n \in DOMAIN pending[s] :
                pending[s][n] \in [from : Clients, late : BOOLEAN, finished : BOOLEAN]
    /\ faults \in Nat

\* A future that is still there is waited for, and has not ended
KeptAreAwaited ==
    \A c \in Clients : \A n \in DOMAIN calls[c] :
        calls[c][n].kept => n \in promises[c] /\ calls[c][n].ends = <<>>

PromisesAreOfCalls == \A c \in Clients : promises[c] \subseteq DOMAIN calls[c]

\* What an answer says is the result of the call that it will be taken for
AnswersAreTrue == \A m \in answers : m.value = <<m.to, m.number>>

IInv ==
    /\ TypeOK
    /\ PromisesAreOfCalls /\ KeptAreAwaited /\ AnswersAreTrue
    /\ CallEndsOnce /\ ResultIsOfItsCall
=============================================================================
