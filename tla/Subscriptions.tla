---------------------------- MODULE Subscriptions ----------------------------
(***************************************************************************)
(* Who gets which messages: the incoming queues of an endpoint             *)
(* (endpoint_impl.cpp, message_priority_queue), the subscribers, services  *)
(* and actors that own the handlers (subscriber.cpp, service.cpp,          *)
(* actor.cpp), what they announce, retract, allow and block, what the      *)
(* router notes of it and answers in their place (router_endpoint_info),   *)
(* and what an observer hears of it.  One router; the handshakes and the   *)
(* bookkeeping of connections are the subject of Handshake and RouterNodes.*)
(***************************************************************************)
EXTENDS Integers, Sequences, FiniteSets, SequencesExt, Functions

CONSTANTS
    Endpoints,  \* their ids, which their processes keep when they start again
    Observer,   \* one of them, that posts, asks and listens
    Types,      \* of the data messages
    Programs,   \* [Endpoints -> sets of programs its processes may run]: a
                \* program is an actor or a service, whose objects (subscribers)
                \* handle types, and which may allow only those
    Priorities, \* of the data messages
    Budgets     \* bounds: the processes of each endpoint, data messages, queries
                \* of the observer, and whims: handlers that refuse a message,
                \* objects that are removed, lists that are cleared

All == "all"
MetaTypes == {"subscribTo", "unsubFrom", "notSubTo", "qrySubscrp", "qrySubscrb", "byeByeEndp",
              "msgBlkList", "msgAlwList", "clrBlkList", "clrAlwList"}

ASSUME SubscriptionsAssumption ==
    /\ Observer \in Endpoints /\ All \notin Endpoints
    /\ IsFiniteSet(Types) /\ Types \cap MetaTypes = {} /\ "none" \notin Types
    /\ \A e \in Endpoints : \A p \in Programs[e] :
          /\ p.actor \in BOOLEAN /\ p.allows \in BOOLEAN
          /\ p.objects \in Seq(SUBSET (Types \cup MetaTypes))
    /\ Priorities \subseteq Nat
    /\ Budgets \subseteq [starts : [Endpoints -> Nat], posts : Nat, asks : Nat, whims : Nat]
    /\ \A b \in Budgets : b.starts[Observer] > 0

VARIABLES
    ran,      \* endpoint: the programs of its processes, the last may be running
    up,       \* endpoint: a process is running
    objects,  \* endpoint: the handled types of its subscribers
    incoming, \* endpoint: message type -> [count, queue]
    outgoing, \* endpoint: what it has posted and not yet sent
    toRtr, toEp, \* endpoint: what is on the way on its connection
    node,     \* endpoint: None, or the block and allow lists of the adjacent_node
    info,     \* endpoint: None, or the router_endpoint_info
    heard,    \* process: what the observer has heard of it
    handled,  \* endpoint: the data messages its process has handled
    due,      \* endpoint: the data messages its process should handle
    posts, asks, whims, \* how many there were
    budget              \* one of Budgets

subsVars == <<ran, up, objects, incoming, outgoing, toRtr, toEp, node, info, heard, handled, due,
          posts, asks, whims, budget>>

None == [none |-> TRUE]

Inst(e) == Len(ran[e])
Program(e) == Last(ran[e])

Message(type, about, e, to) ==
    [type |-> type, about |-> about, from |-> e, inst |-> Inst(e), to |-> to, pri |-> 0, no |-> 0]

\* The types of a program, as its objects handle them in every turn
Handles(p) == UNION Range(p.objects)
DataOf(p) == Handles(p) \cap Types
\* The types its objects handle now
Live(e) == UNION Range(objects[e])

-----------------------------------------------------------------------------
(* The queues of an endpoint.                                              *)

NoQueue == [count |-> 0, queue |-> <<>>]
Ensured(q, type) ==
    [t \in DOMAIN q \cup {type} |-> IF t \in DOMAIN q THEN q[t] ELSE NoQueue]

\* subscribe, by each of these objects
Subscribed(objs) ==
    [t \in UNION Range(objs) |-> [NoQueue EXCEPT !.count = Cardinality({i \in DOMAIN objs : t \in objs[i]})]]

\* unsubscribe, by an object that handled these types
Unsubscribed(q, types) ==
    [t \in {u \in DOMAIN q : u \in types => q[u].count > 1} |->
        IF t \in types THEN [q[t] EXCEPT !.count = @ - 1] ELSE q[t]]

\* message_priority_queue::push: before all that are not less important
Push(queue, m) == InsertAt(queue, 1 + Cardinality({i \in DOMAIN queue : queue[i].pri < m.pri}), m)

\* What is at these positions of a sequence
Picked(queue, at) ==
    LET pick[i \in 0 .. Len(queue)] ==
            IF i = 0 THEN <<>>
            ELSE IF i \in at THEN Append(pick[i - 1], queue[i]) ELSE pick[i - 1]
    IN  pick[Len(queue)]

\* Mutant: what one handler did not refuse is handled again, if another is refused
KeptAll(queue, refused) == IF refused \cap Range(queue) = {} THEN <<>> ELSE queue

\* process_all: what its handler refuses is kept, the rest is done
Kept(queue, refused) == Picked(queue, {i \in DOMAIN queue : queue[i] \in refused})
Done(queue, refused) == Picked(queue, {i \in DOMAIN queue : queue[i] \notin refused})

-----------------------------------------------------------------------------
(* An endpoint, and what is built upon it.                                 *)

Store(q, m) == [Ensured(q, m.type) EXCEPT ![m.type].queue = Push(@, m)]

\* What an actor does with a message: it is for a handler, or its type is
\* blocked from now on
Accept(e, acc, m) ==
    IF m.type \in DOMAIN acc.q THEN [acc EXCEPT !.q = Store(@, m)]
    ELSE IF m.type \in MetaTypes THEN acc
    ELSE [acc EXCEPT !.out = Append(@, Message("msgBlkList", m.type, e, All))]

Fetched(e) ==
    LET fetch[i \in 0 .. Len(toEp[e])] ==
            IF i = 0 THEN [q |-> incoming[e], out |-> outgoing[e]]
            ELSE IF Program(e).actor THEN Accept(e, fetch[i - 1], toEp[e][i])
            ELSE [fetch[i - 1] EXCEPT !.q = Store(@, toEp[e][i])]
    IN  fetch[Len(toEp[e])]

\* respond_to_subscription_query of each object, whose handlers are in order
RespondTo(e, m) ==
    IF m.type = "qrySubscrp"
    THEN LET said == SetToSeq(Live(e) \cap Types)
         IN  [i \in DOMAIN said |-> Message("subscribTo", said[i], e, m.from)]
    ELSE <<Message(IF m.about \in Live(e) THEN "subscribTo" ELSE "notSubTo", m.about, e, m.from)>>

\* What the observer hears: the reports carry the instance they are about
Hear(h, m) ==
    LET p == <<m.from, m.inst>>
    IN  IF m.type = "subscribTo"
        THEN [h EXCEPT ![p] = [yes |-> @.yes \cup {m.about}, no |-> @.no \ {m.about}]]
        ELSE [h EXCEPT ![p] = [yes |-> @.yes \ {m.about}, no |-> @.no \cup {m.about}]]

Heard(h, messages) ==
    LET hear[i \in 0 .. Len(messages)] == IF i = 0 THEN h ELSE Hear(hear[i - 1], messages[i])
    IN  hear[Len(messages)]

\* The order in which a service has its handlers, and in which those of all objects are
HandlerOrder == SetToSeq(Types) \o <<"subscribTo", "unsubFrom", "notSubTo", "qrySubscrp", "qrySubscrb">>
HandlersOf(e) ==
    FlattenSeq([i \in DOMAIN objects[e] |->
        Picked(HandlerOrder, {k \in DOMAIN HandlerOrder : HandlerOrder[k] \in objects[e][i]})])

\* process_all of one object, for one of the queues it has handlers for
ProcessType(e, acc, type, refused) ==
    LET queue == acc.q[type].queue
        done  == Done(queue, refused)
    IN  IF type \notin DOMAIN acc.q THEN acc
        ELSE [q       |-> [acc.q EXCEPT ![type].queue = Kept(queue, refused)],
              handled |-> IF type \in Types THEN acc.handled \o [i \in DOMAIN done |-> done[i].no]
                          ELSE acc.handled,
              heard   |-> IF type \in {"subscribTo", "unsubFrom", "notSubTo"}
                          THEN Heard(acc.heard, done) ELSE acc.heard,
              out     |-> IF type \in {"qrySubscrp", "qrySubscrb"}
                          THEN acc.out \o FlattenSeq([i \in DOMAIN done |-> RespondTo(e, done[i])])
                          ELSE acc.out]

ProcessAll(e, q, refused) ==
    LET handlers == HandlersOf(e)
        process[i \in 0 .. Len(handlers)] ==
            IF i = 0 THEN [q |-> q, out |-> <<>>, handled |-> handled[e], heard |-> heard]
            ELSE ProcessType(e, process[i - 1], handlers[i], refused)
    IN  process[Len(handlers)]

Unhandled(q) == UNION {Range(q[t].queue) : t \in DOMAIN q \cap Types}

\* endpoint::update and process_all of the subscribers; a handler may refuse
\* some of the messages until the next turn
Turn(e) ==
    /\ up[e]
    /\ LET fetched == Fetched(e)
       IN  \E refused \in IF whims < budget.whims THEN SUBSET Unhandled(fetched.q) ELSE {{}} :
              LET done == ProcessAll(e, fetched.q, refused)
              IN  /\ incoming' = [incoming EXCEPT ![e] = done.q]
                  /\ outgoing' = [outgoing EXCEPT ![e] = done.out]
                  /\ toRtr' = [toRtr EXCEPT ![e] = IF node[e] = None THEN @ ELSE @ \o fetched.out]
                  /\ handled' = [handled EXCEPT ![e] = done.handled]
                  /\ heard' = IF e = Observer THEN done.heard ELSE heard
                  /\ whims' = IF refused = {} THEN whims ELSE whims + 1
    /\ toEp' = [toEp EXCEPT ![e] = <<>>]
    /\ UNCHANGED <<ran, up, objects, node, info, due, posts, asks, budget>>

-----------------------------------------------------------------------------
(* The lives of processes.                                                 *)

Post(e, messages) == outgoing' = [outgoing EXCEPT ![e] = @ \o messages]

Announced(e, type, about) == [Message(type, about, e, All) EXCEPT !.inst = Inst(e) + 1]
Announcements(e, p) ==
    LET types == SetToSeq(DataOf(p))
        about(kind) == [i \in DOMAIN types |-> Announced(e, kind, types[i])]
    IN  about("subscribTo") \o IF p.allows THEN about("msgAlwList") ELSE <<>>

NewNode == [block |-> {}, allow |-> {}]

\* A process starts: its objects subscribe and announce, and the router takes
\* its connection for that of the node with this id, which keeps its lists
Start(e, p) ==
    /\ ~up[e] /\ Inst(e) < budget.starts[e] /\ p \in Programs[e]
    /\ ran' = [ran EXCEPT ![e] = Append(@, p)]
    /\ up' = [up EXCEPT ![e] = TRUE]
    /\ objects' = [objects EXCEPT ![e] = p.objects]
    /\ incoming' = [incoming EXCEPT ![e] = Subscribed(p.objects)]
    /\ Post(e, Announcements(e, p))
    /\ toRtr' = [toRtr EXCEPT ![e] = <<>>] /\ toEp' = [toEp EXCEPT ![e] = <<>>]
    /\ node' = [node EXCEPT ![e] = IF @ = None THEN NewNode ELSE @]
    /\ handled' = [handled EXCEPT ![e] = <<>>]
    /\ UNCHANGED <<info, heard, due, posts, asks, whims, budget>>

Ended(e) ==
    /\ up' = [up EXCEPT ![e] = FALSE]
    /\ incoming' = [incoming EXCEPT ![e] = <<>>] /\ objects' = [objects EXCEPT ![e] = <<>>]
    /\ outgoing' = [outgoing EXCEPT ![e] = <<>>] /\ toEp' = [toEp EXCEPT ![e] = <<>>]
    /\ handled' = [handled EXCEPT ![e] = <<>>] /\ due' = [due EXCEPT ![e] = {}]
    /\ UNCHANGED <<ran, node, info, heard, posts, asks, whims, budget>>

\* It is destroyed: it retracts what it has announced and says bye-bye
Stop(e) ==
    /\ e # Observer /\ up[e]
    /\ LET types == SetToSeq(DataOf(Program(e)))
           said  == [i \in DOMAIN types |-> Message("unsubFrom", types[i], e, All)]
       IN  toRtr' = [toRtr EXCEPT ![e] =
                IF node[e] = None THEN @
                ELSE @ \o outgoing[e] \o said \o <<Message("byeByeEndp", "none", e, All)>>]
    /\ Ended(e)

\* It crashes, and what it has sent may arrive or not
Crash(e) ==
    /\ e # Observer /\ up[e]
    /\ \E k \in 0 .. Len(toRtr[e]) : toRtr' = [toRtr EXCEPT ![e] = SubSeq(@, 1, k)]
    /\ Ended(e)

\* One of its static subscribers is destroyed while others go on: it
\* unsubscribes, and says nothing
RemoveObject(e) ==
    /\ up[e] /\ Len(objects[e]) > 1 /\ whims < budget.whims
    /\ incoming' = [incoming EXCEPT ![e] = Unsubscribed(@, Last(objects[e]))]
    /\ objects' = [objects EXCEPT ![e] = Front(@)]
    /\ due' = [due EXCEPT ![e] = {}]
    /\ whims' = whims + 1
    /\ UNCHANGED <<ran, up, outgoing, toRtr, toEp, node, info, heard, handled, posts, asks, budget>>

\* What has to be handled: by those that have a handler for it now
PostData(type, pri) ==
    /\ posts < budget.posts /\ up[Observer]
    /\ posts' = posts + 1
    /\ Post(Observer, <<[Message(type, "none", Observer, All) EXCEPT !.pri = pri, !.no = posts + 1]>>)
    /\ due' = [e \in Endpoints |->
            IF e # Observer /\ up[e] /\ type \in Live(e)
               /\ node[e] # None /\ type \notin node[e].block THEN due[e] \cup {posts + 1} ELSE due[e]]
    /\ UNCHANGED <<ran, up, objects, incoming, toRtr, toEp, node, info, heard, handled, asks, whims, budget>>

\* query_subscriptions_of, query_subscribers_of
Ask ==
    /\ asks < budget.asks /\ up[Observer]
    /\ asks' = asks + 1
    /\ \/ \E e \in Endpoints \ {Observer} : Post(Observer, <<Message("qrySubscrp", "none", Observer, e)>>)
       \/ \E type \in Types : Post(Observer, <<Message("qrySubscrb", type, Observer, All)>>)
    /\ UNCHANGED <<ran, up, objects, incoming, toRtr, toEp, node, info, heard, handled, due, posts, whims, budget>>

\* clear_block_list; the types are blocked again when they come again
ClearBlockList(e) ==
    /\ up[e] /\ e # Observer /\ Program(e).actor /\ whims < budget.whims
    /\ whims' = whims + 1
    /\ Post(e, <<Message("clrBlkList", "none", e, All)>>)
    /\ UNCHANGED <<ran, up, objects, incoming, toRtr, toEp, node, info, heard, handled, due, posts, asks, budget>>

-----------------------------------------------------------------------------
(* The router.                                                             *)

NewInfo(inst) == [inst |-> inst, subs |-> {}, unsubs |-> {}]

\* Mutant: a new instance inherits what the former one subscribed to
AssignInstanceKeeping(i, m) == IF i = None THEN NewInfo(m.inst) ELSE [i EXCEPT !.inst = m.inst]

AssignInstance(i, m) == IF i = None \/ i.inst # m.inst THEN NewInfo(m.inst) ELSE i

AddSubscription(i, type) == [i EXCEPT !.subs = @ \cup {type}, !.unsubs = @ \ {type}]
RemoveSubscription(i, type) == [i EXCEPT !.subs = @ \ {type}, !.unsubs = @ \cup {type}]

UpdatedInfo(i, m) ==
    CASE m.type = "subscribTo"              -> AddSubscription(AssignInstance(i, m), m.about)
      [] m.type \in {"unsubFrom", "notSubTo"} -> RemoveSubscription(AssignInstance(i, m), m.about)
      [] m.type \in {"msgBlkList", "msgAlwList"} -> AssignInstance(i, m)
      [] m.type = "byeByeEndp"              -> None
      [] OTHER                              -> i

UpdatedNode(n, m) ==
    CASE m.type = "msgBlkList" -> [n EXCEPT !.block = @ \cup {m.about}]
      [] m.type = "msgAlwList" -> [n EXCEPT !.allow = @ \cup {m.about}]
      [] m.type = "clrBlkList" -> [n EXCEPT !.block = {}]
      [] m.type = "clrAlwList" -> [n EXCEPT !.allow = {}]
      [] m.type = "byeByeEndp" -> None
      [] OTHER                 -> n

IsAllowed(n, m) ==
    m.type \in MetaTypes \/ (IF n.allow # {} THEN m.type \in n.allow ELSE m.type \notin n.block)

\* What the router answers in place of an endpoint it has heard of
AnswersFor(m) ==
    LET i == info[m.to]
        subs == IF m.type = "qrySubscrp" THEN i.subs ELSE i.subs \cap {m.about}
        said == SetToSeq(subs)
        answers == [k \in DOMAIN said |->
                       [type |-> "subscribTo", about |-> said[k], from |-> m.to, inst |-> i.inst,
                        to |-> m.from, pri |-> 0, no |-> 0]]
    IN  IF m.to = All \/ m.type \notin {"qrySubscrp", "qrySubscrb"} THEN <<>>
        ELSE IF i = None THEN <<>> ELSE answers

WasHandled == {"msgBlkList", "msgAlwList", "clrBlkList", "clrAlwList"}

\* The nodes a message is sent to
Receives(e, m) ==
    /\ e # m.from /\ m.type \notin WasHandled /\ m.to \in {All, e}
    /\ node[e] # None /\ IsAllowed(node[e], m)

\* What some messages become at their receivers
Sent(e, messages) ==
    FlattenSeq([i \in DOMAIN messages |->
        LET m == messages[i]
        IN  (IF e = m.from THEN AnswersFor(m) ELSE <<>>) \o (IF Receives(e, m) THEN <<m>> ELSE <<>>)])

\* route_messages: all that has come from one node, and the removal of a node
\* that said bye-bye. Sending to a process that is gone is in vain.
RoutedInfo(i, messages) ==
    LET known[k \in 0 .. Len(messages)] ==
            IF k = 0 THEN i ELSE UpdatedInfo(known[k - 1], messages[k])
    IN  known[Len(messages)]
RoutedNode(n, messages) == FoldLeft(UpdatedNode, n, messages)

Route(e) ==
    /\ toRtr[e] # <<>> /\ node[e] # None
    /\ info' = [info EXCEPT ![e] = RoutedInfo(@, toRtr[e])]
    /\ node' = [node EXCEPT ![e] = RoutedNode(@, toRtr[e])]
    /\ toEp' = [k \in Endpoints |-> IF up[k] THEN toEp[k] \o Sent(k, toRtr[e]) ELSE toEp[k]]
    /\ toRtr' = [toRtr EXCEPT ![e] = <<>>]
    /\ UNCHANGED <<ran, up, objects, incoming, outgoing, heard, handled, due, posts, asks, whims, budget>>

\* Nothing was heard of an endpoint for long: what is known of it is forgotten
Outdated(e) ==
    /\ info[e] # None /\ ~up[e]
    /\ info' = [info EXCEPT ![e] = None]
    /\ UNCHANGED <<ran, up, objects, incoming, outgoing, toRtr, toEp, node, heard, handled, due,
                   posts, asks, whims, budget>>

-----------------------------------------------------------------------------
Processes == UNION {{e} \X (1 .. b.starts[e]) : e \in Endpoints, b \in Budgets}

\* The observer runs and is connected
SubsInit ==
    \E p \in Programs[Observer] :
    /\ ran = [e \in Endpoints |-> IF e = Observer THEN <<p>> ELSE <<>>]
    /\ up = [e \in Endpoints |-> e = Observer]
    /\ objects = [e \in Endpoints |-> IF e = Observer THEN p.objects ELSE <<>>]
    /\ incoming = [e \in Endpoints |-> IF e = Observer THEN Subscribed(p.objects) ELSE <<>>]
    /\ outgoing = [e \in Endpoints |-> <<>>]
    /\ toRtr = [e \in Endpoints |-> <<>>] /\ toEp = [e \in Endpoints |-> <<>>]
    /\ node = [e \in Endpoints |-> IF e = Observer THEN NewNode ELSE None]
    /\ info = [e \in Endpoints |-> None]
    /\ heard = [q \in Processes |-> [yes |-> {}, no |-> {}]]
    /\ handled = [e \in Endpoints |-> <<>>] /\ due = [e \in Endpoints |-> {}]
    /\ posts = 0 /\ asks = 0 /\ whims = 0 /\ budget \in Budgets

SubsNext ==
    \/ \E e \in Endpoints : \/ \E p \in Programs[e] : Start(e, p)
                            \/ Turn(e) \/ Stop(e) \/ Crash(e) \/ RemoveObject(e)
                            \/ ClearBlockList(e) \/ Route(e) \/ Outdated(e)
    \/ \E type \in Types, pri \in Priorities : PostData(type, pri)
    \/ Ask

SubsSpec == SubsInit /\ [][SubsNext]_subsVars

-----------------------------------------------------------------------------
(* What is promised.                                                       *)

\* Every object of an endpoint keeps the queues it has pointers to, although
\* objects share queues and one of them may go (endpoint_impl.cpp, unsubscribe)
QueuesStay ==
    \A e \in Endpoints : \A i \in DOMAIN objects[e] : objects[e][i] \subseteq DOMAIN incoming[e]

\* No message is handled twice, however many objects handle its type and
\* whatever their handlers refuse (message_impl.cpp, process_all)
HandledOnce ==
    \A e \in Endpoints : IsInjective(handled[e])

\* What the observer hears of a process is true, whoever says it and whenever
\* it arrives: it is subscribed to nothing but what its program handles, and what
\* its objects still handle is denied only when the process is gone
\* (router_impl.cpp, router_endpoint_info)
ReportsAreTrue ==
    \A e \in Endpoints : \A k \in DOMAIN ran[e] :
        /\ heard[<<e, k>>].yes \subseteq Handles(ran[e][k])
        /\ up[e] /\ k = Inst(e) => heard[<<e, k>>].no \cap Live(e) = {}

\* When nothing is on the way any more, what was posted while an endpoint had
\* a handler for it, and its node did not block it, is handled: lists of allowed
\* and blocked types, other handlers and refusals notwithstanding (actor.cpp,
\* router_impl.cpp is_allowed)
Quiet ==
    \A e \in Endpoints : /\ outgoing[e] = <<>> /\ toRtr[e] = <<>> /\ toEp[e] = <<>>
                         /\ \A i \in DOMAIN objects[e], t \in Types :
                               t \in objects[e][i] => incoming[e][t].queue = <<>>
WantedIsHandled == Quiet => \A e \in Endpoints : due[e] \subseteq Range(handled[e])

-----------------------------------------------------------------------------
(* What lies behind HandledOnce and ReportsAreTrue: the inductive invariant. *)

AllTypes == Types \cup MetaTypes
Messages ==
    [type : AllTypes, about : Types \cup {"none"}, from : Endpoints, inst : Nat,
     to : Endpoints \cup {All}, pri : Nat, no : Nat]

ProcessesAreKnown ==
    /\ ran \in [Endpoints -> Seq(UNION {Programs[e] : e \in Endpoints})]
    /\ up \in [Endpoints -> BOOLEAN]
    /\ objects \in [Endpoints -> Seq(SUBSET AllTypes)]
    /\ posts \in Nat /\ budget \in Budgets
    /\ \A e \in Endpoints :
          /\ Inst(e) <= budget.starts[e]
          /\ up[e] => ran[e] # <<>> /\ Live(e) \subseteq Handles(Program(e))

\* A process still has an object that handles this type
StillHandles(e, k, type) == up[e] /\ k = Inst(e) /\ type \in Live(e)

\* The messages that say what is true of the process that sent them, and stays
\* true; and the data, which only the observer posts
Genuine ==
    {m \in Messages :
        /\ m.inst \in DOMAIN ran[m.from]
        /\ m.type = "subscribTo" => m.about \in DataOf(ran[m.from][m.inst])
        /\ m.type \in {"unsubFrom", "notSubTo"} => ~StillHandles(m.from, m.inst, m.about)
        /\ IF m.type \in Types THEN m.no \in 1 .. posts /\ m.from = Observer ELSE m.no = 0}
GenuineOf(e) == {m \in Genuine : m.from = e}

\* Queues of such messages, each with those of its own type
QueuesOf(messages) ==
    {q \in UNION {[types -> [count : Nat, queue : Seq(messages)]] : types \in SUBSET AllTypes} :
        \A t \in DOMAIN q : \A i \in DOMAIN q[t].queue : q[t].queue[i].type = t}

MessagesAreGenuine ==
    /\ DOMAIN outgoing = Endpoints /\ DOMAIN toRtr = Endpoints
    /\ \A e \in Endpoints : outgoing[e] \in Seq(GenuineOf(e)) /\ toRtr[e] \in Seq(GenuineOf(e))
    /\ toEp \in [Endpoints -> Seq(Genuine)]
    /\ incoming \in [Endpoints -> QueuesOf(Genuine)]

\* What a router may know of an endpoint, and the observer of processes
GenuineInfos(e) ==
    {None} \cup {i \in [inst : Nat, subs : SUBSET Types, unsubs : SUBSET (Types \cup {"none"})] :
                    i.inst \in DOMAIN ran[e] /\ i.subs \subseteq DataOf(ran[e][i.inst])}
GenuineReports ==
    {h \in [Processes -> [yes : SUBSET Types, no : SUBSET (Types \cup {"none"})]] :
        \A p \in Processes :
            /\ h[p].yes \cup h[p].no # {} => p[2] \in DOMAIN ran[p[1]]
            /\ \A type \in h[p].yes : type \in DataOf(ran[p[1]][p[2]])
            /\ \A type \in h[p].no : ~StillHandles(p[1], p[2], type)}

KnowledgeIsGenuine ==
    /\ DOMAIN info = Endpoints /\ \A e \in Endpoints : info[e] \in GenuineInfos(e)
    /\ heard \in GenuineReports

\* The numbers of the data, which are different wherever they wait
NumbersIn(queue) == {queue[i].no : i \in DOMAIN queue} \ {0}
Single(queue) ==
    \A i, j \in DOMAIN queue : queue[i].no = queue[j].no /\ queue[i].no # 0 => i = j
Queued(q) == UNION {NumbersIn(q[t].queue) : t \in DOMAIN q}
AllSingle(q) ==
    /\ \A t \in DOMAIN q : Single(q[t].queue)
    /\ \A t, u \in DOMAIN q : t # u => NumbersIn(q[t].queue) \cap NumbersIn(q[u].queue) = {}

\* What is on its way to the router, and at an endpoint
Posted == NumbersIn(outgoing[Observer]) \cup NumbersIn(toRtr[Observer])
DataIsPosted ==
    /\ Single(outgoing[Observer]) /\ Single(toRtr[Observer])
    /\ NumbersIn(outgoing[Observer]) \cap NumbersIn(toRtr[Observer]) = {}
DataIsAt(e) ==
    /\ Single(toEp[e]) /\ AllSingle(incoming[e])
    /\ handled[e] \in Seq(1 .. posts) /\ IsInjective(handled[e])
    /\ NumbersIn(toEp[e]) \cap Queued(incoming[e]) = {}
    /\ Range(handled[e]) \cap (NumbersIn(toEp[e]) \cup Queued(incoming[e])) = {}
    /\ Posted \cap (NumbersIn(toEp[e]) \cup Queued(incoming[e]) \cup Range(handled[e])) = {}
DataIsSingle ==
    /\ DOMAIN handled = Endpoints /\ DataIsPosted /\ \A e \in Endpoints : DataIsAt(e)

SubsIInv == ProcessesAreKnown /\ MessagesAreGenuine /\ KnowledgeIsGenuine /\ DataIsSingle
=============================================================================
