---------------------------- MODULE RouterTurns -----------------------------
(***************************************************************************)
(* What a router does on its own: it gives out ids to endpoints (the first *)
(* half of the module, up to IInv), and it does its turns with worker      *)
(* threads (the second half).  The halves share no variable.               *)
(***************************************************************************)
EXTENDS Integers, Sequences, FiniteSets

(***************************************************************************)
(* The endpoint id allocator of the router: router_ids::get_next_id in     *)
(* router_impl.cpp, one step per iteration of its search loop, together    *)
(* with the changes of the set of connected node ids (router::has_node_id) *)
(* that the search consults.  The search runs on the router's main thread, *)
(* so no node is adopted or removed while it is running; between two       *)
(* searches any node may come or go, also one with an id that the          *)
(* allocator never gave out (endpoints may be configured with an id).      *)
(***************************************************************************)

CONSTANTS
    IdBase,  (* router_ids::_id_base: the id of the router itself           *)
    IdEnd,   (* router_ids::_id_end: one past the end of the range          *)
    MaxId    (* bound of the model: ids of connected nodes are at most this *)

ASSUME IdAssumption ==
    /\ IdBase \in Nat \ {0}
    /\ IdEnd \in Nat
    /\ IdEnd > IdBase + 1
    /\ MaxId \in Nat
    /\ MaxId >= IdEnd

VARIABLES
    nodes,   (* the ids of the connected nodes                              *)
    seq,     (* _id_sequence: the next id to try                            *)
    pc,      (* where get_next_id is                                        *)
    orig,    (* seq_orig: the value of _id_sequence when the call began     *)
    given    (* what the last finished call returned                        *)

vars == <<nodes, seq, pc, orig, given>>

(* The ids the router announces as its range, without its own.             *)
IdRange == (IdBase + 1) .. (IdEnd - 1)

TypeOK ==
    /\ nodes \subseteq 1 .. MaxId
    /\ seq \in Nat
    /\ pc \in {"idle", "search", "returned"}
    /\ orig \in Nat
    /\ given \in Nat

Init ==
    /\ nodes = {}
    /\ seq = IdBase + 1
    /\ pc = "idle"
    /\ orig = seq
    /\ given = 0

(* A pending connection is adopted as the node with this id.               *)
Adopt(id) ==
    /\ pc # "search"
    /\ nodes' = nodes \cup {id}
    /\ pc' = "idle"
    /\ UNCHANGED <<seq, orig, given>>

(* The node with this id is removed from the router.                       *)
Remove(id) ==
    /\ pc # "search"
    /\ id \in nodes
    /\ nodes' = nodes \ {id}
    /\ pc' = "idle"
    /\ UNCHANGED <<seq, orig, given>>

(* A pending connection asks for an id: get_next_id is entered.            *)
Begin ==
    /\ pc # "search"
    /\ seq <= MaxId
    /\ pc' = "search"
    /\ orig' = seq
    /\ UNCHANGED <<nodes, seq, given>>

(* Mutants: the starting point is compared before the increment, and the   *)
(* wrap-around skips the first ids of the range.                           *)
TryNextEarlyExit ==
    /\ pc = "search"
    /\ seq \in nodes
    /\ seq + 1 < IdEnd
    /\ seq' = seq + 1
    /\ IF seq = orig
       THEN pc' = "returned" /\ given' = 0
       ELSE UNCHANGED <<pc, given>>
    /\ UNCHANGED <<nodes, orig>>

WrapAroundTooFar ==
    /\ pc = "search"
    /\ seq \in nodes
    /\ seq + 1 >= IdEnd
    /\ seq' = IdBase + 2
    /\ UNCHANGED <<nodes, pc, orig, given>>

(* The id is in use and the next one is past the end of the range: the     *)
(* search goes on from the start of the range.                             *)
WrapAround ==
    /\ pc = "search"
    /\ seq \in nodes
    /\ seq + 1 >= IdEnd
    /\ seq' = IdBase + 1
    /\ UNCHANGED <<nodes, pc, orig, given>>

(* The id is in use: the next one is tried, unless it is the one the       *)
(* search began with, in which case the call returns 0.                    *)
TryNext ==
    /\ pc = "search"
    /\ seq \in nodes
    /\ seq + 1 < IdEnd
    /\ seq' = seq + 1
    /\ IF seq' = orig
       THEN pc' = "returned" /\ given' = 0
       ELSE UNCHANGED <<pc, given>>
    /\ UNCHANGED <<nodes, orig>>

(* The id is free: it is returned and the sequence moves past it.          *)
TakeId ==
    /\ pc = "search"
    /\ seq \notin nodes
    /\ given' = seq
    /\ seq' = seq + 1
    /\ pc' = "returned"
    /\ UNCHANGED <<nodes, orig>>

GetNextId == WrapAround \/ TryNext \/ TakeId

Next ==
    \/ \E id \in 1 .. MaxId : Adopt(id) \/ Remove(id)
    \/ Begin
    \/ GetNextId

Spec == Init /\ [][Next]_vars

(* The loop of get_next_id runs to its end once it is entered.             *)
FairSpec == Spec /\ WF_vars(GetNextId)

-----------------------------------------------------------------------------

(* When the allocator reports that it has no id (returns 0), every id of   *)
(* the range really is in use: the search never skips an id, wherever in   *)
(* the range or past it the previous call left the sequence.               *)
ZeroMeansExhausted ==
    (pc = "returned" /\ given = 0) => IdRange \subseteq nodes

(* As long as some id of the range is free the search ends, and with a     *)
(* real id: no position of the sequence makes the loop miss the free id.   *)
FreeIdIsFound ==
    (pc = "search" /\ IdRange \ nodes # {})
        ~> (pc = "returned" /\ given # 0)

(* The inductive invariant behind ZeroMeansExhausted: every id that the    *)
(* running search has passed is in use.                                    *)
PassedIdsAreInUse ==
    pc = "search" =>
        \/ orig <= seq /\ orig .. (seq - 1) \subseteq nodes
        \/ /\ seq < orig
           /\ orig .. (IdEnd - 1) \subseteq nodes
           /\ (IdBase + 1) .. (seq - 1) \subseteq nodes

IInv ==
    /\ TypeOK
    /\ seq > IdBase
    /\ PassedIdsAreInUse
    /\ ZeroMeansExhausted

(***************************************************************************)
(* The turns of a router that has more than two nodes: the main thread     *)
(* maintains the tables, then it hands out one work unit per node to the   *)
(* worker threads (first to route what the nodes have sent, then to update *)
(* their connections), serves the parent connection meanwhile, and waits   *)
(* on a latch that counts the nodes.  A unit handles the messages of one   *)
(* node; it takes the router's lock for each change of a table and for     *)
(* each send, so the units of several nodes interleave between the locks.  *)
(* Block lists, hops and ages are in Routing, pending connections in       *)
(* RouterNodes.                                                            *)
(***************************************************************************)

CONSTANTS
    Workers,     (* the threads of the workshop                             *)
    Main,        (* the thread that calls router::update                    *)
    Own,         (* the id of the router, also the link to its parent       *)
    Scripts,     (* what may be on the wire: functions of links to messages *)
    Endpoints,   (* the ids of endpoints that messages come from or go to   *)
    FirstNodes,  (* the nodes that are connected at first                   *)
    Count,       (* the bound on the rounds of one update                   *)
    MaxFlows     (* bound of the model: changes of the flow information     *)

(* What endpoints and routers send; of a message that is sent to all the   *)
(* target is 0, and the number tells the messages of one source apart.     *)
SentKinds == {"notARouter", "subscribTo", "byeByeEndp", "ping", "topoQuery", "cast", "data"}
Kinds == SentKinds \cup {"answer", "msgFlowInf"}
Messages == [kind : Kinds, source : Endpoints, target : Endpoints \cup {0},
             number : Nat, from : Endpoints]

(* What is on the wire of a link: a source numbers its messages, the nodes *)
(* use only their own link, and nobody else uses the id of the router.     *)
IsScript(s) ==
    /\ IsFiniteSet(DOMAIN s)
    /\ DOMAIN s \subseteq Endpoints
    /\ Own \in DOMAIN s
    /\ FirstNodes \subseteq DOMAIN s \ {Own}
    /\ \A l \in DOMAIN s :
        /\ s[l] \in Seq(Messages)
        /\ \A i \in DOMAIN s[l] :
            /\ s[l][i].kind \in SentKinds
            /\ s[l][i].kind \in {"ping", "data"} => s[l][i].target \in Endpoints
            /\ s[l][i].source \in DOMAIN s => s[l][i].source = l /\ l # Own
        /\ \A i, j \in DOMAIN s[l] :
            i < j /\ s[l][i].source = s[l][j].source => s[l][i].number < s[l][j].number

ASSUME WorkersAssumption ==
    /\ Main \notin Workers
    /\ Endpoints \subseteq Nat \ {0}
    /\ Count \in Nat
    /\ MaxFlows \in Nat
    /\ \A s \in Scripts : IsScript(s)

VARIABLES
    script,      (* the script of this behaviour                            *)
    phase,       (* where the main thread is                                *)
    todo,        (* the nodes the main thread has not come to in this phase *)
    rounds,      (* n, the rounds that are left                             *)
    worked,      (* something_done                                          *)
    latch,       (* completed: what is missing to zero                      *)
    queue,       (* the units the workers have not taken yet                *)
    job,         (* what each thread is working on                          *)
    node,        (* router_nodes::_nodes                                    *)
    useWorkers,  (* _use_worker_threads                                     *)
    gone,        (* _recently_disconnected                                  *)
    idx,         (* _endpoint_idx: 0 where there is no entry                *)
    subs,        (* _endpoint_infos: the subscriptions, by endpoint         *)
    known,       (* the endpoints that have an entry in _endpoint_infos     *)
    link,        (* the connections: what is on the wire, what was received *)
                 (* and not routed, what is queued and what was sent        *)
    flows,       (* counts the changes of the flow information              *)
    stale        (* whether a reference to an info was used after the table *)
                 (* had moved: what that writes is undefined                *)

turnsVars == <<script, phase, todo, rounds, worked, latch, queue, job, node,
          useWorkers, gone, idx, subs, known, link, flows, stale>>
turn == <<phase, todo, rounds>>
tables == <<node, useWorkers, gone, idx, subs, known, stale>>

Links == DOMAIN script
NodeIds == Links \ {Own}
Threads == Workers \cup {Main}
Idle == [unit |-> "none", of |-> 0, batch |-> <<>>, at |-> "idle", asker |-> 0, answers |-> 0,
         via |-> 0, moved |-> FALSE]
NewNode == [connected |-> TRUE, mayRoute |-> TRUE, bye |-> FALSE]
Nodes == DOMAIN node

(* A unit of work: whose messages it handles, those it has fetched, where  *)
(* it is, how many answers it is sending and to whom, the index it read,   *)
(* and whether the info it holds a reference to has moved.                 *)
Jobs == [unit : {"none", "route", "update"}, of : Nat, batch : Seq(Messages),
         at : {"idle", "take", "next", "add", "send"}, asker : Endpoints \cup {0},
         answers : Nat, via : Nat, moved : BOOLEAN]

TurnsTypeOK ==
    /\ script \in Scripts
    /\ phase \in {"maintain", "route", "wait routed", "update", "wait updated"}
    /\ todo \subseteq NodeIds
    /\ rounds \in Nat
    /\ worked \in BOOLEAN
    /\ latch \in Int
    /\ queue \in Seq(Jobs)
    /\ job \in [Threads -> Jobs]
    /\ Nodes \subseteq NodeIds
    /\ node \in [Nodes -> [connected : BOOLEAN, mayRoute : BOOLEAN, bye : BOOLEAN]]
    /\ useWorkers \in BOOLEAN
    /\ gone \subseteq NodeIds
    /\ idx \in [Endpoints -> Nat]
    /\ subs \in [Endpoints -> SUBSET Endpoints]
    /\ known \subseteq Endpoints
    /\ link \in [Links -> [wire : Seq(Messages), incoming : Seq(Messages),
                          out : Seq(Messages), got : Seq(Messages)]]
    /\ flows \in Nat
    /\ stale \in BOOLEAN

TurnsInit ==
    /\ script \in Scripts
    /\ phase = "maintain"
    /\ todo = {}
    /\ rounds = Count
    /\ worked = FALSE
    /\ latch = 0
    /\ queue = <<>>
    /\ job = [t \in Threads |-> Idle]
    /\ node = [n \in FirstNodes |-> NewNode]
    /\ useWorkers = (Cardinality(FirstNodes) > 2)
    /\ gone = {}
    /\ idx = [e \in Endpoints |-> 0]
    /\ subs = [e \in Endpoints |-> {}]
    /\ known = {}
    /\ link = [l \in Links |->
        [wire |-> script[l], incoming |-> <<>>, out |-> <<>>, got |-> <<>>]]
    /\ flows = 0
    /\ stale = FALSE

----------------------------------------------------------------------------
(* The main thread: maintenance.                                           *)

(* The information that is sent to every node when the average age of the  *)
(* messages has changed.                                                   *)
FlowInfo(n) == [kind |-> "msgFlowInf", source |-> Own, target |-> n, number |-> 0, from |-> Own]
SendFlowInfo(changed) ==
    IF changed THEN [l \in Links |-> IF l \in Nodes
                     THEN [link[l] EXCEPT !.out = Append(@, FlowInfo(l))] ELSE link[l]]
    ELSE link

(* A pending connection is adopted as a node that was not there: only then *)
(* the router looks again whether it uses the workers.                     *)
Adopted(new) == [n \in Nodes \cup new |-> IF n \in new THEN NewNode ELSE node[n]]
UpdateUseWorkers(new) ==
    useWorkers' = IF new \subseteq Nodes THEN useWorkers ELSE Cardinality(Nodes \cup new) > 2

(* Cleaning up drops the connection and the flag; the second pass erases   *)
(* every node that has no connection or has said bye-bye.                  *)
ShouldDisconnect(n) == ~n.connected \/ n.bye
CleanedUp(n) == IF ShouldDisconnect(n) THEN [n EXCEPT !.connected = FALSE, !.bye = FALSE] ELSE n
RemoveDisconnected(ns) ==
    LET clean == [n \in DOMAIN ns |-> CleanedUp(ns[n])]
    IN  [n \in {m \in DOMAIN ns : ~ShouldDisconnect(clean[m])} |-> clean[n]]

(* The timed-out and the lost connections are in RouterNodes, and so is a  *)
(* connection for a node that is there or was there before.                *)
Maintain ==
    /\ phase = "maintain"
    /\ \E changed \in BOOLEAN, new \in SUBSET (NodeIds \ (Nodes \cup gone)) :
        /\ changed => flows < MaxFlows
        /\ flows' = flows + (IF changed THEN 1 ELSE 0)
        /\ link' = SendFlowInfo(changed)
        /\ UpdateUseWorkers(new)
        /\ node' = RemoveDisconnected(Adopted(new))
        /\ gone' = gone \cup (Nodes \ DOMAIN node')
        /\ worked' = (changed \/ new # {} \/ gone' # gone)
    /\ phase' = "route"
    /\ todo' = DOMAIN node'
    /\ latch' = Cardinality(DOMAIN node')
    /\ rounds' = Count
    /\ UNCHANGED <<script, queue, job, idx, subs, known, stale>>

----------------------------------------------------------------------------
(* The main thread: units are enqueued, or served by the thread itself,    *)
(* in the order of the ids; then comes the parent, then the latch.         *)

Least(ids) == CHOOSE n \in ids : \A m \in ids : n <= m
Begun(what, n) == [Idle EXCEPT !.unit = what, !.of = n, !.at = "take"]

EnqueueUnit ==
    /\ phase \in {"route", "update"}
    /\ todo # {}
    /\ job[Main] = Idle
    /\ LET n == Least(todo)
       IN  /\ IF useWorkers
              THEN /\ queue' = IF node[n].connected THEN Append(queue, Begun(phase, n)) ELSE queue
                   /\ UNCHANGED job
              ELSE /\ job' = [job EXCEPT ![Main] = Begun(phase, n)]
                   /\ UNCHANGED queue
           /\ todo' = todo \ {n}
    /\ UNCHANGED <<script, phase, rounds, worked, latch, tables, link, flows>>

ServeParent ==
    /\ phase \in {"route", "update"}
    /\ todo = {}
    /\ job[Main] = Idle
    /\ job' = [job EXCEPT ![Main] = Begun(phase, Own)]
    /\ phase' = IF phase = "route" THEN "wait routed" ELSE "wait updated"
    /\ UNCHANGED <<script, todo, rounds, worked, latch, queue, tables, link, flows>>

Arrived == useWorkers => latch = 0

WaitRouted ==
    /\ phase = "wait routed"
    /\ job[Main] = Idle
    /\ Arrived
    /\ phase' = "update"
    /\ todo' = Nodes
    /\ latch' = Cardinality(Nodes)
    /\ UNCHANGED <<script, rounds, worked, queue, job, tables, link, flows>>

(* Mutant: rounds are not counted, and something was done once.            *)
WaitUpdatedAgain ==
    /\ phase = "wait updated"
    /\ job[Main] = Idle
    /\ Arrived
    /\ phase' = IF rounds > 0 /\ worked THEN "route" ELSE "maintain"
    /\ todo' = Nodes
    /\ latch' = Cardinality(Nodes)
    /\ UNCHANGED <<script, rounds, worked, queue, job, tables, link, flows>>

WaitUpdated ==
    /\ phase = "wait updated"
    /\ job[Main] = Idle
    /\ Arrived
    /\ IF rounds > 0 /\ worked
       THEN /\ phase' = "route"
            /\ todo' = Nodes
            /\ latch' = Cardinality(Nodes)
            /\ rounds' = rounds - 1
       ELSE /\ phase' = "maintain"
            /\ UNCHANGED <<todo, latch, rounds>>
    /\ UNCHANGED <<script, worked, queue, job, tables, link, flows>>

----------------------------------------------------------------------------
(* The units.                                                              *)

TakeUnit(w) ==
    /\ job[w] = Idle
    /\ queue # <<>>
    /\ job' = [job EXCEPT ![w] = Head(queue)]
    /\ queue' = Tail(queue)
    /\ UNCHANGED <<script, turn, worked, latch, tables, link, flows>>

(* do_it has returned: the latch is counted down.                          *)
Finish(t) ==
    /\ job' = [job EXCEPT ![t] = Idle]
    /\ latch' = IF t = Main THEN latch ELSE latch - 1

(* Without the workers only the update of the parent connection counts.    *)
Counts(t) == useWorkers \/ job[t].of = Own

UpdateConnection(t) ==
    /\ job[t].at = "take"
    /\ job[t].unit = "update"
    /\ link' = [link EXCEPT ![job[t].of] =
        [wire |-> <<>>, incoming |-> @.incoming \o @.wire, out |-> <<>>, got |-> @.got \o @.out]]
    /\ worked' = (worked \/ (Counts(t) /\ link' # link))
    /\ Finish(t)
    /\ UNCHANGED <<script, turn, queue, tables, flows>>

FetchMessages(t) ==
    /\ job[t].at = "take"
    /\ job[t].unit = "route"
    /\ LET n == job[t].of IN
        /\ job' = [job EXCEPT ![t].batch = link[n].incoming, ![t].at = "next"]
        /\ worked' = (worked \/ link[n].incoming # <<>>)
        /\ link' = [link EXCEPT ![n].incoming = <<>>]
    /\ UNCHANGED <<script, turn, latch, queue, tables, flows>>

RouteDone(t) ==
    /\ job[t].at = "next"
    /\ job[t].batch = <<>>
    /\ job[t].answers = 0
    /\ Finish(t)
    /\ UNCHANGED <<script, turn, worked, queue, tables, link, flows>>

----------------------------------------------------------------------------
(* One message: the steps between the locks.                               *)

(* The answers of the router come from its own id.                         *)
Answer(to) == [kind |-> "answer", source |-> Own, target |-> to, number |-> 0, from |-> Own]

(* The answers are routed before the handler of the message they answer    *)
(* returns, then the message itself (if it goes on) and those behind it.   *)
Answering(t) == job[t].answers > 0
Message(t) == IF Answering(t) THEN Answer(job[t].asker) ELSE Head(job[t].batch)
IsNext(t, kinds) ==
    /\ job[t].at = "next"
    /\ Answering(t) \/ job[t].batch # <<>>
    /\ Message(t).kind \in kinds
Goes(t, at) == [job EXCEPT ![t].at = at]
Next1(t) == [job EXCEPT ![t].at = "next", ![t].batch = Tail(@)]
Broadcasts == {"cast", "subscribTo", "byeByeEndp", "topoQuery", "notARouter"}

(* Those who hold a reference into the table of infos, and it moves.       *)
Moved(jobs, t) == [u \in Threads |-> IF u # t /\ jobs[u].at = "add" THEN [jobs[u] EXCEPT !.moved = TRUE] ELSE jobs[u]]

(* The index and the info are written under the lock, a reference to the   *)
(* info is returned without it.                                            *)
UpdateEndpointInfo(t) ==
    /\ IsNext(t, {"subscribTo"})
    /\ LET m == Message(t) IN
        /\ idx' = [idx EXCEPT ![m.source] = m.from]
        /\ known' = known \cup {m.source}
        /\ job' = IF m.source \in known THEN Goes(t, "add") ELSE Moved(Goes(t, "add"), t)
    /\ UNCHANGED <<script, turn, worked, latch, queue, node, useWorkers, gone, subs, link, flows, stale>>

(* The lock is taken again and the subscription goes where the reference   *)
(* points: to the info, or, when entries came or went meanwhile, to the    *)
(* info of somebody else or to memory that is no info any more.            *)
AddSubscription(t) ==
    /\ job[t].at = "add"
    /\ \E e \in IF job[t].moved THEN known \cup {0} ELSE {Message(t).source} :
        subs' = [f \in Endpoints |-> IF f = e THEN subs[f] \cup {Message(t).source} ELSE subs[f]]
    /\ stale' = (stale \/ job[t].moved)
    /\ job' = [job EXCEPT ![t].at = "send", ![t].moved = FALSE]
    /\ UNCHANGED <<script, turn, worked, latch, queue, node, useWorkers, gone, idx, known, link, flows>>

(* Mutant: only the index forgets the endpoint.                            *)
HandleByeByeInIndex(t) ==
    /\ IsNext(t, {"byeByeEndp"})
    /\ job[t].of # Own
    /\ LET n == job[t].of IN
        node' = IF n \in Nodes /\ ~node[n].mayRoute THEN [node EXCEPT ![n].bye = TRUE] ELSE node
    /\ idx' = [idx EXCEPT ![Message(t).source] = 0]
    /\ job' = Goes(t, "send")
    /\ UNCHANGED <<script, turn, worked, latch, queue, useWorkers, gone, subs, known, link, flows, stale>>

(* The node is only marked: its connection is used until the maintenance.  *)
HandleByeBye(t) ==
    /\ IsNext(t, {"byeByeEndp"})
    /\ job[t].of # Own
    /\ LET e == Message(t).source
           n == job[t].of
       IN  /\ node' = IF n \in Nodes /\ ~node[n].mayRoute THEN [node EXCEPT ![n].bye = TRUE] ELSE node
           /\ idx' = [idx EXCEPT ![e] = 0]
           /\ subs' = [subs EXCEPT ![e] = {}]
           /\ known' = known \ {e}
           /\ job' = IF e \in known THEN Moved(Goes(t, "send"), t) ELSE Goes(t, "send")
    /\ UNCHANGED <<script, turn, worked, latch, queue, useWorkers, gone, link, flows, stale>>

(* A bye-bye that comes from the parent is only logged.                    *)
LogByeBye(t) ==
    /\ IsNext(t, {"byeByeEndp"})
    /\ job[t].of = Own
    /\ job' = Next1(t)
    /\ UNCHANGED <<script, turn, worked, latch, queue, tables, link, flows>>

HandleNotARouter(t) ==
    /\ IsNext(t, {"notARouter"})
    /\ job[t].of # Own
    /\ node' = IF Message(t).from = Message(t).source
               THEN [node EXCEPT ![job[t].of].mayRoute = FALSE] ELSE node
    /\ job' = Next1(t)
    /\ UNCHANGED <<script, turn, worked, latch, queue, useWorkers, gone, idx, subs, known, link, flows, stale>>

(* A ping of the router is answered, another one goes on.                  *)
HandlePing(t) ==
    /\ IsNext(t, {"ping"})
    /\ Message(t).target = Own
    /\ job' = [job EXCEPT ![t].batch = Tail(@), ![t].asker = Message(t).source, ![t].answers = 1]
    /\ UNCHANGED <<script, turn, worked, latch, queue, tables, link, flows>>

(* One answer for each node and one for the parent, then the query goes on.*)
HandleTopologyQuery(t) ==
    /\ IsNext(t, {"topoQuery"})
    /\ LET m == Message(t) IN
        job' = [job EXCEPT ![t].batch = <<[m EXCEPT !.kind = "cast"]>> \o Tail(@),
                           ![t].asker = m.source, ![t].answers = Cardinality(Nodes) + 1]
    /\ UNCHANGED <<script, turn, worked, latch, queue, tables, link, flows>>

(* The index is read without the lock.                                     *)
FindOutgoing(t) ==
    /\ IsNext(t, {"data", "answer", "ping"})
    /\ Message(t).kind = "ping" => Message(t).target # Own
    /\ job' = [job EXCEPT ![t].at = "send", ![t].via = idx[Message(t).target]]
    /\ UNCHANGED <<script, turn, worked, latch, queue, tables, link, flows>>

(* What the router does not know of its parent's messages goes on.         *)
Broadcast(t) ==
    /\ IsNext(t, {"cast", "notARouter"})
    /\ Message(t).kind = "notARouter" => job[t].of = Own
    /\ job' = Goes(t, "send")
    /\ UNCHANGED <<script, turn, worked, latch, queue, tables, link, flows>>

(* Where the message goes, in the order in which the router tries.         *)
Outgoing(t) ==
    LET m == Message(t)
        via == job[t].via
    IN  IF m.kind \in Broadcasts
        THEN (Nodes \ {m.from}) \cup ({Own} \ {m.from})
        ELSE IF via = Own THEN {Own}
        ELSE IF via \in Nodes THEN {via}
        ELSE IF m.target \in Nodes THEN {m.target}
        ELSE IF m.target \in gone THEN {}
        ELSE {n \in Nodes : node[n].mayRoute /\ n # m.from} \cup ({Own} \ {m.from})

Send(t) ==
    /\ job[t].at = "send"
    /\ link' = [l \in Links |->
        IF l \in Outgoing(t) THEN [link[l] EXCEPT !.out = Append(@, Message(t))] ELSE link[l]]
    /\ job' = [job EXCEPT ![t].at = "next", ![t].via = 0,
                          ![t].batch = IF Answering(t) THEN @ ELSE Tail(@),
                          ![t].answers = IF Answering(t) THEN @ - 1 ELSE 0,
                          ![t].asker = IF job[t].answers > 1 THEN @ ELSE 0]
    /\ UNCHANGED <<script, turn, worked, latch, queue, tables, flows>>

Work(t) ==
    \/ UpdateConnection(t) \/ FetchMessages(t) \/ RouteDone(t)
    \/ UpdateEndpointInfo(t) \/ AddSubscription(t)
    \/ HandleByeBye(t) \/ LogByeBye(t) \/ HandleNotARouter(t)
    \/ HandlePing(t) \/ HandleTopologyQuery(t) \/ FindOutgoing(t) \/ Broadcast(t) \/ Send(t)

MainStep == Maintain \/ EnqueueUnit \/ ServeParent \/ WaitRouted \/ WaitUpdated \/ Work(Main)
WorkerStep(w) == TakeUnit(w) \/ Work(w)

TurnsNext == MainStep \/ \E w \in Workers : WorkerStep(w)

TurnsSpec == TurnsInit /\ [][TurnsNext]_turnsVars
TurnsFairness == WF_turnsVars(MainStep) /\ \A w \in Workers : WF_turnsVars(WorkerStep(w))

----------------------------------------------------------------------------

Quiet == queue = <<>> /\ \A t \in Threads : job[t] = Idle

(* While the main thread changes the tables of nodes no unit runs, no unit *)
(* is left for later, and what a node has sent reaches each other node     *)
(* once and in the order in which it was sent: no two units of one node    *)
(* ever run side by side (router_impl.cpp, do_work_by_workers).            *)
InOrder(s) ==
    \A i, j \in DOMAIN s :
        i < j /\ s[i].source = s[j].source /\ s[i].source \in NodeIds => s[i].number < s[j].number
TurnsAreSerial ==
    /\ phase = "maintain" => Quiet
    /\ \A l \in Links : InOrder(link[l].got \o link[l].out)

(* Of the first q messages of its script an endpoint has subscribed and    *)
(* not said bye-bye since.                                                 *)
Says(e, i, kind) == script[e][i].kind = kind /\ script[e][i].source = e
Subscribed(e, q) ==
    \E i \in 1 .. q : Says(e, i, "subscribTo") /\ \A k \in i + 1 .. q : ~Says(e, k, "byeByeEndp")
Asked(e, q) == IF Subscribed(e, q) THEN {e} ELSE {}

(* When no reference was used after the table had moved and no unit runs,  *)
(* the router knows of every endpoint that it subscribes to what it has    *)
(* asked for, and of nobody else, until it has said bye-bye                *)
(* (router_impl.cpp, _handle_subscribed).                                  *)
Fetched(e) == Len(script[e]) - Len(link[e].incoming) - Len(link[e].wire)
InfosAreExact == Quiet /\ ~stale => \A e \in NodeIds : subs[e] = Asked(e, Fetched(e))

TurnsAreSound == TurnsAreSerial /\ InfosAreExact

(* Every turn of the router ends: the latch counts as many units as will   *)
(* arrive, also when nodes were removed or adopted before                  *)
(* (router_impl.cpp, _route_messages_by_workers).                          *)
TurnsEnd == []<>(phase = "maintain")

----------------------------------------------------------------------------
(* The inductive invariant behind TurnsAreSound.                           *)

(* The units of one phase are of different nodes, wherever they are: not   *)
(* enqueued yet, in the queue, or with a thread.                           *)
Busy(t) == job[t].at # "idle"
UnitsAreApart ==
    /\ todo \subseteq Nodes
    /\ \A i \in DOMAIN queue : queue[i].of \in Nodes \ todo
    /\ \A i, j \in DOMAIN queue : i # j => queue[i].of # queue[j].of
    /\ \A t \in Threads : Busy(t) => job[t].of \in (Nodes \cup {Own}) \ todo
    /\ \A w \in Workers : Busy(w) => job[w].of # Own
    /\ \A t \in Threads, i \in DOMAIN queue : Busy(t) => job[t].of # queue[i].of
    /\ \A t, u \in Threads : t # u /\ Busy(t) /\ Busy(u) => job[t].of # job[u].of

(* The latch counts the units that are to come, where the workers are      *)
(* used, and where they are not they have nothing to do.                   *)
QueuedUnits == {queue[i].of : i \in DOMAIN queue}
BusyUnits == {job[w].of : w \in {v \in Workers : Busy(v)}}
Units == todo \cup QueuedUnits \cup BusyUnits
LatchCounts ==
    /\ phase \notin {"route", "update"} => todo = {}
    /\ phase = "maintain" => Quiet
    /\ useWorkers => latch = Cardinality(Units)
    /\ ~useWorkers => queue = <<>> /\ \A w \in Workers : ~Busy(w)
    /\ \A n \in Nodes : node[n].connected

JobIsSound(j) ==
    /\ j.at = "idle" => j = Idle
    /\ j.at = "take" => j.batch = <<>> /\ j.answers = 0
    /\ j.at = "add" => j.batch # <<>> /\ j.answers = 0 /\ Head(j.batch).kind = "subscribTo"
    /\ j.at = "send" => j.batch # <<>> \/ j.answers > 0
    /\ j.answers > 0 => j.asker \in Endpoints
JobsAreSound ==
    /\ \A t \in Threads : JobIsSound(job[t])
    /\ \A i \in DOMAIN queue : queue[i].at = "take" /\ JobIsSound(queue[i])

(* What was not routed yet is the end of the script: the batch of the unit *)
(* of that node, what was received, what is on the wire.                   *)
JobOf(e) ==
    IF \E t \in Threads : Busy(t) /\ job[t].of = e
    THEN job[CHOOSE t \in Threads : Busy(t) /\ job[t].of = e] ELSE Idle
Passed(e) == Fetched(e) - Len(JobOf(e).batch)
Same(m, sent) ==
    /\ m.source = sent.source
    /\ m.target = sent.target
    /\ m.number = sent.number
    /\ m.kind = sent.kind \/ (m.kind = "cast" /\ sent.kind = "topoQuery")
ScriptsAreFollowed ==
    \A e \in Links :
        /\ Passed(e) \in Nat
        /\ \A i \in DOMAIN JobOf(e).batch : Same(JobOf(e).batch[i], script[e][Passed(e) + i])
        /\ \A i \in DOMAIN link[e].incoming : link[e].incoming[i] = script[e][Fetched(e) + i]
        /\ \A i \in DOMAIN link[e].wire :
            link[e].wire[i] = script[e][Fetched(e) + Len(link[e].incoming) + i]

(* What was sent on is in order and comes before what was not.             *)
IsBefore(m) ==
    \A p \in Passed(m.source) + 1 .. Len(script[m.source]) :
        script[m.source][p].source = m.source => m.number < script[m.source][p].number
OrderIsKept ==
    \A l \in Links :
        LET s == link[l].got \o link[l].out
        IN  InOrder(s) /\ \A i \in DOMAIN s : s[i].source \in NodeIds => IsBefore(s[i])

(* The infos follow the messages that were handled, which include the one  *)
(* that is being sent on.                                                  *)
Sending(e) == JobOf(e).at = "send" /\ JobOf(e).answers = 0
Handled(e) == Passed(e) + (IF Sending(e) THEN 1 ELSE 0)
InfosFollow == ~stale => \A e \in NodeIds : subs[e] = Asked(e, Handled(e))

TurnsIInv ==
    /\ TurnsTypeOK
    /\ UnitsAreApart
    /\ LatchCounts
    /\ JobsAreSound
    /\ ScriptsAreFollowed
    /\ OrderIsKept
    /\ InfosFollow

=============================================================================
