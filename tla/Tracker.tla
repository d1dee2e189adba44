------------------------------ MODULE Tracker -------------------------------
(***************************************************************************)
(* The node tracker service: what it learns about nodes, the instances     *)
(* (processes) and the hosts they run on, from announcements, bye-byes,    *)
(* pings and the answers to its queries (services/tracker.cpp,             *)
(* services/tracker_impl.cpp, core/remote_node_impl.cpp and the services   *)
(* it consists of: discovery, topology, statistics, ping, endpoint, host,  *)
(* application, compiler, build version and system information).           *)
(*                                                                         *)
(* What is known about something is modelled by who told it: a process (an *)
(* endpoint id and the number of its incarnation) or that process's host.  *)
(***************************************************************************)
EXTENDS Integers, Sequences, FiniteSets, SequencesExt, FiniteSetsExt, Functions

CONSTANTS
    Ids,          \* ids of nodes
    Routers,      \* the ids that are routers; the others are endpoints
    Links,        \* pairs <<router, other id>> that are connected
    HostOf(_),    \* the host that a process runs on
    InstanceInfo, \* what there is to know of an instance, some of
                  \* "appName", "buildVersion", "compiler"
    HostInfo,     \* what there is to know of a host: "hostname", and some of
                  \* "cpuThreads", "totalRam", "totalSwap"
    PingStates,   \* how many outcomes of the last pings there are, 2^8 in the code
    MaxEvents     \* bound: processes and faults (lost messages, slow pings,
                  \* long silences), where a router counts as two

ASSUME TrackerAssumption ==
    /\ Routers \subseteq Ids /\ Links \subseteq Routers \X Ids
    /\ IsFiniteSet(Ids)
    /\ InstanceInfo \subseteq {"appName", "buildVersion", "compiler"}
    /\ HostInfo \subseteq {"hostname", "cpuThreads", "totalRam", "totalSwap"}
    /\ {PingStates, MaxEvents} \subseteq Nat \ {0}

VARIABLES
    world,   \* [Ids -> [starts, up]]: the nodes themselves
    asked,   \* [Ids -> SUBSET]: queries on the way to a node
    wire,    \* [Ids -> Seq]: messages of a node that came since the last turn
    tracker, \* the tracker: [nodes, instances, hosts, connections, pings]
    byes,    \* the processes whose bye-bye the tracker handled
    mishaps  \* [count, announcementLost, overtaken]

trackerVars == <<world, asked, wire, tracker, byes, mishaps>>

Nothing == <<>>
BuildInfo == {"buildVersion", "compiler"}
SystemInfo == {"cpuThreads", "totalRam", "totalSwap"}
Process(id) == <<id, world[id].starts>>
Kind(id) == IF id \in Routers THEN "router" ELSE "endpoint"

-----------------------------------------------------------------------------
(* What is tracked.                                                        *)

NewNodeState == [instance |-> Nothing, host |-> Nothing, kind |-> "unknown", info |-> Nothing,
            pingable |-> "unknown", pingBits |-> 0, newInstance |-> FALSE]
NewInstanceState == [host |-> Nothing, known |-> [a \in InstanceInfo |-> Nothing],
                expired |-> FALSE, wasAlive |-> FALSE, changes |-> {}]
NewHostState == [known |-> [a \in HostInfo |-> Nothing],
            expired |-> FALSE, wasAlive |-> FALSE, changes |-> {}]

\* get_node, get_instance, get_host: what is not there yet is made
With(map, key, new) ==
    [k \in DOMAIN map \cup {key} |-> IF k \in DOMAIN map THEN map[k] ELSE new]
GetNode(t, id) == [t EXCEPT !.nodes = With(@, id, NewNodeState)]
GetInstance(t, i) == [t EXCEPT !.instances = With(@, i, NewInstanceState)]
GetHost(t, h) == [t EXCEPT !.hosts = With(@, h, NewHostState)]

IsResponsive(node) == node.pingBits # 0
Shifted(bits, alive) == (2 * bits + (IF alive THEN 1 ELSE 0)) % PingStates

\* ping_response, and ping_timeout of several nodes
PingResponse(t, id) == [GetNode(t, id) EXCEPT !.nodes[id].pingBits = Shifted(@, TRUE)]
PingTimeouts(t, ids) ==
    LET found(id) == GetNode(t, id).nodes[id]
    IN  [t EXCEPT !.pings = @ \ ids,
                  !.nodes = [id \in DOMAIN @ \cup ids |->
                      IF id \in ids THEN [found(id) EXCEPT !.pingBits = Shifted(@, FALSE)] ELSE @[id]]]

\* remote_node_state::notice_alive: tells the instance of a node that was
\* not responsive
NoticeNode(t, id) ==
    LET heard == PingResponse(t, id)
        i     == heard.nodes[id].instance
    IN  IF IsResponsive(GetNode(t, id).nodes[id]) \/ i = Nothing THEN heard
        ELSE [GetInstance(heard, i) EXCEPT !.instances[i].changes = @ \cup {"started"}]

\* notice_alive of instances and of hosts: an instance that is not overdue is
\* said to have started to respond
NoticeInstance(t, i) ==
    LET found == GetInstance(t, i)
    IN  [found EXCEPT !.instances[i].changes =
            IF found.instances[i].expired THEN @ ELSE @ \cup {"started"},
            !.instances[i].expired = FALSE]
NoticeHost(t, h) == [GetHost(t, h) EXCEPT !.hosts[h].expired = FALSE]

SetInstanceHost(t, i, h) == [GetInstance(t, i) EXCEPT !.instances[i].host = h]

\* remote_node_state::set_host_id
SetHostId(t, id, h) ==
    LET i == t.nodes[id].instance
        set == [t EXCEPT !.nodes[id].host = h]
    IN  IF t.nodes[id].host # h /\ i # Nothing THEN SetInstanceHost(set, i, h) ELSE set

SetKind(t, id, kind) == [t EXCEPT !.nodes[id].kind = kind]
SetStatistics(t, id) == SetKind(t, id, Kind(id))
SetEndpointInfo(t, id, p) == [SetKind(t, id, "endpoint") EXCEPT !.nodes[id].info = p]
SetPingable(t, id, pingable) == [t EXCEPT !.nodes[id].pingable = pingable]

\* The last name of the application stays; the first compiler and version do
SetInstanceInfo(t, i, type, p) ==
    [t EXCEPT !.instances[i].known[type] = IF @ = Nothing \/ type = "appName" THEN p ELSE @]
SetHostInfo(t, h, type, value) == [t EXCEPT !.hosts[h].known[type] = value]

\* get_connection: a new one is noted with both of its nodes
GetConnection(t, a, b) ==
    IF {a, b} \in t.connections THEN t
    ELSE GetNode(GetNode([t EXCEPT !.connections = @ \cup {{a, b}}], a), b)

\* Mutant: the state of the former instance is kept
NoticeOnly(t, id, i) ==
    LET found == GetNode(t, id)
    IN  NoticeNode(NoticeInstance([found EXCEPT !.nodes[id].instance = i], i), id)

\* notice_instance: a node whose instance changed is cleared, its connections
\* are forgotten
Notice(t, id, i) ==
    LET found == GetNode(t, id)
        node  == found.nodes[id]
        named(cleared, n) == [cleared EXCEPT !.nodes[id] = [n EXCEPT !.instance = i, !.newInstance = TRUE]]
        noticed ==
            CASE node.instance = i -> NoticeInstance(found, i)
              [] node.instance = Nothing ->
                    IF node.host = Nothing THEN named(found, node)
                    ELSE SetInstanceHost(NoticeInstance(named(found, node), i), i, node.host)
              [] OTHER -> named([found EXCEPT !.connections = {c \in @ : id \notin c}], NewNodeState)
    IN  NoticeNode(noticed, id)

-----------------------------------------------------------------------------
(* The handlers of the messages.                                           *)

Told(type, p) == [type |-> type, from |-> p, remote |-> p[1]]

\* What a node is noticed by
Announcing == {"alive", "subscribed", "unsubscribed", "topology"}

\* The queues of the message types, in the order their handlers were added
QueueOrder == <<"alive", "subscribed", "unsubscribed", "topology", "bye", "stats", "connStats",
                "info", "appName", "hostId", "hostname", "buildVersion", "compiler",
                "cpuThreads", "totalRam", "totalSwap", "pong">>

HandleAlive(t, id, p) == SetKind(Notice(t, id, p), id, "endpoint")

HandleSubscription(t, id, p, pingable) == SetPingable(Notice(t, id, p), id, pingable)

HandleTopology(t, id, m) ==
    LET noticed == SetKind(Notice(t, id, m.from), id, Kind(id))
    IN  IF m.remote = id THEN noticed ELSE GetConnection(noticed, id, m.remote)

HandleBye(t, id) == [t EXCEPT !.nodes = Restrict(@, DOMAIN @ \ {id})]

HandleStats(t, id) == NoticeNode(SetStatistics(GetNode(t, id), id), id)

\* Of a connection nothing but that it is there is kept
HandleConnectionStats(t, m) == GetConnection(t, m.from[1], m.remote)

HandleEndpointInfo(t, id, p) == NoticeNode(SetEndpointInfo(GetNode(t, id), id, p), id)

\* The name of the application notices the instance
HandleAppName(t, id, p) ==
    LET found == GetNode(t, id)
        i     == found.nodes[id].instance
    IN  IF i = Nothing THEN found
        ELSE NoticeInstance(SetInstanceInfo(GetInstance(found, i), i, "appName", p), i)

\* The compiler and the version notice the node
HandleBuildInfo(t, id, type, p) ==
    LET found == NoticeNode(t, id)
        i     == found.nodes[id].instance
    IN  IF i = Nothing THEN found ELSE SetInstanceInfo(GetInstance(found, i), i, type, p)

HandleHostId(t, id, p) == NoticeNode(SetHostId(GetNode(t, id), id, HostOf(p)), id)

\* The name of the host does not notice the node
HandleHostname(t, id, p) ==
    LET found == GetNode(t, id)
        h     == found.nodes[id].host
    IN  IF h = Nothing THEN found ELSE SetHostInfo(NoticeHost(found, h), h, "hostname", HostOf(p))

HandleSystemInfo(t, id, type, p) ==
    LET found == NoticeNode(t, id)
        h     == found.nodes[id].host
    IN  IF h = Nothing THEN found ELSE SetHostInfo(NoticeHost(found, h), h, type, HostOf(p))

HandlePong(t, id) == IF id \in t.pings THEN PingResponse([t EXCEPT !.pings = @ \ {id}], id) ELSE t

Handle(t, m) ==
    LET id == m.from[1]
    IN  CASE m.type = "alive"        -> HandleAlive(t, id, m.from)
          [] m.type = "subscribed"   -> HandleSubscription(t, id, m.from, "yes")
          [] m.type = "unsubscribed" -> HandleSubscription(t, id, m.from, "no")
          [] m.type = "topology"     -> HandleTopology(t, id, m)
          [] m.type = "bye"          -> HandleBye(t, id)
          [] m.type = "stats"        -> HandleStats(t, id)
          [] m.type = "connStats"    -> HandleConnectionStats(t, m)
          [] m.type = "info"         -> HandleEndpointInfo(t, id, m.from)
          [] m.type = "appName"      -> HandleAppName(t, id, m.from)
          [] m.type \in BuildInfo    -> HandleBuildInfo(t, id, m.type, m.from)
          [] m.type = "hostId"       -> HandleHostId(t, id, m.from)
          [] m.type = "hostname"     -> HandleHostname(t, id, m.from)
          [] m.type \in SystemInfo   -> HandleSystemInfo(t, id, m.type, m.from)
          [] m.type = "pong"         -> HandlePong(t, id)

\* Messages of a type came from a node since the last turn
Came(id, type) == \E m \in Range(wire[id]) : m.type = type

\* process_all: the queues of the types are emptied one by one, and what came
\* last is handled first (message_priority_queue)
HandleFrom(t, id, type) ==
    LET m(i) == wire[id][Len(wire[id]) + 1 - i]
        handle[i \in 0 .. Len(wire[id])] ==
            IF i = 0 THEN t
            ELSE IF m(i).type = type THEN Handle(handle[i - 1], m(i)) ELSE handle[i - 1]
    IN  handle[Len(wire[id])]

\* The orders in which the messages of several nodes can have come
Arrivals == SetToSeqs({id \in Ids : wire[id] # <<>>})

HaveCome(type) == \E id \in Ids : Came(id, type)
HandleType(t, type, order) ==
    LET handle[k \in 0 .. Len(order)] ==
            IF k = 0 THEN t
            ELSE IF Came(order[k], type) THEN HandleFrom(handle[k - 1], order[k], type) ELSE handle[k - 1]
    IN  handle[Len(order)]

ProcessMessages(t, order) ==
    LET process[k \in 0 .. Len(QueueOrder)] ==
            IF k = 0 THEN t
            ELSE IF HaveCome(QueueOrder[k]) THEN HandleType(process[k - 1], QueueOrder[k], order)
            ELSE process[k - 1]
    IN  process[Len(QueueOrder)]

-----------------------------------------------------------------------------
(* The update of the tracker.                                              *)

HasEndpointInfo(node) == node.info # Nothing
IsPingable(node) == node.kind = "router" \/ node.pingable = "yes"

Instance(t, node) ==
    IF node.instance \in DOMAIN t.instances THEN t.instances[node.instance] ELSE NewInstanceState

\* What is asked of a node now and then: what of its own is not known yet;
\* what a responsive node tells of an instance or a host that is tracked
Queries(t, id) ==
    LET node == t.nodes[id]
        Missing(known) == {a \in DOMAIN known : known[a] = Nothing}
        polled == IF IsResponsive(node) /\ node.instance \in DOMAIN t.instances
                  THEN {"appName", "buildVersion", "compiler"} ELSE {"buildVersion", "compiler"}
    IN  (IF node.kind = "unknown" THEN {"topology"} ELSE {}) \cup
        (IF node.host = Nothing THEN {"hostId"} ELSE {}) \cup
        (IF HasEndpointInfo(node) THEN {} ELSE {"info"}) \cup
        (Missing(Instance(t, node).known) \cap polled) \cup
        (IF IsResponsive(node) /\ node.host \in DOMAIN t.hosts
         THEN Missing(t.hosts[node.host].known) ELSE {})

\* query_node_info, of nodes whose instance is new
NewNodeQueries == {"info", "hostId", "hostname", "subscriptions"}

\* Mutant: what was missed once is not asked for again
AskOnce(t, ask, id) == IF t.nodes[id].newInstance THEN NewNodeQueries ELSE {}

Asking(t, ask, id) ==
    (IF ask THEN Queries(t, id) ELSE {}) \cup
    (IF t.nodes[id].newInstance THEN NewNodeQueries ELSE {})

\* update of an instance or of a host: its timeout is compared with what is
\* called alive, and taken for a sign of life
Updated(r) ==
    LET alive == r.expired
    IN  IF r.wasAlive = alive THEN r
        ELSE [r EXCEPT !.wasAlive = alive,
                       !.changes = @ \cup {IF alive THEN "started" ELSE "stopped"}]

ReportedChanges(t) ==
    LET Of(map) == UNION {{[of |-> k, change |-> c, expired |-> map[k].expired] :
                              c \in Updated(map[k]).changes} : k \in DOMAIN map}
    IN  Of(t.instances) \cup Of(t.hosts)

Changed(t) ==
    LET Reported(map) == [k \in DOMAIN map |-> [Updated(map[k]) EXCEPT !.changes = {}]]
    IN  [t EXCEPT !.instances = Reported(@), !.hosts = Reported(@),
                  !.nodes = [id \in DOMAIN @ |-> [@[id] EXCEPT !.newInstance = FALSE]]]

-----------------------------------------------------------------------------
TrackerInit ==
    /\ world = [id \in Ids |-> [starts |-> 0, up |-> FALSE]]
    /\ asked = [id \in Ids |-> {}]
    /\ wire = [id \in Ids |-> <<>>]
    /\ tracker = [nodes |-> <<>>, instances |-> <<>>, hosts |-> <<>>, connections |-> {}, pings |-> {}]
    /\ byes = {}
    /\ mishaps = [count |-> 0, announcementLost |-> FALSE, overtaken |-> FALSE]

\* Pings that nothing on the way can answer any more
LostPings == {id \in tracker.pings :
                "ping" \notin asked[id] /\ ~Came(id, "pong")}

\* Bound: one ping of a node is on the way at a time, two in the code
CanBePinged(t, sent) ==
    {id \in DOMAIN t.nodes : IsPingable(t.nodes[id]) /\ id \notin t.pings /\
        "ping" \notin sent[id] /\ ~Came(id, "pong")}

\* update_and_process_all: pings time out; topology and statistics are asked
\* for; what changed is reported; every node is asked for what is not known of
\* it, and pinged; then the messages that arrived are handled
UpdateAndProcessAll(ask, late) ==
    LET timedOut == PingTimeouts(tracker, late)
        pinged   == IF ask THEN CanBePinged(timedOut, asked) ELSE {}
        queries  == [id \in Ids |->
                        (IF ask THEN {"topology", "statistics"} ELSE {}) \cup
                        (IF id \in pinged THEN {"ping"} ELSE {}) \cup
                        (IF id \in DOMAIN timedOut.nodes THEN Asking(timedOut, ask, id) ELSE {})]
        updated  == [Changed(timedOut) EXCEPT !.pings = @ \cup pinged]
    IN  /\ \E order \in Arrivals : tracker' = ProcessMessages(updated, order)
        /\ asked' = [id \in Ids |-> IF world[id].up THEN asked[id] \cup queries[id] ELSE {}]
        /\ wire' = [id \in Ids |-> <<>>]
        /\ byes' = byes \cup {Process(id) : id \in {x \in Ids : Came(x, "bye")}}
        /\ UNCHANGED world

-----------------------------------------------------------------------------
(* The nodes.                                                              *)

Weight(id) == IF id \in Routers THEN 2 ELSE 1
Events == mishaps.count + SumFunction([id \in Ids |-> Weight(id) * world[id].starts])

StartMessages(p) ==
    IF p[1] \in Routers THEN <<>> ELSE <<Told("alive", p), Told("subscribed", p)>>

\* An id is used again when nothing of its former process is on the way
NodeStarts(id) ==
    /\ ~world[id].up /\ wire[id] = <<>>
    /\ Events + Weight(id) <= MaxEvents
    /\ world' = [world EXCEPT ![id] = [starts |-> @.starts + 1, up |-> TRUE]]
    /\ wire' = [wire EXCEPT ![id] = StartMessages(<<id, world'[id].starts>>)]
    /\ UNCHANGED <<asked, tracker, byes, mishaps>>

\* The node says bye-bye and leaves, or it just ends
NodeEnds(id, bye) ==
    /\ world[id].up
    /\ world' = [world EXCEPT ![id].up = FALSE]
    /\ wire' = [wire EXCEPT ![id] = @ \o bye]
    /\ asked' = [asked EXCEPT ![id] = {}]
    /\ UNCHANGED <<tracker, byes, mishaps>>
NodeLeaves(id) == NodeEnds(id, <<Told("bye", Process(id))>>)
NodeCrashes(id) == NodeEnds(id, <<>>)

\* An endpoint repeats that it is alive
NodeAnnounces(id) ==
    /\ world[id].up /\ id \notin Routers /\ wire[id] = <<>>
    /\ wire' = [wire EXCEPT ![id] = <<Told("alive", Process(id))>>]
    /\ UNCHANGED <<world, asked, tracker, byes, mishaps>>

QueryOf(type) == CASE type \in {"stats", "connStats"} -> "statistics"
                   [] type = "subscribed"             -> "subscriptions"
                   [] type = "pong"                   -> "ping"
                   [] OTHER                           -> type

\* What routers tell: their topology by their connections only; and endpoints
Linked(id) == {l[2] : l \in {x \in Links : x[1] = id /\ world[x[2]].up}}
PerLink(id, type) ==
    LET linked == SetToSeq(Linked(id))
    IN  [i \in DOMAIN linked |-> [Told(type, Process(id)) EXCEPT !.remote = linked[i]]]
RouterTells(id, type) ==
    IF type \in {"topology", "connStats"} THEN PerLink(id, type)
    ELSE IF type \in {"stats", "pong"} THEN <<Told(type, Process(id))>> ELSE <<>>
EndpointTells(id, type) ==
    IF type \in {"topology", "stats", "subscribed", "info", "hostId", "pong"} \cup InstanceInfo \cup HostInfo
    THEN <<Told(type, Process(id))>> ELSE <<>>

AnswersTo(id, queries) ==
    LET Tells(type) == IF QueryOf(type) \notin queries THEN <<>>
                       ELSE IF id \in Routers THEN RouterTells(id, type) ELSE EndpointTells(id, type)
    IN  FlattenSeq([k \in 1 .. Len(QueueOrder) |-> Tells(QueueOrder[k])])

NodeAnswers(id) ==
    /\ world[id].up /\ asked[id] # {}
    /\ wire' = [wire EXCEPT ![id] = @ \o AnswersTo(id, asked[id])]
    /\ asked' = [asked EXCEPT ![id] = {}]
    /\ UNCHANGED <<world, tracker, byes, mishaps>>

-----------------------------------------------------------------------------
(* What can go wrong.                                                      *)

Fault == /\ Events < MaxEvents
         /\ mishaps' = [mishaps EXCEPT !.count = @ + 1]

LoseQuery(id) ==
    /\ Fault
    /\ \E q \in asked[id] : asked' = [asked EXCEPT ![id] = @ \ {q}]
    /\ UNCHANGED <<world, wire, tracker, byes>>

LoseMessage(id) ==
    /\ Events < MaxEvents
    /\ \E i \in DOMAIN wire[id] :
        /\ wire' = [wire EXCEPT ![id] = RemoveAt(@, i)]
        /\ mishaps' = [mishaps EXCEPT !.count = @ + 1,
                !.announcementLost = @ \/ wire[id][i].type \in {"alive", "subscribed"}]
    /\ UNCHANGED <<world, asked, tracker, byes>>

\* Nothing was heard of an instance, or of a host, for minutes
Silence ==
    /\ Fault
    /\ \/ \E i \in DOMAIN tracker.instances : tracker' = [tracker EXCEPT !.instances[i].expired = TRUE]
       \/ \E h \in DOMAIN tracker.hosts : tracker' = [tracker EXCEPT !.hosts[h].expired = TRUE]
    /\ UNCHANGED <<world, asked, wire, byes>>

NodeUnsubscribes(id) ==
    /\ Fault
    /\ world[id].up /\ id \notin Routers
    /\ wire' = [wire EXCEPT ![id] = Append(@, Told("unsubscribed", Process(id)))]
    /\ UNCHANGED <<world, asked, tracker, byes>>

\* A bye-bye is handled before the answers that came before it
ByeOvertakes ==
    \E id \in Ids : Came(id, "bye") /\ \E m \in Range(wire[id]) : m.type \notin Announcing \cup {"bye"}

\* Bound: the timeouts of the queries are longer than their answers take
TrackerTurn(ask) ==
    /\ ask => \A id \in Ids : asked[id] = {}
    /\ UpdateAndProcessAll(ask, LostPings)
    /\ mishaps' = [mishaps EXCEPT !.overtaken = @ \/ ByeOvertakes]

\* The answer to a ping comes later than its timeout
SlowPing ==
    /\ Events < MaxEvents
    /\ \E id \in tracker.pings \ LostPings : UpdateAndProcessAll(FALSE, LostPings \cup {id})
    /\ mishaps' = [mishaps EXCEPT !.count = @ + 1, !.overtaken = @ \/ ByeOvertakes]

TrackerNext ==
    \/ \E id \in Ids : \/ NodeStarts(id) \/ NodeLeaves(id) \/ NodeCrashes(id) \/ NodeAnnounces(id)
                       \/ NodeAnswers(id) \/ LoseQuery(id) \/ LoseMessage(id) \/ NodeUnsubscribes(id)
    \/ TrackerTurn(TRUE) \/ TrackerTurn(FALSE) \/ SlowPing \/ Silence

\* The programs take their turns in a loop, and what is not lost arrives. (The
\* first conjunct says WF_trackerVars(TrackerTurn(TRUE)) without ENABLED, and no
\* more of it: the tracker's turn changes something when a node is up to be asked.)
NothingToAsk == \/ \E id \in Ids : asked[id] # {}
                \/ \A id \in Ids : ~world[id].up
TrackerFairness ==
    /\ []<>NothingToAsk \/ []<><<TrackerTurn(TRUE)>>_trackerVars
    /\ \A id \in Ids : WF_trackerVars(NodeAnswers(id)) /\ WF_trackerVars(NodeAnnounces(id))

TrackerSpec == TrackerInit /\ [][TrackerNext]_trackerVars /\ TrackerFairness

-----------------------------------------------------------------------------
(* What the tracker promises.                                              *)

\* What is shown of a node was told by the instance that is shown with it, or
\* is of that instance's host, although the id may be used by one process
\* after the other: unless its announcements were lost (notice_instance)
InfoIsOfItsInstance ==
    \/ mishaps.announcementLost \/ mishaps.overtaken
    \/ /\ \A id \in DOMAIN tracker.nodes :
            LET node == tracker.nodes[id]
            IN  node.instance # Nothing => /\ node.info \in {Nothing, node.instance}
                                        /\ node.host \in {Nothing, HostOf(node.instance)}
       /\ \A i \in DOMAIN tracker.instances :
            /\ Range(tracker.instances[i].known) \subseteq {Nothing, i}
            /\ tracker.instances[i].host \in {Nothing, HostOf(i)}
       /\ \A h \in DOMAIN tracker.hosts : Range(tracker.hosts[h].known) \subseteq {Nothing, h}

\* A node is not shown with an instance whose bye-bye was handled, although
\* announcements and bye-byes that come together are handled by their types
ByeIsFinal ==
    \A id \in DOMAIN tracker.nodes : tracker.nodes[id].instance \notin byes

\* What is shown of a node is of the process that is there, not of one that was
\* (tracker_impl.cpp, notice_instance and the handling of bye-byes)
ShownIsOfProcess == InfoIsOfItsInstance /\ ByeIsFinal

\* Whatever messages get lost, in the end a node that stays is known with its
\* kind and its instance (a router when it has a connection to tell of), and an
\* endpoint with its own and its instance's info
\* (the queries are repeated as long as something is missing)
IsKnown(id) ==
    /\ id \in DOMAIN tracker.nodes
    /\ LET node == tracker.nodes[id]
       IN  /\ node.instance = Process(id) /\ node.kind = Kind(id)
           /\ id \notin Routers =>
                /\ node.info # Nothing /\ node.host # Nothing
                /\ node.instance \in DOMAIN tracker.instances
                /\ Nothing \notin Range(tracker.instances[node.instance].known)

NodesBecomeKnown ==
    \A id \in Ids : <>[](world[id].up /\ (id \in Routers => Linked(id) # {}) => IsKnown(id))

=============================================================================
