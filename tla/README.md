# A TLA+ model of the EAGine message bus

This directory specifies, model-checks and proves properties of the EAGine
message bus: how endpoints get an identity and join a router, what a router
keeps of them, how messages are routed through a tree of routers, how
connections and bridges queue and pass messages, how blobs and resources are
transferred on top of that, and the services that are built on it. Every
definition is translated from the C++ code in `src/source/modules/eagine` and
`src/source/app`; `PROJECT.json` maps each one to its lines.

Short names used below:

| short | file |
|---|---|
| RI  | `src/source/modules/eagine/core/router_impl.cpp` |
| EI  | `src/source/modules/eagine/core/endpoint_impl.cpp` |
| AI  | `src/source/modules/eagine/core/asio_impl.cpp` |
| MI  | `src/source/modules/eagine/core/message_impl.cpp` |
| BI  | `src/source/modules/eagine/core/blobs_impl.cpp` |
| SR  | `src/source/modules/eagine/services/resource_transfer_impl.cpp` |
| UR  | `src/source/modules/eagine/utility/resource_transfer_impl.cpp` |

## 1. Inventory

All programs of the bus are loops that call `update` (which fetches, handles
and sends) on an endpoint or on a router. Within one endpoint everything runs
on one thread; so does a router, unless it is told to use workers, which then
route the messages of each node. The threads of the asio connections run the
completion handlers of reads and writes. What is concurrent is therefore
mainly the *programs*: their messages cross, connections break at any
moment, and each side has timers of its own.

| component | state | hard behaviour | what makes it correct |
|---|---|---|---|
| Router ids (RI 961-974) | `_id_base`, `_id_end`, `_id_sequence` | wrap-around, ids that nodes brought with them | 0 only when the range is exhausted; ends when an id is free |
| Handshake (EI 123-173, 568-660; RI 54-222, 635-687) | endpoint: id, router id, timer; router: `router_pending` (id, nonce, password timer) | answers that come after the question was repeated, lost connections, updates that run beside each other | both sides agree on the id; no node without the password; everybody who can registers |
| Node table (RI 226-275, 315-384, 605-820, 1173-1416) | `_pending`, `_nodes`, `_endpoint_infos`, `_endpoint_idx`, `_recently_disconnected` | two connections of one endpoint, restarted endpoints, bye-bye against reconnection | one place for each connection; what is known is of the present instance; nothing stays pending |
| Routing (RI 301-313, 417-520, 1299-1371, 1544-1558, 1730-1885) | the endpoint index, block lists, `parent_router` | stale indexes while endpoints move, loss of the parent | no duplicates, no endless circulation, indexes settle, messages arrive |
| Router workers (RI 281-292, 1720-1728, 1887-1913) | latches, locks, work units | units of several nodes between the locks | turns end; no unit runs while the main thread maintains the tables; what is known is what was told |
| Asio connections (AI 170-462, 557-1120; MI 185-375) | outgoing queue, one block in flight, countdown, incoming blocks; sockets, resolvers, acceptors | messages queued while a block is written, positions of packed messages, lost streams, aborted attempts | nothing is forgotten or handed over twice; order up to size; connectors get through |
| Direct connections, POSIX message queues | double buffers under a lock; queues of the operating system | swap of buffers against disconnection; full queues, lost requests | messages are kept, in their order; connectors are served |
| Bridges over streams and MQTT, MQTT connections | queues between threads, topics of a broker | lost wake-ups, lost clients | each message passes once and in order; all pass in the end |
| Blob transfer (BI) | `_outgoing` (todo parts), `_incoming` (done parts), target I/O | loss, reordering, repetition; time-outs on both sides | no part is forgotten, streams are whole, one delivery, everything ends |
| Resource transfer (SR, UR) | servers, requests, the source of each request | several servers, late answers, servers that vanish during a transfer | a bound request awaits a blob; streams end once and whole; requests end |
| Subscribers, actors, services | queues for each message type, allow and block lists | objects that share a queue, handlers that refuse, restarted processes | queues stay while they are used; handled once; what is wanted is handled |
| Invokers, skeletons, futures | promises by number, pending calls | several servers answer, calls with the same number, overdue calls | a call ends once, with its own result; overdue calls end |
| Tracker, remote nodes | nodes, instances, hosts | facts that arrive before what they refer to, ids that are used again | what is shown is of the process; what stays becomes known |
| Information services, pinger, shutdown, certificates, streams | queries and answers, pending pings, delays, keys, relays | late, lost, repeated messages; a relay or a certificate is replaced | answers arrive and mean what is documented; accounts add up; programs end in order |
| Sudoku solver and tiling | boards, helpers, solutions | late answers of helpers whose boards were queued again | no part of the search is lost; tiles fit; the plane becomes complete |
| Monitor (list and details) | a tree shown as rows, a selection | nodes that move while they are selected | rows, selection and details follow what is known |
| Loopback connections | | one queue of one thread | not modelled |

How they interact: a program owns an endpoint or a router; both own
connections, on which they call `send` and `fetch_messages` (contract:
`Channel`). An endpoint passes messages that are not its own handshake to
subscribers; blobs are cut into messages by the `blob_manipulator` of the
endpoint; resource transfer uses both subscriptions (to find servers) and
blobs (to move data); the services use subscriptions, calls and pings.
Routers are connected to each other by the same connections and treat each
other as nodes or as the parent.

`PROJECT.json` lists the components with their status and what is left out of
each, and under "hazards" the places where this code can go wrong in ways that
tests hardly reach, each with the properties that watch it or the reason why
none does.

## 2. Modules

| module | models | used by |
|---|---|---|
| `RouterTurns` | the id allocator, one step per loop iteration; the turns of a router with worker threads | `MCRouterTurns`, `RouterTurns_proofs` |
| `Handshake` | endpoints, one router, and connections that keep order but break and are made again | `MCHandshake`, `Handshake_proofs` |
| `RouterNodes` | the tables of one router in the order of `router::update` | `MCRouterNodes`, `RouterNodes_proofs` |
| `Routing` | a tree of routers with moving endpoints | `MCRouting`, `Routing_proofs` |
| `Channel` | abstract: what a connection promises | `AsioConnection` implements it (`AsioConnectionIsChannel`); `Connections_proofs` |
| `AsioConnection`, `AsioConnect` | what is sent over sockets; how connections over sockets come about | `MCAsioConnection`; `AsioConnection_proofs` |
| `DirectConnection`, `PosixMqueue`, `Bridge`, `MqttBridge`, `MqttConnection` | the other transports; `BridgeMessages` is what both bridges answer themselves | `MCTransports`; `Connections_proofs` for the first two |
| `Blobs` | sender, receivers and network of blob transfers | `MCBlobs`, `Transfers_proofs` |
| `Resources` | consumer and servers of a streamed resource, over `Blobs`: each content request is one blob | `MCResources`, `Transfers_proofs` |
| `Calls` | invokers, futures and the three kinds of skeletons | `MCServices` extends it; `Services_proofs` |
| `Streams`, `Certificates`, `Shutdown`, `Pinger` | services, and the main loops of programs | `MCServices` |
| `Subscriptions` | queues, subscribers, actors and what the router answers for them | `MCObservers` extends it; `Services_proofs` |
| `Infos`, `NodeList`, `Details` | information services; the list and the views of the monitor | `MCObservers` |
| `Tracker` | what is known of nodes, instances and hosts | `MCTracker`; `Services_proofs` |
| `Sudoku` | helpers, solver, and a plane of tiles | `MCSudoku` |

Five of the MC modules check several small systems in one run:
`MCRouterTurns`, `MCAsioConnection`, `MCTransports`, `MCServices` and
`MCObservers` have a variable `which` that a behaviour chooses at the start and
never changes. The systems do not interact and their variables are disjoint
(or shared by name only); the properties of such a run speak of each of them.

### RouterTurns
`nodes` is what `has_node_id` would answer, `seq` is `_id_sequence`. A call is
`Begin` followed by steps `WrapAround`, `TryNext`, `TakeId` of the `while`
loop. Nodes come and go only between calls, since the search runs on the
router's own thread, and with any id, because endpoints may be configured
with one. The second half of the module has the main thread, the workers, the latch that
counts the nodes, and a step for each part of a handler between two locks.
What nodes and the parent send is a *script* that a behaviour chooses at the
start: a sequence of messages for each link, in which a source numbers its
messages. `job` is what a thread is working on, `queue` the units that no
worker has taken; `link` has what is on the wire, received, queued and sent.
A connection that is made again for a node that is or was there is in
`RouterNodes` only; what comes from the parent is handled as the code does it:
a bye-bye is only logged, a `notARouter` goes on as a broadcast.

### Handshake
The two programs run beside each other, so an update is not one step.
`BeginUpdate(e, n)` is `endpoint::update` up to the point where `n` messages
have been fetched (an endpoint without id asks for one), `HandleFetched(e)`
handles one of them, `EndUpdate(e)` announces the id if there was none
before. `BeginPending(c, n)`, `HandleJob(c)` and `EndPending(c)` are the same
for `router_pending::update` followed by `_adopt_pending`; `job` is the
connection that the router is busy with. Between any two of these steps the
other side goes on, timers expire, and connections break. A connection is
`<<e, k>>`, the k-th of endpoint `e`; `Break` loses what is on the way
(messages that have reached the router's side can still be fetched),
`Reconnect` is the connector. Nonces are numbers; a new one differs from all
that are in flight. Certificates and signatures are left out.

### RouterNodes
`phase` and `left` tell where `router::update` is: pending connections
(fetched, adopted, kept or dropped one at a time), acceptors, time-outs,
disconnection, routing of the nodes in any order. The peers are as free as
the protocol lets them be: they open connections, announce themselves, speak
of themselves or - routers - of endpoints behind them, say bye-bye and hang
up between any two steps of the router. The timers (`TooOld`, `Outdated`,
`RecentExpires`) fire at any time. `told` is history: what each instance of
an endpoint ever subscribed to. `notARouter`, statistics and the block lists
are left out (the latter are in `Routing`).

### Routing
The three ways of a targeted message (index, direct node, flooding), the
broadcast, and the handlers of the special messages that change the index:
`stillAlive`, `byeBye`, `msgBlkList`, and `announceId`/`confirmId` between
routers. Links are queues. An endpoint may say bye or vanish, and attach to
any router; a router may lose its parent connection, with what was on it,
and announce itself again. Left out are the expiry of endpoint infos and a
connection that refuses a message (RI 401-415): both can only make a router go on
to the next of the three ways, in the end to flooding, instead of using its index.

### Channel and AsioConnection
`Channel` says: accepted messages are handed over at most once per
connection, and one message overtakes another only if it is smaller (packing
skips what does not fit). `AsioConnection` has the sender's queue, the block
in flight with the *positions* that `cleanup` will later remove, the
countdown that delays small blocks, the network, and the receiver's two
stages (`_packed`, the stored blocks, of which only the sequence of their
messages matters, and `_unpacked`). With one peer it is a stream that may be
lost and made again; with more it is the socket of a datagram acceptor.
`Room` is how much of a block is left after each message of the queue that was
tried; `PackInto` are the positions of those that fit there. When a stream is
lost, the blocks that arrived whole were received before (`HandleReceived`);
of the next one, which may still be written, the peer may get a part.
In `AsioConnect` the completion handlers are actions of their own: a connect
that was aborted completes after the next one was started.

### Blobs
Parts of a blob are sets of offsets; `Parts(S)` recovers the vectors of
`(begin, end)` pairs where their order matters: which fragment is sent
(`Back`), what of a fragment is stored (`Stores`), which gap is asked for
(`FirstGap`), how a stream is appended (`StoreFragment`). Fragments and
requests are sets, so they are reordered freely; a bounded number is lost.
Timers are *mature* when everything that could still prevent them is over
(the code's limits are 250 ms, 15 s and a minute or more, each far longer
than the one before); a scenario says how many may be *rushed*.

### Resources
One streamed request of `resource_data_consumer_node`: servers appear by
their subscription, leave, fall silent; the consumer searches, binds to the
first that answers, asks it for the content, is unbound when the server is
lost, and ends when the stream is done or cancelled. All content requests
write to the one stream, as in the code. Mail between consumer and server is
a set without order, because subscribers keep a queue per message type.

### Streams
Clients, which are providers at the same time, and relays. What waits for an
endpoint is one sequence, in the order of arrival; a turn takes any part of it
from the front (what has come until then) and `InTurn` gives the order in which
it is handled, type by type and newest first. So `Handle` and `Hear` are one
step for a whole turn. `crossed` is history: the streams whose last message was
handled in one turn with another one about the same identifier.

### The other modules
Each begins with a comment that names its sources, and each action with the
function that it translates. Their handlers run to the end in one step where
one thread owns all that they touch, and in several where a lock is released,
a library calls back, or another process can move in between.

## 3. What the runs check

Each run takes from a few seconds to about three minutes with two workers.

| run | instance | properties |
|---|---|---|
| `MCRouterTurns` | ids: three in the range, nodes up to 7, every start of the sequence; turns: three nodes, two workers, two scripts | `ZeroMeansExhausted`, `TurnsAreSound`, `FreeIdIsFound`, `TurnsEnd` |
| `MCHandshake` | one endpoint without id that may lose a connection and repeat early, one with a preconfigured id; with and without password | `NodeIdAgrees`, `NodesHaveTheirOwnConnection`, `NodesKnowThePassword`, `EventuallyRegistered` |
| `MCRouterNodes` | two instances of an endpoint that connect directly, or the first one behind a router | `OnePlace`, `InfoIsConsistent`, `SubscriptionsOfThisInstance`, `PendingSettles` |
| `MCAsioConnection` | messages: a stream lost once with four messages (one overtakes, one fits no block), a datagram socket with two peers and three; connecting: two connectors in three scenarios | `NothingIsForgotten`, `ConnectionsHaveOnePlace`, `MessagesArrive`, `IsChannel`, `ConnectorsGetThrough` |
| `MCRouting` | three routers in a chain, a poster and a mover, four budgets | `BroadcastOnce`, `TargetedOnce`, `NetworkSettles` |
| `MCBlobs` | a blob of five units; streamed, buffered, broadcast; up to two losses, one rushed time-out | `TransfersAreWhole`, `DeliveredOnce`, `TransfersEnd` |
| `MCResources` | two servers, two units; a lost message, a server that cannot open, one silence, one departure | `RequestKeepsItsServer`, `RequestEnds` |
| `MCTransports` | direct connections, message queues, bridges, MQTT bridges, MQTT connections; two or three ends, up to three messages | `TransportsKeepMessages`, `ConnectorsAreServed`, `BridgesDeliver` |
| `MCTracker` | a router and an endpoint whose id is used by two processes, three events | `ShownIsOfProcess`, `NodesBecomeKnown` |
| `MCServices` | calls, streams, certificates, shutdown, pinger | `CallEndsOnce`, `ResultIsOfItsCall`, `OverdueAreEnded`, `ServicesKeepOrder`, `ServicesSettle` |
| `MCObservers` | subscriptions, information services, the list and the views of the monitor | `HandledOnce`, `ReportsAreTrue`, `ObserversSeeWhatIs` |
| `MCSudoku` | two tiles, two helpers, two faults | `PlaneIsRight`, `Completes` |

All of them hold. `CHECK_DEADLOCK FALSE` is set where the modelled system may
come to rest: connections, budgets and messages are finite in the instances.

### Where the code departs from what is said of it

These behaviours are in the models; the properties are stated around them, and
`PROJECT.json` quotes the lines under "findings".

* An endpoint with a preconfigured id cannot join a router that requires a
  password: it answers `reqRutrPwd` only after `confirmId` (EI 161-162), and
  the router sends `confirmId` only after the password (RI 127-130). The
  diagram `endpoint_announce_id.puml` shows the opposite order.
  `EventuallyRegistered` speaks of endpoints that can answer (`CanAnswer`).
* An endpoint announces its id only in an update that began without one
  (EI 646) and never clears it. When its connector makes a lost connection
  again, the router's new pending connection never learns the id.
  `EventuallyRegistered` excludes it by `lost`.
* The bye-bye flag of a node (RI 367-372) survives the adoption of a new
  connection with the same id (RI 315-320); the next maintenance removes the
  connection that was just made.
* When the server of a stream is lost, the next one is given the same target
  I/O object (UR 374-379) while the old transfer may go on; fragments below
  the appended end are kept for ever (BI 165), block those behind them, and the
  stream is reported as finished. `UndisturbedStream` ends where the server of
  the request is lost.
* A relay of streams handles the announcements of a turn before its
  retractions, the newest first (`stream.cpp` 523-528, `subscriber.cpp`
  287-296), and a provider gives the identifier of a removed stream to the next
  one (`stream.cpp` 207-217). An announcement, a retraction and another
  announcement that arrive in one turn leave the relay without the stream, two
  announcements of one identifier leave it with the older one, and the provider
  says nothing more while it keeps the relay.

### Conditions in the properties, and why they are there

* `InfosAreExact`, a part of `TurnsAreSound`, ends where a reference to an endpoint info was used after the
  table had moved (`stale`; RI 1279): the outcome is then undefined.
* `TargetedOnce` has three conditions, and without any of them TLC (or, for
  the last two, TLC on larger instances) shows the duplicate.
  - No endpoint says bye-bye. One that arrives from the parent is only logged
    (RI 504-514), so routers below keep a stale index and a targeted message
    may be delivered on two ways.
  - The target blocks nothing. Its router then floods the message (the node is
    skipped by index and directly, RI 1745-1770), the neighbours send it back
    by their index, and with two neighbours or more the copies multiply until
    the hop limit; a target that comes back elsewhere meanwhile gets several.
  - The target has been at two routers at most. With three places, two
    `stillAlive` that cross can leave two routers that point at each other; a
    copy circles between them until a later `stillAlive` leads it out.
* `NetworkSettles` relies on the hop limit: a targeted message whose receiver
  blocks it travels to and fro until `MaxHops` (64 in the code, 5 in the
  instance). Its last part, `Arrives`, speaks of messages that are posted when
  the ways are known and that nothing disturbs (`calm`).
* `MessagesArrive` is stated for streams. A datagram socket packs the queue of
  another peer each time, and the countdown goes down only when two packs hold
  equally many messages (AI 342): with two peers and queues of one and two
  messages neither is sent until one of the queues changes.
* `DeliveredOnce` and the first part of `TransfersEnd` are stated for calm
  scenarios. A late duplicate of a fragment starts a complete blob anew, and
  when all first fragments are lost the receiver knows of nothing to ask for.
* The second part of `TransfersEnd` holds for broadcasts because the sender has
  a `max_time`: what it sends again for one target makes the others start anew
  and ask again.
* `StreamIsWhole` (in `TransfersAreWhole`) needs fragments of one size, as a
  sender makes them while its connection does not change. With two sizes a
  fragment may span what is done already, and a piece of it is stored again
  (cf. the `assert` at BI 170); the scenario with two sizes therefore delivers
  into a buffer.
* `RequestEnds` holds for resources that a server has and offers all the time:
  a request that nobody can serve is searched for ever (the maximum time of
  the request is given to the blob only), and a server that was lost by a ping
  time-out does not appear again (`known` still has it).
* `RelayKnowsStreams` (in `ServicesKeepOrder`) and the part of `ServicesSettle`
  about streams leave out a stream whose last message the relay handled in one
  turn with another one about the same identifier (`crossed`): see above.
  Without this TLC finds both of the cases; with it every change of the
  relay, every removal and every re-use of an identifier is still covered, if
  the relay handles the messages about the identifier in turns of their own.
* `ShownIsOfProcess` excuses lost announcements and bye-byes that overtake
  them, `Completes` answers of helpers that were lost: nothing repeats those.

### Bounds, and why they are enough

* `MaxId`: three ids in the range, three past it: the sequence may start, stop
  and wrap at every position relative to the range, and beyond it.
* `MaxConns`, `MaxEarly` (of both sides together): a second connection and one
  early repetition are what it takes for an answer to be late; a third repeats
  the situation. The theorems hold for every bound.
* `MaxInbox = 1` in `RouterNodes`: messages that wait behind each other are
  sent one after the other between the steps of the router, and the pending
  connection takes handshake messages out of their order in any case; the
  theorems hold for every bound.
* `Routing`: a chain of three has a router with both a parent and a child;
  the endpoint moves from one to any of the others. `Budgets` combine posts
  with moves, losses of the parent, or block lists, rather than all of them.
* `AsioConnection`: blocks of three units and messages of one, two and four
  give full blocks, overtaking, and one that never fits.
* `Blobs`: five units and fragments of two (and three) leave an odd last
  fragment, a gap before, between and behind received parts, and a request
  (`Ask = 3`) that covers one and a half fragments. `Copies` bounds how many
  equal fragments are on the way.
* `Resources`: two servers are what it takes to replace one; two units make a
  first and a last fragment.
* `MCTransports`: capacities of one make a queue full at once; two bridges and
  three clients are what there are roles for.
* `MCServices`: two clients whose calls have equal numbers, two servers, one
  fault; two relays of which one stays; two endpoints with one id; two requests
  to shut down. A provider of streams gives two descriptions, and `MaxTroubles`
  lets one stream be removed or one notification of a live relay be late:
  enough to give an identifier twice, to leave a relay and to come back to it.
  `MaxHeard` and `MaxPosted` bound what may wait when a client asks for relays or
  hears of one; the two announcements of the streams it has come on top.
* `MCObservers`: `Budgets` combine restarts, posts, queries, refusals and
  removed objects (the second program of the service has two objects that share
  a type, so that one can go and the other is asked about it); in
  the information services either what is told changes or nodes tell something
  unasked, not both (`ToldOrChanged`).
* `MCTracker`: three of starts, leaves, crashes, losses, slow pings and
  silences in each behaviour; `PingStates`: the code remembers the outcomes of
  eight pings, the run that of one (the proof allows any number), which is
  enough to be responsive or not. `MCSudoku`: any two faults.

### Fairness, and why the code justifies it

* `Handshake`: both programs call `update` in a loop, timers expire,
  connectors try again. The router comes to each of its connections although
  it is busy with others in between: strong fairness of `BeginPending` and
  `HandleNode`. Nothing makes connections break or early time-outs happen.
* `RouterNodes`: the phases of `update` follow each other; the main thread
  reaches the next update again and again although rounds of routing may be
  repeated (strong fairness of `NextUpdate`), and each round fetches from each
  node (strong fairness of `RouteMessage`). `RouterTurns`: each thread goes on.
* `AsioConnection`, `AsioConnect`: `update` and `fetch_messages` are called in a
  loop, the operating system completes reads and writes while there is a
  connection, connectors try again. The peer need not take messages (`Adopt`
  is not fair).
* `Routing`: endpoints repeat `stillAlive`, routers fetch from every
  connection and keep the parent connection.
* `Blobs` and `Resources`: both sides are polled, what was sent arrives or is
  lost; mature timers fire; servers answer the search for subscribers. Nobody
  is obliged to push a blob, to leave, to come back or to rush.
* `Tracker`, `Sudoku`: the turns of the main loop are weakly fair; this is
  written as `[]<>Quiet \/ []<><<Turn>>_vars`, with a condition that holds when a
  turn would change nothing, since the turn is too large for ENABLED.
* `MCServices`: a behaviour is of one system, so a fair step of one and a fair
  step of another share a condition; `moving` is the state of the one that runs.

## 4. What is proved

All theorems hold for every value of the constants that satisfies the named
assumption of the module, and are checked by TLAPS; the inductive invariants
were first checked by TLC on the instances above.

* `RouterTurns_proofs`, of the id allocator - `IInv`: the running search has passed only ids that are in
  use, either from where it began up to where it is, or from there to the end
  of the range and from the start of the range up to where it is.
  `ZeroMeansExhausted` alone is not inductive: it says nothing while the loop
  runs. Theorems `AllocatorInvariant`, `ExhaustionIsReal`, `AllocatorTypeOK`.
* `RouterTurns_proofs`, of the turns - `TurnsIInv`, for any number of
  workers and nodes and any scripts (`WorkersAssumption`: a source numbers its
  messages, and the messages of a node's own id come over its own link only).
  `TurnsAreSound` says that nothing runs during the maintenance, that what a
  node has sent is passed on in its order, and that the infos are those of the
  messages that were handled. None of it is inductive. Whether the main thread
  may go on is decided by the latch, so `LatchCounts` must relate it to the
  units that are queued or running, which a set can count only because there is
  one unit for each node at most (`UnitsAreApart`); that every node has a
  connection between two maintenances is needed because a node without one gets
  no unit and would be counted all the same. Since the messages of a node are
  with one unit at a time, what was not routed yet is the end of its script
  (`ScriptsAreFollowed`: batch, then what was received, then the wire), what
  any link has is in order and comes before it (`OrderIsKept`), and the infos
  follow the handled prefix of the script (`InfosFollow`), where the message that
  is being sent on is handled already (`Handled`). A worker may do this for one
  node between any two steps of a worker on another, so each lemma of a step has
  a part that says that it leaves the jobs and links of the other nodes
  alone. Theorems `TurnsInvariant`, `TurnsAreSoundAlways`.
* `Handshake_proofs` - `HandshakeInv`. `NodeIdAgrees` compares a node with the
  endpoint at the other end of a connection, so what matters is what can be on
  that connection: *everything on its way is true* (`MessagesAreTrue`), also
  what was fetched and is not handled yet. Only endpoints without an id of
  their own ask for one; announcements and confirmations name the id that the
  endpoint has or was configured with (`IsIdOf`); only who knows the password
  encrypts it. Then what the router remembers of a connection is true
  (`RouterIsRight`), hence the id under which it becomes a node. That a node
  has a connection of its own needs to know where connections can be
  (`PlacesAreRight`): those of the future are nowhere, the one that the router
  is busy with is pending. Since an id is only set once, and to what
  `IsIdOf` allows, no later step makes a true message false. Theorems
  `HandshakeInvariantHolds`, `NodeIdsAgree`, `ConnectionsAreOwned`,
  `PasswordIsKnown`.
* `RouterNodes_proofs` - `IInv` in three layers, each proved from those before
  it. *Places*: connections the peer has not opened are nowhere, what is left
  of the pending phase is pending, and each connection has one place
  (`OnePlace` needs both: an adoption moves what `left` names). *Identities*:
  everything in an inbox is true - the announced id is the peer's, a
  subscription was really made by that instance - so the id of a pending
  connection is its peer's, so a node is its peer. *Infos*: the index,
  instance ids and subscription lists agree, and the subscriptions are of the
  present instance, which needs the truth of the inboxes. Theorems
  `NodeTableInvariant`, `NodeTableTypeOK`, `EachConnectionHasOnePlace`,
  `NodesAreTheirPeers`, `EndpointInfoIsConsistent`, `InstancesAreKeptApart`.
* `Routing_proofs` - `IInv`, for any number of routers that form a forest
  (`TreeAssumption`: no router is above itself; the parents are configured, and
  a circle of them is not a network the code is made for). That a broadcast
  reaches nobody twice is about where its copies are: there is a set of routers
  that have had it, from which all copies lead away (`SpreadsFrom`): one at
  most goes up, and only from where everybody who had it is below; the others
  go down to where nobody has had it. The step that needs work is the loss and
  return of a parent: a router gets nothing from its parent before the
  confirmation of its id, over a connection whose queue begins with it
  (`ConfirmationFirst`), so no copy overtakes it. Theorems `InvariantHolds`,
  `BroadcastsComeOnce`, `ConfirmationComesFirst`.

  For `TargetedOnce` the invariant is `Sane` and `TargetedApart`. A link between
  routers splits the tree: ahead of it is what its receiver can reach without
  going back (`Ahead`). Of an endpoint `e` it must be known that an index leads
  to a side where `e` is or was, and that where a router has no index nothing
  that `e` said has passed, so nothing beyond it has come from behind
  (`KnowsTheWay`). A copy is *onward* if nothing it meets, in indices or in
  announcements that are ahead of it in the queues, sends it back (`Onwards`).
  Then (`Apart`): a copy with no place of `e` ahead of it is onward and dies out
  at the leaves; if there are several copies with a place ahead, each of them is
  onward and no two have the same place ahead; once `e` has got the message none
  is heading for where `e` is. A single copy may travel to and fro between two
  places, which is why three are too many. The lemmas follow the steps: an
  announcement that is taken and sent on (`AlivePassed`), a copy that is sent on
  by index, delivered or flooded (`DataPassed`, `DataFetched`), a message that
  is posted (`PostedFor`), `e` that comes back at another router
  (`AttachedFor`); queues of which something is lost (`StillFor`, from `Kept`: what
  is left of a queue that matters to `e` is in the old order). Theorems
  `TargetedStaysApart`, `TargetedComesOnce`.
* `Transfers_proofs` - `IInv`, for blobs and fragments of any size, any number of
  targets, losses and rushed time-outs. The lemmas on parts (`Parts`, `Back`,
  `FirstGap`, `Stores`) say that the vectors of pairs and the sets they cover
  agree. `NothingIsForgotten` is inductive with the types. `StreamIsWhole` is
  not: a fragment must be either new or stored already as a whole, which holds
  when all fragments are blocks of one size (`BlocksAreWhole`), and nobody else
  may write to the stream (`OneUser`; `SinksAssumption`: an expected blob is
  given a target of its own). `DeliveredOnce` rests on `RoundsToOne`: to one
  target a blob goes gap by gap, a request is made when nothing is under way,
  and after the delivery nothing is left that could start it again. Theorems
  `InvariantHolds`, `TransfersStayWhole`, `DeliveredAtMostOnce`.
  In the same module `ResourcesInv`, from the lemmas on blobs, for any number of
  servers. Here `SinksAssumption` says nothing: all blobs of a request
  share the stream. As long as the request has not lost a server it has asked
  once (`OneRequest`), so that one blob has the stream for itself. Theorems
  `ResourcesInvariantHolds`, `RequestsKeepTheirServers`.
* `Services_proofs`, of `Calls` - `IInv`: a future that is still there is in the table of
  promises and has not ended (`KeptAreAwaited`), and an answer on its way holds
  the result of the call that it will be taken for (`AnswersAreTrue`), which is
  what must be known where calls of two clients have the same number. Theorems
  `InvariantHolds`, `CallsEndOnce`, `ResultsAreOfTheirCalls`, and for the action
  property `OverdueCallsAreEnded`.
* `Services_proofs`, of `Subscriptions` - `SubsIInv`, for any number of endpoints,
  programs, types, priorities and messages. What an observer hears may come
  from a process, or from the router long after the process is gone, so
  `ReportsAreTrue` is about what messages *say*: each message on its way, or
  waiting in a queue, names a process that was started and says of it what is
  true and stays true (`Genuine`): what it subscribes to its program handles,
  and what is retracted it does not handle any more (`StillHandles`), which only
  its end or the removal of an object brings about. What the router knows and
  the observer has heard is made of such messages (`KnowledgeIsGenuine`). Since
  the lives of processes only go on (`Onward`: a start has a new number, so that
  no instance comes back), nothing that was true becomes false. `HandledOnce`
  needs to know where data can be: the numbers that are posted, on the way to an
  endpoint, in its queues and handled by it are apart, and each is there once
  (`DataIsSingle`). Queues are filled by priority and emptied in parts when
  handlers refuse; the lemmas `PushNumbers`, `KeptAndDone`, `OtherQueue` and
  `StoreFacts` say what becomes of the numbers. What the model computes step by
  step along a sequence is a recursive function; `StepByStep` proves that there is
  one, by taking the smallest number without it, and the lemmas from
  `PickedStays` to `FlattenStays` say what it keeps if its steps keep it. Theorems
  `SubsInvariant`, `HandledOnceAlways`, `ReportsAreTrueAlways`.
* `Services_proofs`, of `Tracker` - `TrackerIInv`, for any nodes, routers, links,
  hosts and things to know, any number of starts and faults, and any order in which
  the messages of several nodes can have come. `ShownIsOfProcess` has two parts,
  and neither is inductive. That no instance comes back after its bye-bye is
  about the handling by types, last message first: a bye-bye may be handled after
  an announcement that came before it and before one that the next process sends,
  so it must be the last word of its process (`NodeInv`: who says it is down, and
  nothing of a process is on the wire after its bye-bye was handled). That what is
  shown of a node was told by the instance shown needs that an answer
  never comes while another instance is still shown: what an endpoint tells
  comes with its announcement, which is handled before it, or after it
  (`AnnouncedOrShown`), and the rest of the tables must be sound as well
  (`IsSound`), since what a node tells is kept with its instance and its host. The
  proof follows a turn: what handlers of one kind may change
  (`HandleAnnouncing` and the lemmas after it), one queue of one node, of all
  nodes, then the queues in their order, the announcing ones first; each of these
  is a recursive function along a sequence and is proved with `StepsWithin`, from `StepByStep`.
  Theorems `TrackerInvariant`, `ShownIsOfProcessAlways`.
* `Connections_proofs`, of `Channel` - `IInv`: what waits and what was handed over are disjoint,
  and what has overtaken a waiting message is smaller than it (the clause that
  makes `OvertakenBySmaller` inductive). Theorems `ChannelInvariant`,
  `ChannelHandsOverOnce`, `ChannelKeepsTheOrder`. By the next theorems they hold
  of the modelled stream connections.
* `Connections_proofs`, of `DirectConnection` - `IInv`, for any messages and bounds.
  What was handled, the current buffer and the next one are one line (`Line`):
  it holds what the other end sent, each message once, and after leaving out what
  a handler has refused it is in the order of sending; outside of a fetch only
  refused messages are left in the current buffer (`KeptFor`), without which a
  swap would bring old messages behind new ones. For the last words: once the
  client has gone and a fetch has begun, only refused messages are in the next
  buffer, unless it went during that very fetch (`GoneIsFound`). `Only` is a
  recursive function; `OnlyFacts`, `OnlyOfConcat` and `OnlyOfOnly` say that
  it keeps the order, goes along concatenation and may be applied in any order.
  A direct connection does not implement `Channel`: a refused message is overtaken
  by a message of any size. Theorems `DirectInvariant`, `DirectKeepsAllAlways`,
  `LastWordsAreHeardAlways`.
* `Connections_proofs`, of `PosixMqueue` - `IInv`, for any connectors, messages,
  priorities, capacity and restarts. `MqueueOrder` is about what was received
  and says nothing about where the wrong order comes from. What an end still has to
  write, first what was refused in this turn and then the rest, is in the order of
  sending; a message that is in the queue behind one that was sent later has
  met a full queue, and so has one that is still to be written when a later one
  is in the queue already (`InOrder`). On the way out of the queue, the system's choice
  of the highest priority, the oldest first (`NextIsHighest`), is the only other
  reason. That no message is in two places (`MqueueForgetsNothing`) is true
  only until the acceptor's process ends for the first time, but the order holds
  through restarts, which take messages out of the places and put none in.
  Theorems `QueueInvariant`, `MqueueForgetsNothingAlways`, `MqueueOrderAlways`.
* `AsioConnection_proofs` - `IInv`, for any messages, blocks, peers and losses.
  `Picked` and `Room` are recursive functions of the queue; the lemmas
  `PickedFacts`, `PickedBefore` and `PackIntoFacts` say what is needed of them: what
  is picked is in the order of the queue, a picked and a left part make up the
  whole, an append does not disturb it, and a message that is passed over by a
  later one is larger than that one. `NothingIsForgotten` is not inductive: it
  allows a queued message to be removed by any clean-up. Hence
  `InFlightIsQueued` (the remembered positions still hold what is in the
  buffer), `Transmitted` (what is in the buffer has left for the peer before the
  clean-up) and `Kept` (what is neither queued nor lost has reached the peer's
  side). `Counting` is needed because a completed write forces the next pack even
  if nothing is queued: no empty block is sent, since the countdown was set anew
  with the block before. For the refinement `StreamInv` follows the stream as one
  line, from what was handled over what is unpacked, received and in the network
  to the queue: each message occurs on it once, but for those of the block that
  was written and is not cleaned up yet, and one that is behind another was sent
  later or is larger. What was handled is the channel's `got`, what is on the
  line and was not handled its `todo`. `Send` maps to `Accept`, `FetchMessages` to
  `Fetch` if the peer takes the messages, `LoseConnection` to `Break`, and so
  does `HandleSent`, which may clean up what went down with the connection;
  `Reconnect` maps to `Reconnect`, everything else to a stutter. Theorems `AsioTypeOK`,
  `AsioInFlightIsQueued`, `AsioForgetsNothing`, `AsioConnectionIsChannel`.
  In the same module, of `AsioConnect` - `ConnectIInv`, for any scenario
  (`ConnectAssumption`: each connector has a kind and an address). That a
  connection is in one place needs that the places are apart and that a number
  above `made` is nowhere (`PlacesAreApart`), since a connector puts the next
  number into the backlog; and that the attempt is what the connector believes
  it is (`AttemptsAreSound`): a datagram connector never connects and a path is
  never resolved, so nothing is made that the acceptor does not see, and an
  aborted handler that is still to run belongs to a connecting. Theorems
  `ConnectInvariant`, `EachConnectionIsInOnePlace`.

Assumptions on constants are named, and TLC evaluates them in the runs. Apart
from types they are: `IdEnd` leaves room for an id, routers form a forest, an
expected blob has its own target, and marks such as `None` are no values.

Only model-checked, and why:

* all liveness properties and what depends on ENABLED: beyond the prover;
* `TransportsKeepMessages` of the two bridges, and the properties of `MCSudoku`,
  of the smaller systems of `MCServices`, and `ObserversSeeWhatIs`: many of the
  definitions fold over sequences and functions (`FoldLeft`, `SelectSeq`, `:>`
  and `@@`), which the provers do not reason about.

## 5. What is not modelled

* Cryptography, addresses, configuration, serialization: external libraries or
  pure computation. `Certificates` and `Shutdown` model what is kept and
  verified, not how.
* Statistics, logging, the text form of messages.
* In `RouterNodes`: `notARouter`, the block lists (they are in `Routing`), and
  worker threads (in `RouterTurns`).
* Blobs in a router, the preparation of a source, targets that are buffers or
  chunks, the limits of the handlers.
* Embedded resources, several requests for one locator, cancelling of a
  stream, host names in locators, the resets in `_handle_missing` that need a
  server whose resources change.
* The end of a bridge's process about a second after its bye-bye
  (`bridge::finish`): in `Bridge` its update goes on, so what is lost because
  the process ends is not seen.
* Loopback connections; streams beyond the choice of relays, which is as far
  as the source is finished; drawing in the monitor.

## 6. Plan

1. Identity and node table, transport, routing, transfer (done, with proofs).
2. Workers, the other transports, subscriptions, calls, tracker, information
   services, sudoku, programs (done; `Calls`, `Subscriptions` and `Tracker` with proofs).
3. Proofs of `AsioConnection`: `NothingIsForgotten`, and that its steps map to
   steps of `Channel` (done).
4. Proof of `TargetedOnce`: an invariant that relates the index of a router to
   the queues on the way to where it leads (done).
5. Proof of `TurnsAreSound`: the latch counts the units that are queued or
   running, and the infos follow the scripts (done).
6. Proofs of `DirectConnection` and `PosixMqueue`: the buffers and the queue as
   one line of messages (done).
7. Open: the bridges and streams, whose proofs need lemmas on folds.

## 7. Running it

    tlc -workers 2 -config MCBlobs.cfg MCBlobs.tla
    tlapm Transfers_proofs.tla

Every run is listed in `PROJECT.json` with its module and its configuration;
under "mutants" it names, for each checked property, a plausible bug of a
definition (`of` replaced by `as`) that makes TLC report the property as
violated. The mutant operators stand beside the definitions they change.
