----------------------------- MODULE MCTransports -----------------------------
(***************************************************************************)
(* The connections that are not made with sockets, and the bridges, each   *)
(* on an instance of its own: a behaviour chooses one of them and keeps to *)
(* it. The variables of the others are not used; two systems may use a     *)
(* variable of the same name.                                              *)
(***************************************************************************)
EXTENDS Naturals, Sequences, FiniteSets

VARIABLES
    which,
    accept, accepted, asked, broker, budget, buffers, bus, client, conn, connect,
    connected, data, due, fails, fetching, gen, gone, got, handled, heard, id,
    incoming, kept, late, left, linked, log, made, named, offered, old, outgoing, pc,
    pipe, queue, received, refused, requests, retried, scenario, script, sending,
    sent, served, stored, there, unheard, updating, usable, writer

directVars == <<buffers, accepted, connected, there, usable, fetching, sent, got, refused, late>>
mqueueVars ==
    <<gen, named, accept, stored, requests, due, connect, data, linked, gone, log, outgoing,
      kept, sending, queue, incoming, got, retried, unheard, served, fails, budget>>
bridgeVars ==
    <<scenario, offered, bus, conn, id, due, asked, made, pc, outgoing, writer, pipe,
      incoming, old, left>>
mqttBridgeVars ==
    <<scenario, offered, bus, conn, id, asked, client, pc, received, broker, gone, fails>>
mqttVars == <<script, id, usable, updating, sent, received, heard, broker, handled, due>>

noDirect == <<buffers, accepted, connected, there, fetching, refused, late>>
noMqueue ==
    <<gen, named, accept, stored, requests, connect, data, linked, log, kept, sending,
      queue, retried, unheard, served, budget>>
noBridge == <<made, writer, pipe, old, left>>
noMqtt == <<script, updating, heard, handled>>

all == <<which, directVars, mqueueVars, bridgeVars, mqttBridgeVars, mqttVars>>

D == INSTANCE DirectConnection WITH Msgs <- 1 .. 3, MaxSent <- 2, MaxRefused <- 1

(* Messages of different priorities in a queue for one; and two connectors *)
(* with an acceptor that is restarted, or cannot create its queue.         *)
Q == INSTANCE PosixMqueue WITH
        Connectors <- {1, 2},
        Msgs <- {1, 2, 3},
        Owner <- [m \in {1, 2, 3} |-> <<1, "connector">>],
        Priority <- <<2, 2, 3>>,
        Capacity <- 1,
        Budgets <-
          {[connectors |-> {1}, msgs |-> {1, 2, 3}, restarts |-> 0, fails |-> 0],
           [connectors |-> {1, 2}, msgs |-> {}, restarts |-> 1, fails |-> 1]}

M == INSTANCE BridgeMessages

BridgeScenario(first, second, joined, leaving, aged) ==
    [offered |-> <<first, second>>, joined |-> joined, leaving |-> leaving, old |-> aged]

B == INSTANCE Bridge WITH
        MaxAsked <- 2,
        Scenarios <-
          {BridgeScenario(<<M!Message("topoQuery", 1, 1, 0), M!Message("data", 2, 1, 0)>>,
                          <<>>, {1, 2}, {}, 0),
           BridgeScenario(<<M!Message("data", 1, 1, 0), M!Message("data", 2, 1, 0)>>,
                          <<>>, {1, 2}, {}, 1),
           BridgeScenario(<<>>, <<M!Message("ping", 2, 2, 1), M!Message("statsQuery", 1, 2, 0)>>,
                          {1, 2}, {}, 0),
           BridgeScenario(<<M!Message("ping", 1, 1, 1)>>, <<M!Message("data", 2, 2, 0)>>,
                          {2}, {1}, 0)}

MqttScenario(first, second, joined, lost) ==
    [offered |-> <<first, second>>, joined |-> joined, lost |-> lost]

MB == INSTANCE MqttBridge WITH
        Bridges <- {1, 2},
        SameEnding <- {<<1, 1>>, <<2, 2>>},
        MaxFails <- 1,
        Scenarios <-
          {MqttScenario(<<M!Message("topoQuery", 1, 1, 0), M!Message("data", 2, 1, 0)>>,
                        <<M!Message("data", 3, 2, 0)>>, {1}, {}),
           MqttScenario(<<M!Message("data", 1, 1, 0), M!Message("data", 2, 1, 0)>>,
                        <<>>, {1, 2}, {1, 2})}

Op(op) == [op |-> op, type |-> "x", to |-> 0]
Join == <<Op("id"), Op("subscribTo")>>
To(d) == [Op("send") EXCEPT !.to = d]

MC == INSTANCE MqttConnection WITH
        Clients <- {1, 2, 3},
        Everybody <- 0,
        MqttScripts <-
          {[todo |-> <<Join \o <<To(0), To(2), Op("byeByeEndp")>>, Join,
                       Join \o <<Op("unsubFrom")>>>>, lost |-> {}],
           [todo |-> <<Join \o <<To(0), To(2), Op("cleanup")>>, Join \o <<To(1)>>, <<>>>>,
            lost |-> {1, 2}]}

ASSUME Q!PosixMqueueAssumption /\ B!BridgeAssumption /\ MB!MqttBridgeAssumption

NoDirect ==
    /\ buffers = 0 /\ accepted = 0 /\ connected = 0 /\ there = 0 /\ fetching = 0
    /\ refused = 0 /\ late = 0
NoMqueue ==
    /\ gen = 0 /\ named = 0 /\ accept = 0 /\ stored = 0 /\ requests = 0 /\ connect = 0
    /\ data = 0 /\ linked = 0 /\ log = 0 /\ kept = 0 /\ sending = 0 /\ queue = 0
    /\ retried = 0 /\ unheard = 0 /\ served = 0 /\ budget = 0
NoBridge ==
    /\ made = 0 /\ writer = 0 /\ pipe = 0 /\ old = 0 /\ left = 0
NoMqtt ==
    /\ script = 0 /\ updating = 0 /\ heard = 0 /\ handled = 0

Init ==
    \/ /\ which = "direct" /\ D!Init
       /\ NoMqueue /\ NoBridge /\ NoMqtt
       /\ due = 0 /\ gone = 0 /\ outgoing = 0 /\ incoming = 0 /\ fails = 0 /\ scenario = 0
       /\ offered = 0 /\ bus = 0 /\ conn = 0 /\ id = 0 /\ asked = 0 /\ pc = 0 /\ client = 0
       /\ received = 0 /\ broker = 0
    \/ /\ which = "mqueue" /\ Q!Init
       /\ NoDirect /\ NoBridge /\ NoMqtt
       /\ usable = 0 /\ sent = 0 /\ scenario = 0 /\ offered = 0 /\ bus = 0 /\ conn = 0
       /\ id = 0 /\ asked = 0 /\ pc = 0 /\ client = 0 /\ received = 0 /\ broker = 0
    \/ /\ which = "bridge" /\ B!Init
       /\ NoDirect /\ NoMqueue /\ NoMqtt
       /\ usable = 0 /\ sent = 0 /\ got = 0 /\ gone = 0 /\ fails = 0 /\ client = 0
       /\ received = 0 /\ broker = 0
    \/ /\ which = "mqtt bridge" /\ MB!Init
       /\ NoDirect /\ NoMqueue /\ NoBridge /\ NoMqtt
       /\ usable = 0 /\ sent = 0 /\ got = 0 /\ due = 0 /\ outgoing = 0 /\ incoming = 0
    \/ /\ which = "mqtt" /\ MC!Init
       /\ NoDirect /\ NoMqueue /\ NoBridge
       /\ got = 0 /\ gone = 0 /\ outgoing = 0 /\ incoming = 0 /\ fails = 0 /\ scenario = 0
       /\ offered = 0 /\ bus = 0 /\ conn = 0 /\ asked = 0 /\ pc = 0 /\ client = 0

Next ==
    \/ /\ which = "direct" /\ D!Next
       /\ UNCHANGED <<which, noMqueue, noBridge, noMqtt, due, gone, outgoing, incoming, fails,
                      scenario, offered, bus, conn, id, asked, pc, client, received, broker>>
    \/ /\ which = "mqueue" /\ Q!Next
       /\ UNCHANGED <<which, noDirect, noBridge, noMqtt, usable, sent, scenario, offered, bus,
                      conn, id, asked, pc, client, received, broker>>
    \/ /\ which = "bridge" /\ B!Next
       /\ UNCHANGED <<which, noDirect, noMqueue, noMqtt, usable, sent, got, gone, fails,
                      client, received, broker>>
    \/ /\ which = "mqtt bridge" /\ MB!Next
       /\ UNCHANGED <<which, noDirect, noMqueue, noBridge, noMqtt, usable, sent, got, due,
                      outgoing, incoming>>
    \/ /\ which = "mqtt" /\ MC!Next
       /\ UNCHANGED <<which, noDirect, noMqueue, noBridge, got, gone, outgoing, incoming, fails,
                      scenario, offered, bus, conn, asked, pc, client>>

(* The fairness of the system that runs.                                   *)
Fairness ==
    /\ \A x \in {0, 1, 2} : WF_mqueueVars(which = "mqueue" /\ Q!Expire(x))
    /\ WF_mqueueVars(which = "mqueue" /\ Q!AcceptorCheckup)
    /\ WF_mqueueVars(which = "mqueue" /\ Q!AcceptorReceive)
    /\ WF_mqueueVars(which = "mqueue" /\ Q!ProcessAccepted)
    /\ \A c \in {1, 2} : /\ WF_mqueueVars(which = "mqueue" /\ Q!OpenConnectQueue(c))
                         /\ WF_mqueueVars(which = "mqueue" /\ Q!Reconnect(c))
    /\ \A s \in {1, 2} : /\ WF_bridgeVars(which = "bridge" /\ B!Assign(s))
                         /\ WF_bridgeVars(which = "bridge" /\ B!Forward(s))
                         /\ WF_bridgeVars(which = "bridge" /\ B!Update(s))
                         /\ WF_bridgeVars(which = "bridge" /\ B!SendOutput(s))
                         /\ WF_bridgeVars(which = "bridge" /\ B!RecvInput(s))

Spec == Init /\ [][Next]_all /\ Fairness

(* A direct connection keeps every message, and is found dead only after   *)
(* all that was sent by then (direct.cpp, fetch_messages).  A message      *)
(* queue keeps every message and its priority, however often it is full    *)
(* (posix_mqueue_impl.cpp, _send).  Two bridges, over a stream or a        *)
(* broker, pass each message to the other bus once and in order, whatever  *)
(* becomes of their clients (bridge_impl.cpp, mqtt_bridge_impl.cpp,        *)
(* _forward_messages).  What is sent over a broker reaches once those who  *)
(* subscribed to it, and nobody else (paho_mqtt_impl.cpp,                  *)
(* _message_arrived).                                                      *)
TransportsKeepMessages ==
    CASE which = "direct" -> D!BuffersKeepAll /\ D!LastWordsAreHeard
      [] which = "mqueue" -> Q!MqueueForgetsNothing /\ Q!MqueueOrder
      [] which = "bridge" -> B!BridgesPassMessages
      [] which = "mqtt bridge" -> MB!MqttBridgesPassMessages
      [] which = "mqtt" -> MC!MqttReaches

(* Every connector of a message queue is served in the end, unless its     *)
(* request was lost (posix_mqueue_impl.cpp, _reconnect).                   *)
ConnectorsAreServed ==
    \A c \in {1, 2} : <>(which = "mqueue" => c \in served \cup gone \cup unheard)

(* Two bridges deliver everything in the end, although notifications of    *)
(* the output thread are lost (bridge_impl.cpp, send_output).              *)
BridgesDeliver == <>(which = "bridge" => B!AllPassed)
=============================================================================
