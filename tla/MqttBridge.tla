------------------------------ MODULE MqttBridge ------------------------------
(***************************************************************************)
(* Bridges that connect several buses over the topics of an MQTT broker    *)
(* (mqtt_bridge_impl.cpp): each publishes what comes from its bus under a  *)
(* topic of its own and hears those of all others. The client library      *)
(* calls back from a thread of its own, also when the connection to the    *)
(* broker is lost; the next update then makes a new client.                *)
(***************************************************************************)
EXTENDS Naturals, Sequences, FiniteSets, SequencesExt, BridgeMessages

CONSTANTS
    Bridges,
    SameEnding, (* the pairs of bridges <<p, q>> where the name of p ends   *)
                (* with the name of q                                       *)
    Scenarios,  (* bounds: what the routers forward, the bridges that have  *)
                (* their id from the start, the connections that are lost   *)
    MaxFails    (* bound: how often a client cannot be made                 *)

MqttBridgeAssumption ==
    /\ SameEnding \subseteq Bridges \X Bridges
    /\ \A b \in Bridges : <<b, b>> \in SameEnding
    /\ MaxFails \in Nat

VARIABLES
    scenario,
    offered,   (* bridge: what its router has still to forward              *)
    bus,       (* bridge: what waits in the connection to the router        *)
    conn,      (* bridge: what it sent over this connection                 *)
    id,        (* bridge: has_id                                            *)
    asked,     (* bridge: it has requested an id                            *)
    client,    (* bridge: mqtt_bridge_state: none, usable, lost             *)
    pc,        (* bridge: where its update is                               *)
    received,  (* bridge: the double buffer _received                       *)
    broker,    (* bridge: what the broker has for it, with who published it *)
    gone,      (* what was published while the connection was lost, or lost *)
               (* with it                                                   *)
    fails

busVars == <<scenario, offered, bus>>
vars == <<busVars, conn, id, asked, client, pc, received, broker, gone, fails>>

Empty == [current |-> <<>>, next |-> <<>>]

Init ==
    /\ scenario \in Scenarios
    /\ offered = scenario.offered
    /\ bus = [b \in Bridges |-> <<>>]
    /\ conn = [b \in Bridges |-> IF b \in scenario.joined
                               THEN <<Message("announceId", 0, b, 0)>> ELSE <<>>]
    /\ id = [b \in Bridges |-> b \in scenario.joined]
    /\ asked = [b \in Bridges |-> FALSE]
    /\ client = [b \in Bridges |-> "none"]
    /\ pc = [b \in Bridges |-> "begin"]
    /\ received = [b \in Bridges |-> Empty]
    /\ broker = [b \in Bridges |-> <<>>]
    /\ gone = {} /\ fails = 0

Announced(b) == \E m \in ToSet(conn[b]) : m.kind = "announceId"

(* The router, as the bridge uses it.                                      *)
Assign(b) ==
    /\ asked[b] /\ ~id[b] /\ bus[b] = <<>>
    /\ bus' = [bus EXCEPT ![b] = <<Message("assignId", 0, b, b)>>]
    /\ UNCHANGED <<scenario, offered, conn, id, asked, client, pc, received, broker, gone, fails>>

Forward(b) ==
    /\ Announced(b) /\ offered[b] # <<>>
    /\ bus' = [bus EXCEPT ![b] = Append(@, Head(offered[b]))]
    /\ offered' = [offered EXCEPT ![b] = Tail(@)]
    /\ UNCHANGED <<scenario, conn, id, asked, client, pc, received, broker, gone, fails>>

(* _check_state: what the old client had received goes with it, and so     *)
(* does what the broker has for it. When the new one cannot be made the    *)
(* old one stays, unusable.                                                *)
CheckState(b) ==
    /\ pc[b] = "begin"
    /\ pc' = [pc EXCEPT ![b] = "connections"]
    /\ \/ client[b] = "usable" /\ UNCHANGED <<client, received, broker, gone, fails>>
       \/ /\ client[b] # "usable"
          /\ client' = [client EXCEPT ![b] = "usable"]
          /\ received' = [received EXCEPT ![b] = Empty]
          /\ broker' = [broker EXCEPT ![b] = <<>>]
          /\ gone' = gone \cup {<<b, m>> : m \in ToSet(received[b].current \o received[b].next)}
          /\ UNCHANGED fails
       \/ /\ client[b] # "usable" /\ fails < MaxFails
          /\ fails' = fails + 1
          /\ UNCHANGED <<client, received, broker, gone>>
    /\ UNCHANGED <<busVars, conn, id, asked>>

(* _update_connections.                                                    *)
UpdateConnections(b) ==
    /\ pc[b] = "connections"
    /\ pc' = [pc EXCEPT ![b] = "fetch"]
    /\ IF id[b] \/ asked[b]
       THEN UNCHANGED <<conn, asked>>
       ELSE /\ asked' = [asked EXCEPT ![b] = TRUE]
            /\ conn' = [conn EXCEPT ![b] = Append(@, Message("requestId", 0, b, 0))]
    /\ UNCHANGED <<busVars, id, client, received, broker, gone, fails>>

(* Those whose client hears the topics now.                                *)
Subscribed == {c \in Bridges : client[c] = "usable"}

(* _topic_ok: a bridge knows its own messages by the end of the topic.     *)
TopicOk(p, q) == <<p, q>> \notin SameEnding

(* push and _do_send: with a lost client nothing is published, and nobody  *)
(* learns of it.                                                           *)
Publish(b, q) ==
    IF client[b] = "usable"
    THEN /\ broker' = [c \in Bridges |->
                          IF c \in Subscribed
                          THEN broker[c] \o [i \in DOMAIN q |-> [by |-> b, m |-> q[i]]]
                          ELSE broker[c]]
         /\ gone' = gone \cup {<<c, m>> : c \in Bridges \ Subscribed, m \in ToSet(q)}
    ELSE /\ UNCHANGED broker
         /\ gone' = gone \cup {<<c, m>> : c \in Bridges, m \in ToSet(q)}

(* _handle_special of what comes from the bus (toConn: from the broker):   *)
(* what is passed on, and what the bridge answers to where it came from.   *)
HandleSpecial(b, q, toConn, hasId) ==
    [on |-> FlattenSeq([i \in DOMAIN q |->
               Completed(b, q[i], toConn) \o Forwarded(b, q[i], toConn, hasId)]),
     back |-> FlattenSeq([i \in DOMAIN q |-> Answers(b, q[i], hasId)])]

(* forward_conn_to_mqtt for all that waits. Without any client messages    *)
(* that are to be forwarded stay in the connection.                        *)
ForwardToMqtt(b) ==
    /\ pc[b] = "fetch"
    /\ pc' = [pc EXCEPT ![b] = "input"]
    /\ LET handled == HandleSpecial(b, bus[b], FALSE, id[b])
       IN  /\ conn' = [conn EXCEPT ![b] = @ \o handled.back]
           /\ IF client[b] = "none"
              THEN bus' = [bus EXCEPT ![b] = handled.on] /\ UNCHANGED <<broker, gone>>
              ELSE bus' = [bus EXCEPT ![b] = <<>>] /\ Publish(b, handled.on)
           /\ id' = [id EXCEPT ![b] = @ \/ \E m \in ToSet(bus[b]) : m.kind = "assignId"]
    /\ UNCHANGED <<scenario, offered, asked, client, received, fails>>

(* forward_mqtt_to_conn for all that was received, and the end of update.  *)
ForwardToConn(b) ==
    /\ pc[b] = "input"
    /\ pc' = [pc EXCEPT ![b] = "begin"]
    /\ LET q == IF client[b] = "none" THEN <<>> ELSE received[b].next
           handled == HandleSpecial(b, q, TRUE, id[b])
           announcement == IF id[b] /\ ~Announced(b)
                           THEN <<Message("announceId", 0, b, 0)>> ELSE <<>>
       IN  /\ conn' = [conn EXCEPT ![b] = @ \o handled.on \o announcement]
           /\ received' = [received EXCEPT ![b] = [current |-> <<>>, next |-> @.current]]
           /\ Publish(b, handled.back)
    /\ UNCHANGED <<busVars, id, asked, client, fails>>

(* The thread of the client library: _message_arrived.                     *)
MessageArrived(b) ==
    /\ client[b] = "usable" /\ broker[b] # <<>>
    /\ LET x == Head(broker[b])
       IN  received' = [received EXCEPT ![b].next =
                            IF TopicOk(x.by, b) THEN Append(@, x.m) ELSE @]
    /\ broker' = [broker EXCEPT ![b] = Tail(@)]
    /\ UNCHANGED <<busVars, conn, id, asked, client, pc, gone, fails>>

(* _connection_lost, with what the broker had for the client (quality of   *)
(* service 0, and a clean session).                                        *)
ConnectionLost(b) ==
    /\ client[b] = "usable" /\ b \in scenario.lost
    /\ scenario' = [scenario EXCEPT !.lost = @ \ {b}]
    /\ client' = [client EXCEPT ![b] = "lost"]
    /\ gone' = gone \cup {<<b, x.m>> : x \in ToSet(broker[b])}
    /\ broker' = [broker EXCEPT ![b] = <<>>]
    /\ UNCHANGED <<offered, bus, conn, id, asked, pc, received, fails>>

Update(b) == CheckState(b) \/ UpdateConnections(b) \/ ForwardToMqtt(b) \/ ForwardToConn(b)

Next ==
    \E b \in Bridges :
        Assign(b) \/ Forward(b) \/ Update(b) \/ MessageArrived(b) \/ ConnectionLost(b)

Spec == Init /\ [][Next]_vars

From(p, q) == SelectSeq(q, LAMBDA m : m.from = p /\ m \in ToSet(scenario.offered[p]))

(* What is under way from bus p to bus b.                                  *)
Way(p, b) ==
    From(p, conn[b]) \o From(p, received[b].current) \o From(p, received[b].next)
      \o From(p, [i \in DOMAIN broker[b] |-> broker[b][i].m]) \o From(p, bus[p])
      \o From(p, offered[p])

Passes(b, m) == m.kind \in {"data", "topoQuery", "statsQuery"} /\ <<b, m>> \notin gone

(* Every message of a bus that is not for a bridge reaches every other bus *)
(* once and in order, unless a connection to the broker was lost under it; *)
(* no message comes back to its own bus.                                   *)
MqttBridgesPassMessages ==
    \A p, b \in Bridges :
        IF p = b
        THEN \A m \in ToSet(conn[b]) : m \notin ToSet(scenario.offered[b])
        ELSE TopicOk(p, b) =>
                SelectSeq(Way(p, b), LAMBDA m : Passes(b, m))
                  = SelectSeq(scenario.offered[p], LAMBDA m : Passes(b, m))
=============================================================================
