----------------------------- MODULE MqttConnection -----------------------------
(***************************************************************************)
(* Connections of endpoints over the topics of an MQTT broker, without any *)
(* router (paho_mqtt_impl.cpp). The topic of a message is made of its type,*)
(* its sender and its target, or "everybody"; the topics an endpoint hears *)
(* are those of the types it subscribes to, with everybody or itself as    *)
(* the target. The client library calls back from a thread of its own.     *)
(***************************************************************************)
EXTENDS Naturals, Sequences, FiniteSets, SequencesExt

CONSTANTS
    Clients,
    Everybody,   (* the target of a broadcast                              *)
    MqttScripts  (* bound: what each client is told to do, and which ones  *)
                 (* lose their connection                                  *)

VARIABLES
    script,    (* client: what it is still told; and who is lost           *)
    id,        (* client: its endpoint has got its id                      *)
    usable,    (* client: _created and _connected                          *)
    updating,  (* client: it is in update, behind the swap                 *)
    sent, received, (* client: the double buffers                          *)
    heard,     (* client: the topics the broker has it subscribed to       *)
    broker,    (* client: what the broker has for it                       *)
    handled,   (* client: what its endpoint got                            *)
    due        (* what was sent to a topic that a client heard then, and   *)
               (* has heard since, while both were connected               *)

vars == <<script, id, usable, updating, sent, received, heard, broker, handled, due>>

Msg(type, from, to, n) == [type |-> type, from |-> from, to |-> to, n |-> n]
Empty == [current |-> <<>>, next |-> <<>>]

Init ==
    /\ script \in MqttScripts
    /\ id = [c \in Clients |-> FALSE]
    /\ usable = [c \in Clients |-> TRUE]
    /\ updating = [c \in Clients |-> FALSE]
    /\ sent = [c \in Clients |-> Empty]
    /\ received = [c \in Clients |-> Empty]
    /\ heard = [c \in Clients |-> {}]
    /\ broker = [c \in Clients |-> <<>>]
    /\ handled = [c \in Clients |-> <<>>]
    /\ due = {}

(* _msg_id_to_topic, and _msg_id_to_subscr_topic with and without          *)
(* broadcast.                                                              *)
Topic(m) == <<m.type, m.to>>
SubscrTopics(c, t) == {<<t, Everybody>>, <<t, c>>}

(* The endpoint calls send from its update, never from within the          *)
(* connection's.                                                           *)
Told(c, op) ==
    /\ ~updating[c]
    /\ script.todo[c] # <<>> /\ Head(script.todo[c]).op = op
    /\ script' = [script EXCEPT !.todo[c] = Tail(@)]

Push(buffer, c, m) == [buffer EXCEPT ![c].next = Append(@, m)]

(* _handle_req_id: the connection itself answers, with its own name.       *)
RequestId(c) ==
    /\ Told(c, "id")
    /\ received' = Push(received, c, Msg("assignId", Everybody, c, 0))
    /\ UNCHANGED <<id, usable, updating, sent, heard, broker, handled, due>>

(* _handle_subsc and _handle_unsub: the broker is told when the client is  *)
(* usable, and never again; the message is sent in any case.               *)
Subscribe(c) ==
    /\ id[c] /\ Told(c, "subscribTo")
    /\ LET t == Head(script.todo[c]).type
       IN  /\ heard' = IF usable[c] THEN [heard EXCEPT ![c] = @ \cup SubscrTopics(c, t)]
                       ELSE heard
           /\ sent' = Push(sent, c, Msg("subscribTo", c, Everybody, 0))
    /\ UNCHANGED <<id, usable, updating, received, broker, handled, due>>

Unsubscribe(c) ==
    /\ id[c] /\ Told(c, "unsubFrom")
    /\ LET t == Head(script.todo[c]).type
       IN  /\ heard' = IF usable[c] THEN [heard EXCEPT ![c] = @ \ SubscrTopics(c, t)]
                       ELSE heard
           /\ sent' = Push(sent, c, Msg("unsubFrom", c, Everybody, 0))
           /\ due' = {x \in due : ~(x[1] = c /\ x[2].type = t)}
    /\ UNCHANGED <<id, usable, updating, received, broker, handled>>

Send(c) ==
    /\ id[c] /\ Told(c, "send")
    /\ LET x == Head(script.todo[c])
           m == Msg(x.type, c, x.to, Len(script.todo[c]))
       IN  /\ sent' = Push(sent, c, m)
           /\ due' = due \cup {<<d, m>> : d \in {d \in Clients :
                        d # c /\ usable[c] /\ usable[d] /\ Topic(m) \in heard[d]}}
    /\ UNCHANGED <<id, usable, updating, received, heard, broker, handled>>

(* The bye-byes, msgFlowInf and annEndptId are taken and forgotten.        *)
Swallow(c) ==
    /\ Told(c, "byeByeEndp")
    /\ UNCHANGED <<id, usable, updating, sent, received, heard, broker, handled, due>>

(* update: all that was sent is published, by the library that may lose    *)
(* the connection meanwhile; the rest stays in this buffer then.           *)
Swap(c) ==
    /\ ~updating[c]
    /\ updating' = [updating EXCEPT ![c] = TRUE]
    /\ sent' = [sent EXCEPT ![c] = [current |-> @.next, next |-> @.current]]
    /\ UNCHANGED <<script, id, usable, received, heard, broker, handled, due>>

Publish(c) ==
    /\ updating[c] /\ usable[c] /\ sent[c].current # <<>>
    /\ LET m == Head(sent[c].current)
       IN  broker' = [d \in Clients |->
               IF Topic(m) \in heard[d] THEN Append(broker[d], m) ELSE broker[d]]
    /\ sent' = [sent EXCEPT ![c].current = Tail(@)]
    /\ UNCHANGED <<script, id, usable, updating, received, heard, handled, due>>

EndUpdate(c) ==
    /\ updating[c] /\ (usable[c] => sent[c].current = <<>>)
    /\ updating' = [updating EXCEPT ![c] = FALSE]
    /\ UNCHANGED <<script, id, usable, sent, received, heard, broker, handled, due>>

(* _message_arrived: the broker sends a client its own messages too.       *)
Arrived(c, m) == m.from # c /\ m.to \in {Everybody, c}

MessageArrived(c) ==
    /\ usable[c] /\ broker[c] # <<>>
    /\ received' = IF Arrived(c, Head(broker[c]))
                   THEN Push(received, c, Head(broker[c])) ELSE received
    /\ broker' = [broker EXCEPT ![c] = Tail(@)]
    /\ UNCHANGED <<script, id, usable, updating, sent, heard, handled, due>>

(* fetch_messages: the endpoint takes all.                                 *)
FetchMessages(c) ==
    /\ ~updating[c] /\ received[c] # Empty
    /\ LET q == received[c].next
       IN  /\ handled' = [handled EXCEPT ![c] = @ \o q]
           /\ id' = [id EXCEPT ![c] = @ \/ \E m \in ToSet(q) : m.type = "assignId"]
    /\ received' = [received EXCEPT ![c] = [current |-> <<>>, next |-> @.current]]
    /\ UNCHANGED <<script, usable, updating, sent, heard, broker, due>>

(* The connection is lost, and nothing makes it again; the broker forgets  *)
(* the client (a clean session).                                           *)
Gone(c) ==
    /\ usable' = [usable EXCEPT ![c] = FALSE]
    /\ heard' = [heard EXCEPT ![c] = {}]
    /\ broker' = [broker EXCEPT ![c] = <<>>]
    /\ due' = {x \in due : x[1] # c /\ x[2].from # c}

ConnectionLost(c) ==
    /\ usable[c] /\ c \in script.lost /\ Gone(c)
    /\ UNCHANGED <<script, id, updating, sent, received, handled>>

Cleanup(c) ==
    /\ Told(c, "cleanup") /\ Gone(c)
    /\ UNCHANGED <<id, updating, sent, received, handled>>

Next ==
    \E c \in Clients :
        \/ RequestId(c) \/ Subscribe(c) \/ Unsubscribe(c) \/ Send(c) \/ Swallow(c)
        \/ Swap(c) \/ Publish(c) \/ EndUpdate(c) \/ MessageArrived(c) \/ FetchMessages(c)
        \/ ConnectionLost(c) \/ Cleanup(c)

Spec == Init /\ [][Next]_vars

(* Where m is on its way from its sender to d.                             *)
Times(m, q) == Len(SelectSeq(q, LAMBDA x : x = m))
Copies(d, m) ==
    Times(m, handled[d]) + Times(m, received[d].current) + Times(m, received[d].next)
Underway(d, m) ==
    Copies(d, m) + Times(m, broker[d])
      + Times(m, sent[m.from].current) + Times(m, sent[m.from].next)

(* What is sent to a topic that another client hears reaches it once, as   *)
(* long as both are connected; and nobody gets a message twice, its own    *)
(* message, or one that is for another.                                    *)
MqttReaches ==
    /\ \A x \in due : Underway(x[1], x[2]) = 1
    /\ \A d \in Clients : \A m \in ToSet(handled[d]) \cup ToSet(received[d].next) :
          /\ Copies(d, m) = 1
          /\ m.from # d /\ m.to \in {d, Everybody}
=============================================================================
