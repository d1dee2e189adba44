-------------------------------- MODULE Bridge --------------------------------
(***************************************************************************)
(* Two bridges (bridge_impl.cpp) that connect two buses over the standard  *)
(* streams of their processes. Each is one object updated by a main loop,  *)
(* with a thread that writes what waits for the output, woken through a    *)
(* condition variable, and a thread that reads lines from the input; the   *)
(* buffers between the threads are double buffers under a mutex.           *)
(***************************************************************************)
EXTENDS Naturals, Sequences, FiniteSets, SequencesExt, BridgeMessages

CONSTANTS
    Scenarios, (* bounds, one of which a behaviour keeps to: the messages   *)
               (* that the router of each side forwards to its bridge, the  *)
               (* sides that have their id from the start, those that say   *)
               (* bye-bye, and how many messages are found to be too old    *)
    MaxAsked   (* bound: how often an id is requested                       *)

Sides == {1, 2}
Opposite(b) == 3 - b

BridgeAssumption ==
    /\ \A x \in Scenarios :
          /\ \A s \in Sides : \A m \in ToSet(x.offered[s]) : m.from = s
          /\ x.joined \subseteq Sides /\ x.leaving \subseteq Sides /\ x.old \in Nat
    /\ MaxAsked \in Nat \ {0}

VARIABLES
    scenario,
    offered,  (* side: what the router has still to forward                 *)
    bus,      (* side: what waits in the connection to the router           *)
    conn,     (* side: what the bridge sent over this connection            *)
    id,       (* side: has_id                                               *)
    due,      (* side: the _no_id_timeout has expired                       *)
    asked,    (* side: the requests for an id                               *)
    made,     (* side: its _state exists, with its threads                  *)
    pc,       (* side: where its update is                                  *)
    outgoing, (* side: bridge_state::_outgoing                              *)
    writer,   (* side: the output thread: ready, waiting, woken, writing    *)
    pipe,     (* side: the lines it has written and the other has not read  *)
    incoming, (* side: bridge_state::_incoming                              *)
    old,      (* the messages that were dropped for their age               *)
    left      (* side: it has said bye-bye                                  *)

busVars == <<scenario, offered, bus>>
idVars == <<id, due, asked>>
vars == <<busVars, conn, idVars, made, pc, outgoing, writer, pipe, incoming, old, left>>

Empty == [current |-> <<>>, next |-> <<>>]

Init ==
    /\ scenario \in Scenarios
    /\ offered = scenario.offered
    /\ bus = [s \in Sides |-> <<>>]
    /\ conn = [s \in Sides |-> IF s \in scenario.joined
                               THEN <<Message("announceId", 0, s, 0)>> ELSE <<>>]
    /\ id = [s \in Sides |-> s \in scenario.joined] /\ due = [s \in Sides |-> TRUE]
    /\ asked = [s \in Sides |-> 0]
    /\ made = [s \in Sides |-> FALSE]
    /\ pc = [s \in Sides |-> "begin"]
    /\ outgoing = [s \in Sides |-> Empty] /\ incoming = [s \in Sides |-> Empty]
    /\ writer = [s \in Sides |-> "ready"]
    /\ pipe = [s \in Sides |-> <<>>]
    /\ old = {} /\ left = [s \in Sides |-> FALSE]

Announced(s) == \E m \in ToSet(conn[s]) : m.kind = "announceId"

(* The router, as the bridge uses it: it answers a request with an id, and *)
(* forwards messages once the bridge has announced it.                     *)
Assign(s) ==
    /\ \E m \in ToSet(conn[s]) : m.kind = "requestId"
    /\ Cardinality({i \in DOMAIN bus[s] : bus[s][i].kind = "assignId"}) = 0
    /\ ~id[s]
    /\ bus' = [bus EXCEPT ![s] = Append(@, Message("assignId", 0, s, s))]
    /\ UNCHANGED <<scenario, offered, conn, idVars, made, pc, outgoing, writer, pipe, incoming, old, left>>

Forward(s) ==
    /\ Announced(s) /\ offered[s] # <<>>
    /\ bus' = [bus EXCEPT ![s] = Append(@, Head(offered[s]))]
    /\ offered' = [offered EXCEPT ![s] = Tail(@)]
    /\ UNCHANGED <<scenario, conn, idVars, made, pc, outgoing, writer, pipe, incoming, old, left>>

Expire(s) ==
    /\ ~due[s] /\ ~id[s] /\ asked[s] < MaxAsked
    /\ due' = [due EXCEPT ![s] = TRUE]
    /\ UNCHANGED <<busVars, conn, id, asked, made, pc, outgoing, writer, pipe, incoming, old, left>>

(* _check_state and _update_connections: the threads are started, an id is *)
(* requested.                                                              *)
BeginUpdate(s) ==
    /\ pc[s] = "begin"
    /\ pc' = [pc EXCEPT ![s] = "fetch"]
    /\ made' = [made EXCEPT ![s] = TRUE]
    /\ LET asks == ~id[s] /\ due[s] /\ asked[s] < MaxAsked
       IN  /\ conn' = IF asks THEN [conn EXCEPT ![s] = Append(@, Message("requestId", 0, s, 0))]
                      ELSE conn
           /\ due' = [due EXCEPT ![s] = @ /\ ~asks]
           /\ asked' = [asked EXCEPT ![s] = IF asks THEN @ + 1 ELSE @]
    /\ UNCHANGED <<busVars, id, outgoing, writer, pipe, incoming, old, left>>

MayBeOld(m) == old' \in {old} \cup (IF Cardinality(old) < scenario.old THEN {old \cup {m}} ELSE {})

(* forward_conn_to_output, for the next message.                           *)
ForwardToOutput(s) ==
    /\ pc[s] = "fetch" /\ bus[s] # <<>>
    /\ LET m == Head(bus[s])
       IN  /\ MayBeOld(m)
           /\ IF m \in old'
              THEN UNCHANGED <<conn, outgoing, id>>
              ELSE /\ conn' = [conn EXCEPT ![s] = @ \o Answers(s, m, id[s])]
                   /\ outgoing' = [outgoing EXCEPT ![s].next = @ \o Forwarded(s, m, FALSE, id[s])]
                   /\ id' = [id EXCEPT ![s] = @ \/ m.kind = "assignId"]
    /\ bus' = [bus EXCEPT ![s] = Tail(@)]
    /\ UNCHANGED <<scenario, offered, due, asked, made, pc, writer, pipe, incoming, left>>

(* The bug of notifying only when there was something to forward.          *)
NotifyOutputReadyOnce(s) ==
    /\ pc[s] = "fetch" /\ bus[s] = <<>>
    /\ pc' = [pc EXCEPT ![s] = "input"]
    /\ writer' = [writer EXCEPT ![s] =
          IF @ = "waiting" /\ Len(outgoing[s].next) > 1 THEN "woken" ELSE @]
    /\ incoming' = [incoming EXCEPT ![s] = [current |-> @.next, next |-> @.current]]
    /\ UNCHANGED <<busVars, conn, idVars, made, outgoing, pipe, old, left>>

(* notify_output_ready wakes the output thread only if it waits by then;   *)
(* then fetch_messages swaps the buffers of the input.                     *)
NotifyOutputReady(s) ==
    /\ pc[s] = "fetch" /\ bus[s] = <<>>
    /\ pc' = [pc EXCEPT ![s] = "input"]
    /\ writer' = [writer EXCEPT ![s] = IF @ = "waiting" THEN "woken" ELSE @]
    /\ incoming' = [incoming EXCEPT ![s] = [current |-> @.next, next |-> @.current]]
    /\ UNCHANGED <<busVars, conn, idVars, made, outgoing, pipe, old, left>>

(* forward_input_to_conn, for the next message.                            *)
ForwardToConn(s) ==
    /\ pc[s] = "input" /\ incoming[s].current # <<>>
    /\ LET m == Head(incoming[s].current)
       IN  /\ MayBeOld(m)
           /\ IF m \in old'
              THEN UNCHANGED <<conn, outgoing>>
              ELSE /\ conn' = [conn EXCEPT ![s] = @ \o Completed(s, m, TRUE) \o Forwarded(s, m, TRUE, id[s])]
                   /\ outgoing' = [outgoing EXCEPT ![s].next = @ \o Answers(s, m, id[s])]
    /\ incoming' = [incoming EXCEPT ![s].current = Tail(@)]
    /\ UNCHANGED <<busVars, idVars, made, pc, writer, pipe, left>>

(* The end of update: an id that was assigned in it is announced.          *)
EndUpdate(s) ==
    /\ pc[s] = "input" /\ incoming[s].current = <<>>
    /\ pc' = [pc EXCEPT ![s] = "begin"]
    /\ conn' = IF id[s] /\ ~Announced(s)
               THEN [conn EXCEPT ![s] = Append(@, Message("announceId", 0, s, 0))] ELSE conn
    /\ UNCHANGED <<busVars, idVars, made, outgoing, writer, pipe, incoming, old, left>>

(* say_bye, to both sides; update goes on for a second after it, and then  *)
(* the process ends. Here it goes on for ever: what a bridge that leaves   *)
(* had still to pass may be lost in the code, and this is not modelled.    *)
SayBye(s) ==
    LET bye == Message("byeByeBrdg", 0, s, 0)
    IN  /\ pc[s] = "begin" /\ id[s] /\ ~left[s] /\ s \in scenario.leaving
        /\ left' = [left EXCEPT ![s] = TRUE]
        /\ conn' = [conn EXCEPT ![s] = Append(@, bye)]
        /\ outgoing' = [outgoing EXCEPT ![s].next = Append(@, bye)]
        /\ writer' = [writer EXCEPT ![s] = IF @ = "waiting" THEN "woken" ELSE @]
        /\ pc' = [pc EXCEPT ![s] = "fetch"]
        /\ UNCHANGED <<busVars, idVars, made, pipe, incoming, old>>

(* send_output: the thread waits without looking whether there is anything *)
(* to write; wait gives up the lock, so a notification that came before is *)
(* lost.                                                                   *)
WaitForOutput(s) ==
    /\ made[s] /\ writer[s] = "ready"
    /\ writer' = [writer EXCEPT ![s] = "waiting"]
    /\ UNCHANGED <<busVars, conn, idVars, made, pc, outgoing, pipe, incoming, old, left>>

SwapOutput(s) ==
    /\ writer[s] = "woken"
    /\ writer' = [writer EXCEPT ![s] = "writing"]
    /\ outgoing' = [outgoing EXCEPT ![s] = [current |-> @.next, next |-> @.current]]
    /\ UNCHANGED <<busVars, conn, idVars, made, pc, pipe, incoming, old, left>>

(* _make_send_handler, for the next message.                               *)
WriteLine(s) ==
    /\ writer[s] = "writing" /\ outgoing[s].current # <<>>
    /\ LET m == Head(outgoing[s].current)
       IN  /\ MayBeOld(m)
           /\ pipe' = IF m \in old' THEN pipe ELSE [pipe EXCEPT ![s] = Append(@, m)]
    /\ outgoing' = [outgoing EXCEPT ![s].current = Tail(@)]
    /\ UNCHANGED <<busVars, conn, idVars, made, pc, writer, incoming, left>>

EndOutput(s) ==
    /\ writer[s] = "writing" /\ outgoing[s].current = <<>>
    /\ writer' = [writer EXCEPT ![s] = "ready"]
    /\ UNCHANGED <<busVars, conn, idVars, made, pc, outgoing, pipe, incoming, old, left>>

(* recv_input: the other thread reads a line.                              *)
RecvInput(s) ==
    /\ made[s] /\ pipe[Opposite(s)] # <<>>
    /\ incoming' = [incoming EXCEPT ![s].next = Append(@, Head(pipe[Opposite(s)]))]
    /\ pipe' = [pipe EXCEPT ![Opposite(s)] = Tail(@)]
    /\ UNCHANGED <<busVars, conn, idVars, made, pc, outgoing, writer, old, left>>

Update(s) ==
    \/ BeginUpdate(s) \/ ForwardToOutput(s) \/ NotifyOutputReady(s)
    \/ ForwardToConn(s) \/ EndUpdate(s)
SendOutput(s) == WaitForOutput(s) \/ SwapOutput(s) \/ WriteLine(s) \/ EndOutput(s)

Next ==
    \E s \in Sides :
        \/ Assign(s) \/ Forward(s) \/ Expire(s) \/ SayBye(s)
        \/ Update(s) \/ SendOutput(s) \/ RecvInput(s)

Spec == Init /\ [][Next]_vars

(* The main loop and the two threads of each process run for ever.         *)
Fairness ==
    \A s \in Sides :
        /\ WF_vars(Assign(s)) /\ WF_vars(Forward(s))
        /\ WF_vars(Update(s)) /\ WF_vars(SendOutput(s)) /\ WF_vars(RecvInput(s))

FairSpec == Spec /\ Fairness

FromBus(s, q) == SelectSeq(q, LAMBDA m : m.from = s /\ m \in ToSet(scenario.offered[s]))

(* What is under way from the bus of side s to the other one, in order.    *)
Way(s) ==
    LET o == Opposite(s)
    IN  FromBus(s, conn[o]) \o FromBus(s, incoming[o].current) \o FromBus(s, incoming[o].next)
          \o FromBus(s, pipe[s]) \o FromBus(s, outgoing[s].current)
          \o FromBus(s, outgoing[s].next) \o FromBus(s, bus[s]) \o offered[s]

ForMe(s, m) == m.kind = "ping" /\ m.to = s
Passes(s, m) == m \notin old /\ ~ForMe(s, m) /\ m.kind # "msgFlowInf"

(* Every message of a bus that is not for the bridges themselves is passed *)
(* to the other bus once and in order, across three queues and three       *)
(* threads, or it was too old. A query is answered by the first bridge     *)
(* once, and by the second one not more than once, with its way completed. *)
BridgesPassMessages ==
    \A s \in Sides :
        /\ SelectSeq(Way(s), LAMBDA m : Passes(s, m) /\ ~ForMe(Opposite(s), m))
             = SelectSeq(scenario.offered[s], LAMBDA m : Passes(s, m) /\ ~ForMe(Opposite(s), m))
        /\ \A m \in ToSet(scenario.offered[s]) :
              /\ m.kind = "topoQuery" =>
                    /\ Count(conn[s], LAMBDA a : a.kind = "topoBrdgCn" /\ a.n = m.n /\ a.from = s)
                         = IF m \in ToSet(offered[s]) \cup ToSet(bus[s]) \/ m \in old
                           THEN Count(conn[s], LAMBDA a : a.kind = "topoBrdgCn" /\ a.n = m.n
                                                          /\ a.from = s /\ m \in old)
                           ELSE 1
                    /\ Count(conn[s], LAMBDA a : a.kind = "topoBrdgCn" /\ a.n = m.n /\ a.from # s) <= 1
                    /\ \A a \in ToSet(conn[s]) :
                          a.kind = "topoBrdgCn" /\ a.n = m.n /\ a.from # s => a.opposite = s
              /\ m.kind = "ping" => Count(conn[s], LAMBDA a : a.kind = "pong" /\ a.n = m.n) <= 1

AllPassed ==
    \A s \in Sides :
        \A m \in ToSet(scenario.offered[s]) :
            Passes(s, m) /\ m.to = 0 => m \in ToSet(conn[Opposite(s)])

(* What the routers forward arrives in the other bus, although a           *)
(* notification that the output thread does not wait for is lost: the next *)
(* update notifies it again.                                               *)
BridgesDeliver == <>AllPassed
=============================================================================
