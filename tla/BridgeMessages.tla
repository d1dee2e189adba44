---------------------------- MODULE BridgeMessages ----------------------------
(***************************************************************************)
(* The messages that bridges pass from one bus to another, and those that  *)
(* they handle or answer themselves (bridge_impl.cpp, and the same code in *)
(* mqtt_bridge_impl.cpp). b is the bridge that has the message m, toConn   *)
(* says that m comes from the other bus.                                   *)
(***************************************************************************)
EXTENDS Naturals, Sequences

(* kind, number, the side it comes from, the bridge it is for (0: another  *)
(* target), and bridge_topology_info::opposite_id.                         *)
Message(kind, n, from, to) ==
    [kind |-> kind, n |-> n, from |-> from, to |-> to, opposite |-> 0]

Reply(b, m, kind) == Message(kind, m.n, b, m.from)

(* A ping is for the bridge once the bridge has its id.                    *)
PingsMe(b, m, hasId) == m.kind = "ping" /\ hasId /\ m.to = b

(* What the bridge answers, to where the message came from.                *)
PingAnswer(b, m, hasId) == IF PingsMe(b, m, hasId) THEN <<Reply(b, m, "pong")>> ELSE <<>>
TopologyAnswer(b, m) == IF m.kind = "topoQuery" THEN <<Reply(b, m, "topoBrdgCn")>> ELSE <<>>
StatsAnswer(b, m) == IF m.kind = "statsQuery" THEN <<Reply(b, m, "statsBrdg")>> ELSE <<>>
Answers(b, m, hasId) == PingAnswer(b, m, hasId) \o TopologyAnswer(b, m) \o StatsAnswer(b, m)

(* _handle_special returns was_handled.                                    *)
WasHandled(b, m, toConn, hasId) ==
    \/ m.kind \in {"assignId", "confirmId", "msgFlowInf"}
    \/ PingsMe(b, m, hasId)
    \/ m.kind = "topoBrdgCn" /\ toConn

(* A bridge completes what the bridge of the other bus says of itself with *)
(* its own id.                                                             *)
Completed(b, m, toConn) ==
    IF m.kind = "topoBrdgCn" /\ toConn THEN <<[m EXCEPT !.opposite = b]>> ELSE <<>>

Forwarded(b, m, toConn, hasId) == IF WasHandled(b, m, toConn, hasId) THEN <<>> ELSE <<m>>

Count(q, Is(_)) == Len(SelectSeq(q, Is))
=============================================================================
