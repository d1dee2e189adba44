--------------------------- MODULE MCAsioConnection ---------------------------
(***************************************************************************)
(* What is sent over a connection with sockets (AsioConnection), and how   *)
(* such connections come about (AsioConnect).  A behaviour is of one of    *)
(* the two; the other one does not move.                                   *)
(***************************************************************************)
EXTENDS AsioConnection, AsioConnect

CONSTANTS a, b, c, d

(* In blocks of 3, c overtakes b behind a, and d does not fit at all.      *)
MCSize == [m \in Msgs |-> CASE m = c -> 1 [] m = d -> 4 [] OTHER -> 2]
MCMaxSent == [g \in Groups |-> IF g = 1 THEN 4 ELSE 3]
MCPriority == [m \in Msgs |-> IF m = c THEN Critical ELSE 2]

VARIABLE which

ConnectScenario(kinds, addresses, dropped1, isFull, resolveFails) ==
    [kind |-> kinds, addrs |-> addresses, drops |-> dropped1, full |-> isFull, fails |-> resolveFails]

(* A connector next to a datagram peer; two connectors, one of which knows *)
(* an address where nobody listens; and connectors of a full program.      *)
MCScenarios ==
    {ConnectScenario(<<"tcp", "udp">>, <<<<TRUE>>, <<TRUE>>>>, 1, FALSE, 1),
     ConnectScenario(<<"tcp", "tcp">>, <<<<TRUE>>, <<FALSE, TRUE>>>>, 1, FALSE, 0),
     ConnectScenario(<<"local", "local">>, <<<<TRUE>>, <<TRUE>>>>, 2, TRUE, 0)}

MCInit ==
    /\ Init
    /\ ConnectInit
    /\ \/ which = "messages" /\ kind[2] = "udp"
       \/ which = "connecting" /\ n = 1

MCNext ==
    \/ which = "messages" /\ Next /\ UNCHANGED <<which, connectVars>>
    \/ which = "connecting" /\ ConnectNext /\ UNCHANGED <<which, vars>>

MCFairness ==
    /\ WF_vars(which = "messages" /\ Update) /\ WF_vars(which = "messages" /\ Transmit)
    /\ WF_vars(which = "messages" /\ HandleSent)
    /\ WF_vars(which = "messages" /\ HandleSendError)
    /\ WF_vars(which = "messages" /\ Reconnect)
    /\ \A p \in Peers : /\ WF_vars(which = "messages" /\ HandleReceived(p))
                        /\ WF_vars(which = "messages" /\ FetchMessages(p))
    /\ \A k \in 1 .. 2 : /\ WF_connectVars(which = "connecting" /\ Connector(k))
                             /\ WF_connectVars(which = "connecting" /\ Expire(k))
    /\ WF_connectVars(which = "connecting" /\ Server)
    /\ WF_connectVars(which = "connecting" /\ DescriptorsFreed)

MCSpec == MCInit /\ [][MCNext]_<<which, vars, connectVars>> /\ MCFairness

(* Connectors get through to a router that listens, also when resolving    *)
(* fails, nobody listens at first, the router drops them or is out of      *)
(* descriptors for a while (asio_impl.cpp, asio_connector).                *)
ConnectorsGetThrough == <>[](which = "connecting" => AllSettled)
=============================================================================
