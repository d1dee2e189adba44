----------------------------- MODULE AsioConnect -----------------------------
(***************************************************************************)
(* How connections over sockets come about, are handed to the router and   *)
(* go away (asio_impl.cpp): connectors that resolve, connect and try       *)
(* again, the acceptor of a stream protocol with its list of accepted      *)
(* sockets, the datagram server that makes a connection of every peer it   *)
(* hears of, and the sockets that are kept open for a while after their    *)
(* connection was cleaned up. What is sent over a connection is in         *)
(* AsioConnection.                                                         *)
(* The handlers of asio are actions; context.poll() runs all that are      *)
(* ready, so a connector is not updated while a handler of its is ready.   *)
(***************************************************************************)
EXTENDS Integers, Sequences, FiniteSets

CONSTANTS
    Scenarios  (* what may happen: [kind, addrs, drops, full, fails]      *)

(* Each connector has a kind and the addresses its name resolves to.       *)
ASSUME ConnectAssumption ==
    \A s \in Scenarios :
        /\ s.kind \in [DOMAIN s.kind -> {"tcp", "local", "udp"}]
        /\ s.addrs \in [DOMAIN s.kind -> Seq(BOOLEAN)]
        /\ \A c \in DOMAIN s.kind : s.addrs[c] # <<>>
        /\ s.drops \in Nat /\ s.full \in BOOLEAN /\ s.fails \in Nat

VARIABLES
    kind,       (* connector: "tcp", "local" or "udp"                       *)
    addrs,      (* connector: for each address, whether somebody listens    *)
    sock,       (* connector: "closed", "open" or "connected"               *)
    connecting, (* _connecting, or _establishing                            *)
    recving,    (* is_recving                                               *)
    trying,     (* the address that is tried, 0 while it is resolved        *)
    op,         (* the operation of the connector in asio                   *)
    ready,      (* handlers of the connector that are ready with an error   *)
    due,        (* _should_reconnect is expired                             *)
    made,       (* how many connections the connector has made              *)
    listening,  (* _acceptor.is_open, with an accept under way              *)
    backlog,    (* connections that were made and not accepted              *)
    accepted,   (* asio_acceptor::_accepted                                 *)
    spinning,   (* poll does not return: accepting fails again and again    *)
    full,       (* there is no descriptor for another socket                *)
    served,     (* connections that are in the router                       *)
    flushing,   (* asio_flushing_sockets, with what is expired              *)
    closed,     (* connections whose socket at the router was closed        *)
    pending,    (* asio_datagram_server_connection::_pending                *)
    current,    (* asio_datagram_server_connection::_current                *)
    box,        (* peer: the datagrams in its connection_incoming_messages  *)
    fetched,    (* peer: the datagrams its connection has fetched           *)
    sent,       (* peer: how many datagrams it has sent                     *)
    drops,      (* bound: connections the router may still drop             *)
    fails       (* bound: how often resolving may still fail                *)

connectorVars == <<sock, connecting, recving, trying, op, ready, due, made, fails>>
acceptorVars == <<listening, backlog, accepted, spinning, full>>
routerVars == <<served, flushing, closed, drops>>
datagramVars == <<pending, current, box, fetched, sent>>
connectVars == <<kind, addrs, connectorVars, acceptorVars, routerVars, datagramVars>>

Connectors == DOMAIN kind
Streams == {c \in Connectors : kind[c] # "udp"}
Datagrams == Connectors \ Streams
Sockets(s) == {s[i] : i \in DOMAIN s}

(* The present connection of a connector.                                  *)
Present(c) == <<c, made[c]>>
Nothing == [c \in Connectors |-> 0]
No == [c \in Connectors |-> FALSE]

ConnectInit ==
    /\ \E s \in Scenarios :
        /\ kind = s.kind
        /\ addrs = s.addrs
        /\ drops = s.drops
        /\ full = s.full
        /\ fails = s.fails
    /\ sock = [c \in Connectors |-> "closed"]
    /\ connecting = No
    /\ recving = No
    /\ trying = Nothing
    /\ op = [c \in Connectors |-> "none"]
    /\ ready = [c \in Connectors |-> {}]
    /\ due = [c \in Connectors |-> TRUE]
    /\ made = Nothing
    /\ listening = FALSE
    /\ backlog = <<>>
    /\ accepted = <<>>
    /\ spinning = FALSE
    /\ served = {}
    /\ flushing = {}
    /\ closed = {}
    /\ pending = {}
    /\ current = {}
    /\ box = Nothing
    /\ fetched = Nothing
    /\ sent = Nothing

----------------------------------------------------------------------------
(* A connector.                                                            *)

(* The socket is opened by asio when it connects, so the connector begins  *)
(* to receive before it is connected.                                      *)
StartConnect(c, i) ==
    /\ trying' = [trying EXCEPT ![c] = i]
    /\ op' = [op EXCEPT ![c] = "connect"]
    /\ sock' = [sock EXCEPT ![c] = "open"]

(* A path needs no resolving.                                              *)
ConnectPath(c) == StartConnect(c, 1)

StartResolve(c) ==
    /\ connecting' = [connecting EXCEPT ![c] = TRUE]
    /\ due' = [due EXCEPT ![c] = FALSE]
    /\ IF kind[c] = "local"
       THEN ConnectPath(c)
       ELSE /\ op' = [op EXCEPT ![c] = "resolve"]
            /\ trying' = [trying EXCEPT ![c] = 0]
            /\ UNCHANGED sock

(* A read from a socket whose connecting has failed ends with an error.    *)
StartReceive(c) ==
    /\ recving' = [recving EXCEPT ![c] = TRUE]
    /\ ready' = [ready EXCEPT ![c] =
        IF (sock[c] = "open" /\ op[c] = "none") \/ (sock[c] = "connected" /\ Present(c) \in closed)
        THEN {"receive"} ELSE @]

UpdateConnector(c) ==
    /\ ready[c] = {}
    /\ IF sock[c] # "closed"
       THEN /\ ~recving[c]
            /\ StartReceive(c)
            /\ UNCHANGED <<sock, connecting, trying, op, due>>
       ELSE /\ ~connecting[c]
            /\ due[c]
            /\ StartResolve(c)
            /\ UNCHANGED <<recving, ready>>
    /\ UNCHANGED <<kind, addrs, made, fails, acceptorVars, routerVars, datagramVars>>

Expire(c) ==
    /\ ~due[c]
    /\ due' = [due EXCEPT ![c] = TRUE]
    /\ UNCHANGED <<kind, addrs, sock, connecting, recving, trying, op, ready, made, fails,
                   acceptorVars, routerVars, datagramVars>>

(* A datagram socket is established when the address is known.             *)
Establish(c) ==
    /\ sock' = [sock EXCEPT ![c] = "connected"]
    /\ connecting' = [connecting EXCEPT ![c] = FALSE]
    /\ op' = [op EXCEPT ![c] = "none"]
    /\ made' = [made EXCEPT ![c] = @ + 1]

Resolved(c) ==
    /\ op[c] = "resolve"
    /\ IF kind[c] = "tcp"
       THEN StartConnect(c, 1) /\ UNCHANGED <<connecting, made>>
       ELSE Establish(c) /\ UNCHANGED trying
    /\ UNCHANGED <<kind, addrs, recving, ready, due, fails, acceptorVars, routerVars, datagramVars>>

ResolveFails(c) ==
    /\ op[c] = "resolve"
    /\ fails > 0
    /\ fails' = fails - 1
    /\ op' = [op EXCEPT ![c] = "none"]
    /\ connecting' = [connecting EXCEPT ![c] = FALSE]
    /\ UNCHANGED <<kind, addrs, sock, recving, trying, ready, due, made,
                   acceptorVars, routerVars, datagramVars>>

(* Somebody listens, also before the acceptor is open again.               *)
Connected(c) ==
    /\ op[c] = "connect"
    /\ sock[c] = "open"
    /\ ready[c] = {}
    /\ listening
    /\ addrs[c][trying[c]]
    /\ made' = [made EXCEPT ![c] = @ + 1]
    /\ sock' = [sock EXCEPT ![c] = "connected"]
    /\ op' = [op EXCEPT ![c] = "none"]
    /\ connecting' = [connecting EXCEPT ![c] = FALSE]
    /\ backlog' = Append(backlog, <<c, made[c] + 1>>)
    /\ UNCHANGED <<kind, addrs, recving, trying, ready, due, fails, listening, accepted, spinning,
                   full, routerVars, datagramVars>>

(* Mutant: the flag stays up after the last address.                       *)
ConnectHandlerStillConnecting(c) ==
    IF trying[c] < Len(addrs[c])
    THEN StartConnect(c, trying[c] + 1) /\ UNCHANGED connecting
    ELSE /\ op' = [op EXCEPT ![c] = "none"]
         /\ UNCHANGED <<connecting, trying, sock>>

(* The handler of a connecting that failed: the next address, or none.     *)
ConnectHandler(c) ==
    IF trying[c] < Len(addrs[c])
    THEN StartConnect(c, trying[c] + 1) /\ UNCHANGED connecting
    ELSE /\ op' = [op EXCEPT ![c] = "none"]
         /\ connecting' = [connecting EXCEPT ![c] = FALSE]
         /\ UNCHANGED <<trying, sock>>

(* Nobody listens: the read that waits for the same socket ends as well.   *)
ConnectFails(c) ==
    /\ op[c] = "connect"
    /\ sock[c] = "open"
    /\ ~(listening /\ addrs[c][trying[c]])
    /\ ready[c] = {}
    /\ ready' = [ready EXCEPT ![c] = IF recving[c] THEN {"receive"} ELSE {}]
    /\ ConnectHandler(c)
    /\ UNCHANGED <<kind, addrs, recving, due, made, fails, acceptorVars, routerVars, datagramVars>>

(* Closing the socket ends the connecting that is under way, and that may  *)
(* be the one to the next address.                                         *)
HandleReceiveError(c) ==
    /\ "receive" \in ready[c]
    /\ recving' = [recving EXCEPT ![c] = FALSE]
    /\ sock' = [sock EXCEPT ![c] = "closed"]
    /\ ready' = [ready EXCEPT ![c] =
        (@ \ {"receive"}) \cup IF op[c] = "connect" THEN {"connect"} ELSE {}]
    /\ UNCHANGED <<kind, addrs, connecting, trying, op, due, made, fails,
                   acceptorVars, routerVars, datagramVars>>

ConnectAborted(c) ==
    /\ "connect" \in ready[c]
    /\ "receive" \notin ready[c]
    /\ ready' = [ready EXCEPT ![c] = @ \ {"connect"}]
    /\ ConnectHandler(c)
    /\ UNCHANGED <<kind, addrs, recving, due, made, fails, acceptorVars, routerVars, datagramVars>>

----------------------------------------------------------------------------
(* The acceptor of a stream protocol.                                      *)

UpdateAcceptor ==
    /\ ~listening
    /\ listening' = TRUE
    /\ UNCHANGED <<kind, addrs, connectorVars, backlog, accepted, spinning, full,
                   routerVars, datagramVars>>

(* The handler starts to accept again.                                     *)
HandleAccept ==
    /\ backlog # <<>>
    /\ ~full
    /\ accepted' = Append(accepted, Head(backlog))
    /\ backlog' = Tail(backlog)
    /\ spinning' = FALSE
    /\ UNCHANGED <<kind, addrs, connectorVars, listening, full, routerVars, datagramVars>>

(* It does so at once after an error, and poll runs the next handler: the  *)
(* thread of the router does not get out of poll while the error lasts.    *)
HandleAcceptError ==
    /\ backlog # <<>>
    /\ full
    /\ ~spinning
    /\ spinning' = TRUE
    /\ UNCHANGED <<kind, addrs, connectorVars, listening, backlog, accepted, full,
                   routerVars, datagramVars>>

(* Some other program closes its files.                                    *)
DescriptorsFreed ==
    /\ full
    /\ full' = FALSE
    /\ UNCHANGED <<kind, addrs, connectorVars, listening, backlog, accepted, spinning,
                   routerVars, datagramVars>>

(* The sockets that have waited long enough are closed: this is done when  *)
(* some connection is made or cleaned up, and at no other time.            *)
UpdateFlushing(more) ==
    /\ flushing' = {f \in flushing : ~f.expired} \cup more
    /\ closed' = closed \cup {f.conn : f \in {g \in flushing : g.expired}}

(* The peers of sockets that are closed read the end of the stream.        *)
EndsOfStream(jobs, conns) ==
    [c \in Connectors |-> IF Present(c) \in conns /\ sock[c] = "connected" /\ recving[c]
                          THEN jobs[c] \cup {"receive"} ELSE jobs[c]]

(* Mutant: the list is not cleared.                                        *)
ProcessAcceptedKeeping ==
    /\ ~spinning
    /\ accepted # <<>>
    /\ served' = served \cup Sockets(accepted)
    /\ UpdateFlushing({})
    /\ ready' = EndsOfStream(ready, closed')
    /\ UNCHANGED <<kind, addrs, sock, connecting, recving, trying, op, due, made, fails, listening,
                   backlog, accepted, spinning, full, drops, datagramVars>>

(* The connections are made, each with the socket that was accepted.       *)
ProcessAccepted ==
    /\ ~spinning
    /\ accepted # <<>>
    /\ served' = served \cup Sockets(accepted)
    /\ accepted' = <<>>
    /\ UpdateFlushing({})
    /\ ready' = EndsOfStream(ready, closed')
    /\ UNCHANGED <<kind, addrs, sock, connecting, recving, trying, op, due, made, fails, listening,
                   backlog, spinning, full, drops, datagramVars>>

(* The router cleans a connection up: its socket is kept for 10 seconds.   *)
CleanupConnection(s) ==
    /\ ~spinning
    /\ drops > 0
    /\ drops' = drops - 1
    /\ s \in served
    /\ served' = served \ {s}
    /\ IF s[1] \in Streams
       THEN UpdateFlushing({[conn |-> s, expired |-> FALSE]})
       ELSE UNCHANGED <<flushing, closed>>
    /\ ready' = EndsOfStream(ready, closed')
    /\ UNCHANGED <<kind, addrs, sock, connecting, recving, trying, op, due, made, fails,
                   acceptorVars, datagramVars>>

FlushingExpires(f) ==
    /\ ~f.expired
    /\ flushing' = (flushing \ {f}) \cup {[f EXCEPT !.expired = TRUE]}
    /\ UNCHANGED <<kind, addrs, connectorVars, acceptorVars, served, closed, drops, datagramVars>>

----------------------------------------------------------------------------
(* The datagram server.                                                    *)

Known(c) == c \in current \cup pending

(* A datagram comes: its sender is looked up among the current and among   *)
(* the pending peers and is pending when it is new. Two datagrams of each. *)
OnReceived(c) ==
    /\ kind[c] = "udp"
    /\ sock[c] = "connected"
    /\ sent[c] < 2
    /\ sent' = [sent EXCEPT ![c] = @ + 1]
    /\ pending' = IF Known(c) THEN pending ELSE pending \cup {c}
    /\ box' = [box EXCEPT ![c] = @ + 1]
    /\ UNCHANGED <<kind, addrs, connectorVars, acceptorVars, routerVars, current, fetched>>

(* A connection for each pending peer, which shares its messages.          *)
ProcessAcceptedDatagrams ==
    /\ pending # {}
    /\ served' = served \cup {Present(c) : c \in pending}
    /\ current' = current \cup pending
    /\ pending' = {}
    /\ UNCHANGED <<kind, addrs, connectorVars, acceptorVars, flushing, closed, drops,
                   box, fetched, sent>>

(* The messages of a peer that was dropped stay where they are: the peer   *)
(* is current for good and no connection is made of it again.              *)
FetchDatagrams(c) ==
    /\ Present(c) \in served
    /\ box[c] > 0
    /\ fetched' = [fetched EXCEPT ![c] = @ + box[c]]
    /\ box' = [box EXCEPT ![c] = 0]
    /\ UNCHANGED <<kind, addrs, connectorVars, acceptorVars, routerVars, pending, current, sent>>

----------------------------------------------------------------------------

Connector(c) ==
    \/ UpdateConnector(c) \/ Resolved(c) \/ Connected(c)
    \/ ConnectFails(c) \/ HandleReceiveError(c) \/ ConnectAborted(c)
Server ==
    \/ UpdateAcceptor \/ HandleAccept \/ HandleAcceptError \/ ProcessAccepted
    \/ ProcessAcceptedDatagrams \/ \E c \in Datagrams : FetchDatagrams(c)

ConnectNext ==
    \/ \E c \in Connectors : Connector(c) \/ Expire(c) \/ ResolveFails(c) \/ OnReceived(c)
    \/ Server
    \/ DescriptorsFreed
    \/ \E s \in served : CleanupConnection(s)
    \/ \E f \in flushing : FlushingExpires(f)

ConnectSpec == ConnectInit /\ [][ConnectNext]_connectVars

----------------------------------------------------------------------------

Everywhere(conn) ==
    Cardinality({i \in DOMAIN backlog : backlog[i] = conn})
    + Cardinality({i \in DOMAIN accepted : accepted[i] = conn})
    + (IF conn \in served THEN 1 ELSE 0)
    + Cardinality({f \in flushing : f.conn = conn})
    + (IF conn \in closed THEN 1 ELSE 0)

StreamsHaveOnePlace ==
    \A c \in Streams :
        /\ \A k \in 1 .. made[c] : Everywhere(<<c, k>>) = 1
        /\ op[c] # "none" <=> connecting[c]
        /\ sock[c] = "connected" => op[c] = "none"

DatagramsAreKept ==
    \A c \in Datagrams :
        /\ box[c] + fetched[c] = sent[c]
        /\ ~(c \in pending /\ c \in current)

(* Every connection of a connector is in one place at the router: waiting  *)
(* to be accepted, accepted, served, kept for flushing, or closed; and a   *)
(* connector makes one attempt at a time.  No datagram of a peer is lost   *)
(* between the first one, which makes it known, and the connection that    *)
(* fetches it (asio_impl.cpp, process_accepted).                           *)
ConnectionsHaveOnePlace == StreamsHaveOnePlace /\ DatagramsAreKept

(* A connector whose first address is served gets through in the end, and  *)
(* stays so unless the router drops it.                                    *)
Settled(c) ==
    /\ sock[c] = "connected"
    /\ \/ Present(c) \in served
       \/ \E f \in flushing : f.conn = Present(c)
AllSettled == \A c \in Streams : addrs[c][1] => Settled(c)

----------------------------------------------------------------------------
(* The inductive invariant behind ConnectionsHaveOnePlace.                 *)

ConnectorTypeOK ==
    /\ sock \in [Connectors -> {"closed", "open", "connected"}]
    /\ connecting \in [Connectors -> BOOLEAN]
    /\ recving \in [Connectors -> BOOLEAN]
    /\ trying \in [Connectors -> Nat]
    /\ op \in [Connectors -> {"none", "resolve", "connect"}]
    /\ ready \in [Connectors -> SUBSET {"receive", "connect"}]
    /\ due \in [Connectors -> BOOLEAN]
    /\ made \in [Connectors -> Nat]
    /\ fails \in Nat
AcceptorTypeOK ==
    /\ listening \in BOOLEAN
    /\ backlog \in Seq(Streams \X Nat)
    /\ accepted \in Seq(Streams \X Nat)
    /\ spinning \in BOOLEAN
    /\ full \in BOOLEAN
RouterTypeOK ==
    /\ served \subseteq Connectors \X Nat
    /\ flushing \subseteq [conn : Streams \X Nat, expired : BOOLEAN]
    /\ closed \subseteq Streams \X Nat
    /\ drops \in Nat
DatagramTypeOK ==
    /\ pending \subseteq Datagrams
    /\ current \subseteq Datagrams
    /\ box \in [Connectors -> Nat]
    /\ fetched \in [Connectors -> Nat]
    /\ sent \in [Connectors -> Nat]
ConnectTypeOK ==
    /\ kind \in [Connectors -> {"tcp", "local", "udp"}]
    /\ addrs \in [Connectors -> Seq(BOOLEAN)]
    /\ ConnectorTypeOK
    /\ AcceptorTypeOK
    /\ RouterTypeOK
    /\ DatagramTypeOK

(* The attempt of a connector, also one whose end is known to asio and not *)
(* yet to the connector.                                                   *)
AttemptsAreSound ==
    \A c \in Connectors :
        /\ op[c] # "none" <=> connecting[c]
        /\ sock[c] = "connected" => op[c] = "none"
        /\ "connect" \in ready[c] => op[c] = "connect"
        /\ op[c] = "connect" => kind[c] # "udp"
        /\ op[c] = "resolve" => kind[c] # "local"

(* The five places: in one of them is what was made, each in one only.     *)
InFlushing == {f.conn : f \in flushing}
Distinct(s) == \A i, j \in DOMAIN s : s[i] = s[j] => i = j
Somewhere == UNION {Sockets(backlog), Sockets(accepted), served, InFlushing, closed}
PlacesAreApart ==
    /\ \A c \in Streams, k \in Nat : <<c, k>> \in Somewhere <=> k \in 1 .. made[c]
    /\ Distinct(backlog)
    /\ Distinct(accepted)
    /\ \A f, g \in flushing : f.conn = g.conn => f = g
    /\ Sockets(backlog) \cap (Sockets(accepted) \cup served \cup InFlushing \cup closed) = {}
    /\ Sockets(accepted) \cap (served \cup InFlushing \cup closed) = {}
    /\ served \cap (InFlushing \cup closed) = {}
    /\ InFlushing \cap closed = {}

ConnectIInv ==
    /\ ConnectTypeOK
    /\ AttemptsAreSound
    /\ PlacesAreApart
    /\ DatagramsAreKept
=============================================================================
