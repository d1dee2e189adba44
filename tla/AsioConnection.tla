--------------------------- MODULE AsioConnection ---------------------------
(***************************************************************************)
(* The connections over a network in asio_impl.cpp, with the serialized    *)
(* storages of message_impl.cpp: messages are queued, packed into blocks   *)
(* and written asynchronously, one block at a time; the queue is cleaned   *)
(* up when the write completes.  With one peer this is a stream connection *)
(* that a connector re-makes when it is lost, with more it is the socket   *)
(* of a datagram acceptor that serves a queue for each peer.               *)
(***************************************************************************)
EXTENDS Integers, Sequences, FiniteSets

CONSTANTS
    Msgs,     (* messages; each is sent at most once                      *)
    Size,     (* [Msgs -> Nat \ {0}]: in a block, with its length         *)
    Priority, (* [Msgs -> 0 .. Critical]                                  *)
    Block,    (* the size of a block                                      *)
    MaxBits,  (* the number of bits in message_pack_info::bit_set         *)
    Groups,   (* the numbers of peers that a socket may have              *)
    MaxSent,  (* [Groups -> Nat], bound: how many messages are sent       *)
    MaxLost   (* bound: how often a stream connection is lost             *)

Idle == 0
Critical == 4

ASSUME AsioConnectionAssumption ==
    /\ Size \in [Msgs -> Nat \ {0}]
    /\ Priority \in [Msgs -> Idle .. Critical]
    /\ Block \in Nat \ {0} /\ MaxBits \in Nat \ {0}
    /\ Groups \subseteq Nat \ {0}
    /\ MaxSent \in [Groups -> Nat] /\ MaxLost \in Nat

Peers == UNION {1 .. n : n \in Groups}
None == [to |-> 0, bits |-> {}, msgs |-> <<>>, whole |-> FALSE]

VARIABLES
    n,         (* the number of peers                                      *)
    log,       (* peer: the messages that send accepted                    *)
    outgoing,  (* peer: connection_outgoing_messages                       *)
    index,     (* asio_datagram_server_connection::_index                  *)
    sending,   (* is_sending                                               *)
    inflight,  (* the block that is being written, or None: the peer, the  *)
               (* packed positions, what is in the buffer, and if all of   *)
               (* it was handed to the network                             *)
    countdown, (* send_countdown                                           *)
    prevCount, (* prev_packed_count                                        *)
    open,      (* the socket is open                                       *)
    wire,      (* peer: the blocks in the network                          *)
    incoming,  (* peer: the messages of the blocks it received (_packed)   *)
    unpacked,  (* peer: its messages that were not handled (_unpacked)     *)
    accepting, (* peer: its handler takes the messages                     *)
    delivered, (* peer: the messages it handled, over this connection      *)
    dropped,   (* peer: the messages that were lost                        *)
    lost       (* how often the connection was lost                        *)

senderVars == <<index, sending, inflight, countdown, prevCount>>
receiverVars == <<incoming, unpacked, accepting, delivered>>
vars == <<n, log, outgoing, senderVars, open, wire, receiverVars, dropped, lost>>

In(s) == {s[i] : i \in 1 .. Len(s)}
Stream == n = 1
Fits(m) == Size[m] <= Block

TypeOK ==
    /\ n \in Groups
    /\ log \in [Peers -> Seq(Msgs)] /\ outgoing \in [Peers -> Seq(Msgs)]
    /\ index \in 0 .. n /\ sending \in BOOLEAN
    /\ inflight \in [to : 0 .. n, bits : SUBSET (1 .. MaxBits), msgs : Seq(Msgs), whole : BOOLEAN]
    /\ sending <=> inflight.to # 0
    /\ countdown \in 0 .. Critical /\ prevCount \in 0 .. MaxBits
    /\ open \in BOOLEAN
    /\ wire \in [Peers -> Seq(Seq(Msgs))] /\ incoming \in [Peers -> Seq(Msgs)]
    /\ unpacked \in [Peers -> Seq(Msgs)] /\ accepting \in [Peers -> BOOLEAN]
    /\ delivered \in [Peers -> Seq(Msgs)] /\ dropped \in [Peers -> SUBSET Msgs]
    /\ lost \in 0 .. MaxLost

Init ==
    /\ n \in Groups
    /\ log = [p \in Peers |-> <<>>] /\ outgoing = [p \in Peers |-> <<>>]
    /\ index = 0 /\ sending = FALSE /\ inflight = None
    /\ countdown = 0 /\ prevCount = 0
    /\ open = TRUE
    /\ wire = [p \in Peers |-> <<>>] /\ incoming = [p \in Peers |-> <<>>]
    /\ unpacked = [p \in Peers |-> <<>>] /\ accepting = [p \in Peers |-> FALSE]
    /\ delivered = [p \in Peers |-> <<>>] /\ dropped = [p \in Peers |-> {}]
    /\ lost = 0

-----------------------------------------------------------------------------
(* The queue of messages and the blocks.                                   *)

(* How many messages of the queue are tried: there are bits for these.     *)
Tried(queue) == IF Len(queue) < MaxBits THEN Len(queue) ELSE MaxBits

(* The room that is left in the block after each of the tried messages;    *)
(* one that does not fit is skipped.                                       *)
Room(queue) ==
    LET room[i \in 0 .. Tried(queue)] ==
            IF i = 0 THEN Block
            ELSE IF Size[queue[i]] <= room[i - 1] THEN room[i - 1] - Size[queue[i]]
            ELSE room[i - 1]
    IN  room

(* A mutant of PackInto: the first message that does not fit ends it.      *)
PackIntoPrefix(queue) ==
    {i \in 1 .. Tried(queue) : \A j \in 1 .. i : Size[queue[j]] <= Room(queue)[j - 1]}

(* The positions of the queue that are packed into a block.                *)
PackInto(queue) == {i \in 1 .. Tried(queue) : Size[queue[i]] <= Room(queue)[i - 1]}

(* What is at the positions bits of the queue, in the order of the queue.  *)
Picked(queue, bits) ==
    LET pick[i \in 0 .. Len(queue)] ==
            IF i = 0 THEN <<>>
            ELSE IF i \in bits THEN Append(pick[i - 1], queue[i])
            ELSE pick[i - 1]
    IN  pick[Len(queue)]

(* A mutant of Cleanup: all that is before a sent message goes with it.    *)
CleanupUpTo(queue, bits) ==
    Picked(queue, {i \in 1 .. Len(queue) : \A j \in bits : j < i})

Cleanup(queue, bits) == Picked(queue, (1 .. Len(queue)) \ bits)

(* enqueue: the message, which is serialized into a buffer as large as a   *)
(* block, goes to the end of the queue.                                    *)
Enqueue(queue, m) == Append(queue, m)

(* send                                                                    *)
Send(p, m) ==
    /\ p <= n
    /\ \A q \in Peers : m \notin In(log[q])
    /\ Cardinality({k \in Msgs : \E q \in Peers : k \in In(log[q])}) < MaxSent[n]
    /\ log' = [log EXCEPT ![p] = Append(@, m)]
    /\ outgoing' = [outgoing EXCEPT ![p] = Enqueue(@, m)]
    /\ UNCHANGED <<n, senderVars, open, wire, receiverVars, dropped, lost>>

-----------------------------------------------------------------------------
(* Sending.                                                                *)

(* pack_into of a group with the given queues: it goes through the peers   *)
(* from _index on, to the first one with something to pack.                *)
Turn(p) == IF p > index THEN p - index ELSE p - index + n
GroupPackInto(queues) ==
    LET some == {x \in {[to |-> p, bits |-> PackInto(queues[p])] : p \in 1 .. n} : x.bits # {}}
    IN  IF some = {} THEN [to |-> 0, bits |-> {}]
        ELSE CHOOSE x \in some : \A y \in some : Turn(x.to) <= Turn(y.to)

(* The highest priority of the messages ms, as message_pack_info has it.   *)
MaxPriority(ms) ==
    CHOOSE x \in Idle .. Critical :
        /\ x \in {Priority[m] : m \in ms} \cup {Idle}
        /\ \A m \in ms : Priority[m] <= x

(* start_send_if_needed: the queues are packed anew; the block is sent if  *)
(* the countdown has come to the highest priority in it, or it is full.    *)
StartSendIfNeeded(queues, force) ==
    \E packed \in {GroupPackInto(queues)} :
        LET p == packed.to
            count == Cardinality(packed.bits)
            left == countdown - (IF count = prevCount THEN 1 ELSE 0)
            msgs == IF p = 0 THEN <<>> ELSE Picked(queues[p], packed.bits)
        IN  /\ index' = IF p = 0 \/ Stream THEN index ELSE p
            /\ IF force \/ count > 0
               THEN IF left <= MaxPriority(In(msgs)) \/ count >= MaxBits
                    THEN /\ prevCount' = 0 /\ countdown' = Critical
                         /\ sending' = TRUE
                         /\ inflight' = [to |-> p, bits |-> packed.bits, msgs |-> msgs,
                                         whole |-> FALSE]
                    ELSE /\ prevCount' = count /\ countdown' = left
                         /\ sending' = FALSE /\ inflight' = None
               ELSE /\ sending' = FALSE /\ inflight' = None
                    /\ UNCHANGED <<countdown, prevCount>>

(* start_send, called by update                                            *)
Update ==
    /\ open /\ ~sending
    /\ StartSendIfNeeded(outgoing, FALSE)
    /\ UNCHANGED <<n, log, outgoing, open, wire, receiverVars, dropped, lost>>

(* The whole block was handed to the network.                              *)
Transmit ==
    /\ open /\ sending /\ ~inflight.whole
    /\ inflight' = [inflight EXCEPT !.whole = TRUE]
    /\ wire' = [wire EXCEPT ![inflight.to] = Append(@, inflight.msgs)]
    /\ UNCHANGED <<n, log, outgoing, index, sending, countdown, prevCount,
                   open, receiverVars, dropped, lost>>

(* A mutant of HandleSent: the next block is packed before the clean-up.   *)
HandleSentPackFirst ==
    /\ sending /\ inflight.whole
    /\ outgoing' = [outgoing EXCEPT ![inflight.to] = Cleanup(@, inflight.bits)]
    /\ StartSendIfNeeded(outgoing, TRUE)
    /\ UNCHANGED <<n, log, open, wire, receiverVars, dropped, lost>>

(* handle_sent: the messages of the block leave the queue of the peer that *)
(* it was sent to, and the next block is packed.                           *)
HandleSent ==
    /\ sending /\ inflight.whole
    /\ outgoing' = [outgoing EXCEPT ![inflight.to] = Cleanup(@, inflight.bits)]
    /\ StartSendIfNeeded(outgoing', TRUE)
    /\ UNCHANGED <<n, log, open, wire, receiverVars, dropped, lost>>

(* handle_send_error: the block was not written, its messages stay queued. *)
HandleSendError ==
    /\ sending /\ ~inflight.whole /\ ~open
    /\ sending' = FALSE /\ inflight' = None
    /\ UNCHANGED <<n, log, outgoing, index, countdown, prevCount, open, wire,
                   receiverVars, dropped, lost>>

-----------------------------------------------------------------------------
(* The network.                                                            *)

(* A block arrives whole and is stored (handle_received); datagrams may    *)
(* overtake each other.                                                    *)
HandleReceived(p) ==
    /\ \E i \in 1 .. Len(wire[p]) :
          /\ Stream => i = 1
          /\ incoming' = [incoming EXCEPT ![p] = @ \o wire[p][i]]
          /\ wire' = [wire EXCEPT ![p] = SubSeq(@, 1, i - 1) \o SubSeq(@, i + 1, Len(@))]
    /\ UNCHANGED <<n, log, outgoing, senderVars, open, unpacked, accepting,
                   delivered, dropped, lost>>

(* A datagram is lost.                                                     *)
LoseDatagram(p) ==
    /\ ~Stream /\ wire[p] # <<>>
    /\ dropped' = [dropped EXCEPT ![p] = @ \cup In(Head(wire[p]))]
    /\ wire' = [wire EXCEPT ![p] = Tail(@)]
    /\ UNCHANGED <<n, log, outgoing, senderVars, open, receiverVars, lost>>

(* A stream is lost.  Of the next block on it, which may be the one that   *)
(* is being written, the peer receives a part, and stores it too           *)
(* (handle_receive_error); the other blocks are lost.                      *)
LoseConnection ==
    LET next == IF wire[1] # <<>> THEN Head(wire[1])
                ELSE IF sending /\ ~inflight.whole THEN inflight.msgs ELSE <<>>
    IN  /\ Stream /\ open /\ lost < MaxLost
        /\ open' = FALSE
        /\ lost' = lost + 1
        /\ wire' = [wire EXCEPT ![1] = <<>>]
        /\ \E l \in 0 .. Len(next) :
              incoming' = [incoming EXCEPT ![1] = @ \o SubSeq(next, 1, l)]
        /\ UNCHANGED <<n, log, outgoing, senderVars, unpacked, accepting,
                       delivered, dropped>>

(* The connector connects again, and keeps its queue; the acceptor makes a *)
(* new connection.  The handlers of the lost one have run.                 *)
Reconnect ==
    /\ ~open /\ ~sending
    /\ open' = TRUE
    /\ dropped' = [dropped EXCEPT ![1] =
                      @ \cup (In(log[1]) \ (In(outgoing[1]) \cup In(delivered[1])))]
    /\ incoming' = [incoming EXCEPT ![1] = <<>>]
    /\ unpacked' = [unpacked EXCEPT ![1] = <<>>]
    /\ accepting' = [accepting EXCEPT ![1] = FALSE]
    /\ delivered' = [delivered EXCEPT ![1] = <<>>]
    /\ UNCHANGED <<n, log, outgoing, senderVars, wire, lost>>

-----------------------------------------------------------------------------
(* The peer.                                                               *)

(* The peer's handler begins to take messages: a router that has adopted   *)
(* the connection.                                                         *)
Adopt(p) ==
    /\ p <= n /\ ~accepting[p]
    /\ accepting' = [accepting EXCEPT ![p] = TRUE]
    /\ UNCHANGED <<n, log, outgoing, senderVars, open, wire, incoming, unpacked,
                   delivered, dropped, lost>>

(* fetch_messages: if blocks have arrived they are unpacked, and then the  *)
(* handler is offered everything that is unpacked.                         *)
FetchMessages(p) ==
    LET all == unpacked[p] \o incoming[p]
    IN  /\ incoming[p] # <<>>
        /\ incoming' = [incoming EXCEPT ![p] = <<>>]
        /\ unpacked' = [unpacked EXCEPT ![p] = IF accepting[p] THEN <<>> ELSE all]
        /\ delivered' = [delivered EXCEPT ![p] = IF accepting[p] THEN @ \o all ELSE @]
        /\ UNCHANGED <<n, log, outgoing, senderVars, open, wire, accepting, dropped, lost>>

Next ==
    \/ \E p \in Peers :
          \/ \E m \in Msgs : Send(p, m)
          \/ HandleReceived(p) \/ LoseDatagram(p) \/ Adopt(p) \/ FetchMessages(p)
    \/ Update \/ Transmit \/ HandleSent \/ HandleSendError
    \/ LoseConnection \/ Reconnect

Spec == Init /\ [][Next]_vars

(* update and fetch_messages are called over and over; the network goes on *)
(* while there is a connection, and a lost one is made again.              *)
FairSpec ==
    /\ Spec
    /\ WF_vars(Update) /\ WF_vars(Transmit) /\ WF_vars(HandleSent)
    /\ WF_vars(HandleSendError) /\ WF_vars(Reconnect)
    /\ \A p \in Peers : WF_vars(HandleReceived(p)) /\ WF_vars(FetchMessages(p))

-----------------------------------------------------------------------------

(* The positions that handle_sent will clean up still hold what is in the  *)
(* buffer that is being written, whatever was queued in the meantime.      *)
InFlightIsQueued ==
    sending => /\ inflight.bits \subseteq 1 .. Len(outgoing[inflight.to])
               /\ inflight.msgs = Picked(outgoing[inflight.to], inflight.bits)

OnWire(blocks) == UNION {In(blocks[i]) : i \in 1 .. Len(blocks)}
InTransit(p) == OnWire(wire[p]) \cup In(incoming[p]) \cup In(unpacked[p])

(* A message leaves the queue only on its way to the peer: on a connection *)
(* that is not lost, each one is queued, under way or handled.             *)
NothingIsForgotten ==
    lost = 0 => \A p \in 1 .. n : \A m \in In(log[p]) :
        m \in In(outgoing[p]) \cup InTransit(p) \cup In(delivered[p]) \cup dropped[p]

(* Each queued message that fits into a block is handled in the end, is    *)
(* lost with the connection, or waits for the peer to take it.             *)
MessagesArrive ==
    \A m \in Msgs : Fits(m) =>
        (Stream /\ m \in In(outgoing[1]))
            ~> (m \in In(delivered[1]) \cup In(unpacked[1]) \cup dropped[1])

(* A stream connection is a channel.                                       *)
Waiting == (In(outgoing[1]) \cup InTransit(1)) \ In(delivered[1])
Ch == INSTANCE Channel WITH
    log <- IF Stream THEN log[1] ELSE <<>>,
    todo <- IF Stream THEN Waiting ELSE {},
    got <- IF Stream THEN delivered[1] ELSE <<>>
IsChannel == Ch!Spec
=============================================================================
