------------------------------ MODULE Resources ------------------------------
(***************************************************************************)
(* A resource that is streamed from one of several servers to a consumer:  *)
(* class resource_data_consumer_node of utility/resource_transfer_impl.cpp *)
(* with the resource_manipulator and the resource_server of                *)
(* services/resource_transfer_impl.cpp, over the transfer of Blobs.  Each  *)
(* content request is a blob of its own; all of them write to the one      *)
(* target I/O object of the stream.                                        *)
(***************************************************************************)
EXTENDS Blobs

CONSTANTS
    Server,
    consumer,  (* the Target                                                 *)
    stream,    (* the Sink                                                   *)
    Setups     (* a set of records: which servers say that they have the     *)
               (* resource, which of them can open it, and bounds: how often *)
               (* servers fall silent, come and go, and how many messages    *)
               (* are lost                                                   *)

SetupType == [has : SUBSET Server, opens : SUBSET Server,
              silences : Nat, leaves : Nat, drops : Nat]

(* A blob is expected when its content is asked for, and not before.       *)
ASSUME ResourcesAssumption ==
    /\ Target = {consumer} /\ Sink = {stream} /\ None \notin Server
    /\ Setups \subseteq SetupType /\ \A p \in Scenarios : ~p.expected

VARIABLES
    known,    (* _server_endpoints of the resource manipulator               *)
    current,  (* _current_servers of the consumer node                       *)
    open,     (* the request is in _streamed_resources                       *)
    source,   (* its source_server_id                                        *)
    serving,  (* the servers that are subscribed to content requests         *)
    askedOf,  (* blob: the server its content request was sent to, or None   *)
    mail,     (* messages on the way between the consumer and the servers    *)
    unbound,  (* history: the request has lost a server it was bound to      *)
    setup

consumerVars == <<known, current, open, source>>
resourceVars == <<consumerVars, serving, askedOf, mail, unbound, setup>>
allVars == <<vars, resourceVars>>

Mail == [kind : {"subscribTo", "unsubFrom", "qryResurce", "hasResurce", "hasNotRsrc"}, server : Server]
            \cup [kind : {"getContent", "notFound"}, server : Server, blob : Blob]

ResourcesTypeOK ==
    /\ TypeOK
    /\ known \subseteq Server /\ current \subseteq Server /\ serving \subseteq Server
    /\ open \in BOOLEAN /\ source \in Server \cup {None}
    /\ askedOf \in [Blob -> Server \cup {None}]
    /\ mail \subseteq Mail
    /\ unbound \in BOOLEAN
    /\ setup \in SetupType

ResourcesInit ==
    /\ Init
    /\ setup \in Setups
    /\ known = {} /\ current = {} /\ serving = Server
    /\ open = TRUE /\ source = None
    /\ askedOf = [b \in Blob |-> None]
    /\ mail = {} /\ unbound = FALSE

Msg(kind, s) == [kind |-> kind, server |-> s]
BlobMsg(kind, b) == [kind |-> kind, server |-> askedOf[b], blob |-> b]
Take(m, sent) == m \in mail /\ mail' = (mail \ {m}) \cup sent

-----------------------------------------------------------------------------
(* The servers come, go, and answer.                                       *)

(* A server says that it is subscribed, by itself or when it is asked.     *)
Announce(s) ==
    /\ s \in serving
    /\ mail' = mail \cup {Msg("subscribTo", s)}
    /\ UNCHANGED <<vars, consumerVars, serving, askedOf, setup, unbound>>

Leave(s) ==
    /\ s \in serving /\ setup.leaves > 0
    /\ setup' = [setup EXCEPT !.leaves = @ - 1]
    /\ serving' = serving \ {s}
    /\ mail' = mail \cup {Msg("unsubFrom", s)}
    /\ UNCHANGED <<vars, consumerVars, askedOf, unbound>>

Return(s) ==
    /\ s \notin serving /\ serving' = serving \cup {s}
    /\ UNCHANGED <<vars, consumerVars, askedOf, mail, setup, unbound>>

HandleQuery(s) ==
    /\ Take(Msg("qryResurce", s),
            IF s \notin serving THEN {}
            ELSE {Msg(IF s \in setup.has THEN "hasResurce" ELSE "hasNotRsrc", s)})
    /\ UNCHANGED <<vars, consumerVars, serving, askedOf, setup, unbound>>

(* The blob of a request that is not served is as good as gone.            *)
HandleContentRequest(b) ==
    LET s == askedOf[b]
    IN  /\ BlobMsg("getContent", b) \in mail
        /\ IF s \in serving \cap setup.opens
           THEN /\ Push(b) /\ mail' = mail \ {BlobMsg("getContent", b)}
           ELSE /\ outgoing' = [outgoing EXCEPT ![b] = "gone"]
                /\ mail' = (mail \ {BlobMsg("getContent", b)})
                        \cup (IF s \in serving THEN {BlobMsg("notFound", b)} ELSE {})
                /\ UNCHANGED <<todo, targetVars, netVars, plan>>
    /\ UNCHANGED <<consumerVars, serving, askedOf, setup, unbound>>

-----------------------------------------------------------------------------
(* The consumer keeps track of the servers.                                *)

Unbind(s) ==
    /\ source' = IF source = s THEN None ELSE source
    /\ unbound' = (unbound \/ source = s)

(* consumer_node::_handle_server_lost                                      *)
ServerLost(s) == current' = current \ {s} /\ Unbind(s)

(* resource_manipulator_impl::_handle_subscribed and, when it is a new one,*)
(* consumer_node::_handle_server_appeared.                                 *)
HandleSubscribed(s) ==
    /\ Take(Msg("subscribTo", s), {})
    /\ known' = known \cup {s}
    /\ current' = IF s \in known THEN current ELSE current \cup {s}
    /\ UNCHANGED <<vars, open, source, serving, askedOf, setup, unbound>>

(* resource_manipulator_impl::_remove_server                               *)
HandleUnsubscribed(s) ==
    /\ Take(Msg("unsubFrom", s), {})
    /\ known' = known \ {s}
    /\ IF s \in known THEN ServerLost(s) ELSE UNCHANGED <<current, source, unbound>>
    /\ UNCHANGED <<vars, open, serving, askedOf, setup>>

(* Nothing was heard of the server for a minute, and a ping has timed out. *)
PingTimeout(s) ==
    /\ s \in current /\ setup.silences > 0
    /\ setup' = [setup EXCEPT !.silences = @ - 1]
    /\ ServerLost(s)
    /\ UNCHANGED <<vars, known, open, serving, askedOf, mail>>

-----------------------------------------------------------------------------
(* The consumer fetches the resource.                                      *)

(* consumer_node::update_and_process_all: servers that have not been heard *)
(* of for long are left out.                                               *)
Search ==
    /\ open /\ source = None
    /\ \E quiet \in SUBSET current :
        /\ quiet # {} => setup.silences > 0
        /\ mail' = mail \cup {Msg("qryResurce", s) : s \in current \ quiet}
    /\ UNCHANGED <<vars, consumerVars, serving, askedOf, setup, unbound>>

(* A mutant of Bind: every server that has the resource is asked for it.   *)
BindAlways == open

(* The request is looked for and no server was found yet.                  *)
Bind == open /\ source = None

(* The blobs that are left bound the content requests.                     *)
BindTo(s, b) == source' = s /\ askedOf' = [askedOf EXCEPT ![b] = s]

(* consumer_node::_handle_resource_found and query_resource_content.       *)
HandleHasResource(s) ==
    /\ Msg("hasResurce", s) \in mail
    /\ IF Bind
       THEN LET b == CHOOSE x \in Blob : askedOf[x] = None
            IN  /\ \E x \in Blob : askedOf[x] = None
                /\ BindTo(s, b)
                /\ incoming' = [incoming EXCEPT ![consumer][b] = Expected]
                /\ mail' = (mail \ {Msg("hasResurce", s)})
                        \cup {[kind |-> "getContent", server |-> s, blob |-> b]}
       ELSE /\ mail' = mail \ {Msg("hasResurce", s)}
            /\ UNCHANGED <<askedOf, incoming, source>>
    /\ UNCHANGED <<senderVars, sink, delivered, quit, netVars, plan,
                   known, current, open, serving, setup, unbound>>

(* consumer_node::_handle_missing                                          *)
HandleHasNotResource(s) ==
    /\ Take(Msg("hasNotRsrc", s), {})
    /\ Unbind(s)
    /\ UNCHANGED <<vars, known, current, open, serving, askedOf, setup>>

(* consumer_node::_handle_stream_done and _handle_stream_cancelled: the    *)
(* request of the stream is erased.                                        *)
Close(b) == open' = (open /\ ~incoming[consumer][b].expected)

HandleNotFound(b) ==
    /\ Take(BlobMsg("notFound", b), {})
    /\ IF incoming[consumer][b] = None THEN UNCHANGED <<vars, open>>
       ELSE Close(b) /\ CancelIncoming(consumer, b) /\ UNCHANGED plan
    /\ UNCHANGED <<known, current, source, serving, askedOf, setup, unbound>>

Finish(b) ==
    /\ HandleComplete(consumer, b) /\ Close(b)
    /\ UNCHANGED <<known, current, source, serving, askedOf, mail, setup, unbound>>

GiveUp(b) ==
    /\ TimeOut(consumer, b) /\ Close(b)
    /\ UNCHANGED <<known, current, source, serving, askedOf, mail, setup, unbound>>

(* The transfer of the blobs.                                              *)
Transfer ==
    /\ \/ \E b \in Blob : SendFragment(b) \/ LingerOut(b) \/ Expire(b) \/ AskForGap(consumer, b)
       \/ \E m \in fragments : ProcessIncoming(m)
       \/ \E r \in requests : ProcessResend(r)
       \/ Lose
    /\ UNCHANGED resourceVars

(* The request for a content, or the answer to it, is lost.                *)
LoseMail(b) ==
    /\ setup.drops > 0 /\ setup' = [setup EXCEPT !.drops = @ - 1]
    /\ \/ /\ Take(BlobMsg("getContent", b), {})
          /\ outgoing' = [outgoing EXCEPT ![b] = "gone"]
       \/ Take(BlobMsg("notFound", b), {}) /\ UNCHANGED outgoing
    /\ UNCHANGED <<todo, targetVars, netVars, plan, consumerVars, serving, askedOf, unbound>>

ResourcesNext ==
    \/ \E s \in Server :
        \/ Announce(s) \/ Leave(s) \/ Return(s) \/ HandleQuery(s)
        \/ HandleSubscribed(s) \/ HandleUnsubscribed(s) \/ PingTimeout(s)
        \/ HandleHasResource(s) \/ HandleHasNotResource(s)
    \/ \E b \in Blob :
        \/ HandleContentRequest(b) \/ HandleNotFound(b) \/ Finish(b) \/ GiveUp(b) \/ LoseMail(b)
    \/ Search \/ Transfer

ResourcesSpec == ResourcesInit /\ [][ResourcesNext]_allVars

(* Both sides are polled; a server that is there answers the search for    *)
(* subscribers every five seconds; the transfer is as fair as in Blobs.    *)
FairResourcesSpec ==
    /\ ResourcesSpec
    /\ WF_allVars(UNCHANGED setup /\ Search)
    /\ \A s \in Server :
        /\ WF_allVars(Announce(s)) /\ WF_allVars(HandleQuery(s))
        /\ WF_allVars(HandleSubscribed(s)) /\ WF_allVars(HandleUnsubscribed(s))
        /\ WF_allVars(HandleHasResource(s)) /\ WF_allVars(HandleHasNotResource(s))
    /\ \A b \in Blob :
        /\ WF_allVars(HandleContentRequest(b)) /\ WF_allVars(HandleNotFound(b))
        /\ WF_allVars(Finish(b)) /\ WF_allVars(UNCHANGED plan /\ GiveUp(b))
        /\ WF_allVars(SendFragment(b) /\ UNCHANGED resourceVars)
        /\ WF_allVars(UNCHANGED plan /\ LingerOut(b) /\ UNCHANGED resourceVars)
        /\ WF_allVars(UNCHANGED plan /\ AskForGap(consumer, b) /\ UNCHANGED resourceVars)
    /\ \A o \in Offset :
        WF_allVars(\E m \in fragments : m.bgn = o /\ ProcessIncoming(m) /\ UNCHANGED resourceVars)
    /\ WF_allVars(\E r \in requests : ProcessResend(r) /\ UNCHANGED resourceVars)

-----------------------------------------------------------------------------
(* A request that is bound to a server awaits a blob from it: nobody would *)
(* look for another server, or end the request, if it did not              *)
(* (_handle_resource_found, _handle_stream_done, _handle_stream_cancelled, *)
(* blob_manipulator::cancel_incoming).                                     *)
BoundIsExpected ==
    open /\ source # None =>
        \E b \in Blob : /\ askedOf[b] = source
                        /\ incoming[consumer][b] # None /\ incoming[consumer][b].expected

(* A stream whose request has not lost its server ends once, and is whole  *)
(* when it is finished, whichever servers answer and however late          *)
(* (_handle_resource_found and the shared target I/O object).              *)
UndisturbedStream == ~unbound => StreamEndsOnce /\ StreamIsWhole

(* A request keeps its server and its stream, while it is open and after   *)
(* (resource_transfer.cpp, _handle_resource_found).                        *)
RequestKeepsItsServer == BoundIsExpected /\ UndisturbedStream

(* A request for a resource that a server has is finished or cancelled,    *)
(* although servers come and go, messages are lost, and a server that said *)
(* it has the resource cannot open it.                                     *)
RequestEnds == open ~> ~open

-----------------------------------------------------------------------------
(* What lies behind RequestKeepsItsServer: a blob is expected when it was  *)
(* asked for, and a request that has not lost its server has asked once.   *)
AskedIsExpected == \A b \in Blob : Awaits(consumer, b) => askedOf[b] # None
OneRequest ==
    ~unbound =>
        /\ source = None => \A b \in Blob : askedOf[b] = None
        /\ \A b, c \in Blob : askedOf[b] # None /\ askedOf[c] # None => b = c
        /\ (\A b \in Blob : askedOf[b] = None) =>
                sink[consumer][stream] = [at |-> 0, kept |-> {}, finished |-> 0, cancelled |-> 0]
        /\ OneUser

ResourcesInv ==
    /\ ResourcesTypeOK
    /\ AskedIsExpected /\ BoundIsExpected
    /\ BlocksAreWhole
    /\ OneRequest /\ UndisturbedStream
=============================================================================
