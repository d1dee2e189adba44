----------------------------- MODULE RouterNodes -----------------------------
(***************************************************************************)
(* The node table of one router: class router_nodes in router_impl.cpp and *)
(* the handlers of router that change it, in the order of router::update   *)
(* when it runs on one thread.  The peers at the other ends of the         *)
(* connections are endpoints or routers; what they may send is modelled by *)
(* Open, Send and Hangup.  Passwords and the assignment of ids are the     *)
(* subject of Handshake: here a pending connection announces an id.        *)
(***************************************************************************)
EXTENDS Integers, Sequences, FiniteSets

CONSTANTS
    Conns,       (* connections, also the later ones of the same peer       *)
    Ids,         (* ids of endpoints and routers                            *)
    Msgs,        (* message types that can be subscribed to                 *)
    IdOf,        (* [Conns -> Ids]: the id that the peer announces          *)
    InstOf,      (* [Conns -> Nat \ {0}]: the instance id of its process    *)
    Routers,     (* the connections whose peers are routers                 *)
    Behind,      (* <<endpoint, instance>>: those behind these routers      *)
    MaxInbox,    (* bound: messages waiting on a connection                 *)
    NoConn, NoId (* no connection, no id                                    *)

ASSUME RouterNodesAssumption ==
    /\ IdOf \in [Conns -> Ids]
    /\ InstOf \in [Conns -> Nat \ {0}]
    /\ Routers \subseteq Conns
    /\ Behind \subseteq Ids \X (Nat \ {0})
    /\ MaxInbox \in Nat \ {0}
    /\ NoConn \notin Conns /\ NoId \notin Ids

Insts == {InstOf[c] : c \in Conns} \cup {x[2] : x \in Behind}

HandshakeKinds == {"annEndptId", "announceId"}
InfoKinds == {"subscribTo", "notSubTo", "stillAlive"}

(* Messages about the endpoint src with the instance id inst.              *)
Messages ==
    [kind : HandshakeKinds \cup {"stillAlive", "byeBye"}, src : Ids, inst : Insts]
        \cup [kind : {"subscribTo", "notSubTo"}, src : Ids, inst : Insts, msg : Msgs]

VARIABLES
    peer,      (* connection: "unused", "open", "announced", "bye", "gone"  *)
    inbox,     (* connection: what has arrived and was not fetched          *)
    told,      (* <<endpoint, instance>>: what it ever subscribed to        *)
    place,     (* connection: "none", "accepted", "pending", "node",        *)
               (* "closed": where the router holds it                       *)
    annId,     (* router_pending::_id of a pending connection               *)
    maybe,     (* router_pending::_maybe_router of a pending connection     *)
    tooOld,    (* the pending connections whose _too_old has expired        *)
    nodeConn,  (* _nodes: id -> adjacent_node::_connection, or NoConn       *)
    nodeMaybe, (* _nodes: id -> adjacent_node::_maybe_router                *)
    nodeBye,   (* _nodes: id -> adjacent_node::_do_disconnect               *)
    infoIds,   (* the keys of _endpoint_infos                               *)
    inst,      (* _endpoint_infos: id -> _instance_id                       *)
    subs,      (* _endpoint_infos: id -> _subscriptions                     *)
    unsubs,    (* _endpoint_infos: id -> _unsubscriptions                   *)
    outdated,  (* the ids whose _is_outdated has expired                    *)
    idx,       (* _endpoint_idx: id -> id of the node it is reached through *)
    recent,    (* _recently_disconnected: the ids that are not expired      *)
    phase,     (* what router::update does next                             *)
    left       (* what is left of this phase: connections, or node ids      *)

peerVars == <<peer, told>>
pendVars == <<annId, maybe, tooOld>>
nodeVars == <<nodeConn, nodeMaybe, nodeBye>>
infoVars == <<infoIds, inst, subs, unsubs, outdated, idx>>
vars == <<peerVars, inbox, place, pendVars, nodeVars, infoVars, recent, phase, left>>

NodeIds == {n \in Ids : nodeConn[n] # NoConn}
Pending == {c \in Conns : place[c] = "pending"}

TypeOK ==
    /\ peer \in [Conns -> {"unused", "open", "announced", "bye", "gone"}]
    /\ inbox \in [Conns -> Seq(Messages)]
    /\ told \in [Ids \X Insts -> SUBSET Msgs]
    /\ place \in [Conns -> {"none", "accepted", "pending", "node", "closed"}]
    /\ annId \in [Conns -> Ids \cup {NoId}]
    /\ maybe \in [Conns -> BOOLEAN]
    /\ tooOld \subseteq Conns
    /\ nodeConn \in [Ids -> Conns \cup {NoConn}]
    /\ nodeMaybe \in [Ids -> BOOLEAN] /\ nodeBye \in [Ids -> BOOLEAN]
    /\ infoIds \subseteq Ids /\ outdated \subseteq Ids /\ recent \subseteq Ids
    /\ inst \in [Ids -> Insts \cup {0}]
    /\ subs \in [Ids -> SUBSET Msgs] /\ unsubs \in [Ids -> SUBSET Msgs]
    /\ idx \in [Ids -> Ids \cup {NoId}]
    /\ phase \in {"pending", "accept", "timeouts", "disconnect", "route"}
    /\ left \in (SUBSET Conns) \cup (SUBSET Ids)

Init ==
    /\ peer = [c \in Conns |-> "unused"]
    /\ inbox = [c \in Conns |-> <<>>]
    /\ told = [x \in Ids \X Insts |-> {}]
    /\ place = [c \in Conns |-> "none"]
    /\ annId = [c \in Conns |-> NoId]
    /\ maybe = [c \in Conns |-> TRUE]
    /\ tooOld = {}
    /\ nodeConn = [n \in Ids |-> NoConn]
    /\ nodeMaybe = [n \in Ids |-> TRUE] /\ nodeBye = [n \in Ids |-> FALSE]
    /\ infoIds = {} /\ outdated = {} /\ recent = {}
    /\ inst = [e \in Ids |-> 0]
    /\ subs = [e \in Ids |-> {}] /\ unsubs = [e \in Ids |-> {}]
    /\ idx = [e \in Ids |-> NoId]
    /\ phase = "pending"
    /\ left = {}

-----------------------------------------------------------------------------
(* The peers.                                                              *)

(* A peer connects.                                                        *)
Open(c) ==
    /\ peer[c] = "unused"
    /\ peer' = [peer EXCEPT ![c] = "open"]
    /\ place' = [place EXCEPT ![c] = "accepted"]
    /\ UNCHANGED <<told, inbox, pendVars, nodeVars, infoVars, recent, phase, left>>

(* The peer sends m, which arrives unless the router has closed its side.  *)
Deliver(c, m) ==
    /\ Len(inbox[c]) < MaxInbox
    /\ inbox' = IF place[c] = "closed" THEN inbox ELSE [inbox EXCEPT ![c] = Append(@, m)]

Announce(c) ==
    /\ peer[c] = "open"
    /\ peer' = [peer EXCEPT ![c] = "announced"]
    /\ Deliver(c, [kind |-> IF c \in Routers THEN "announceId" ELSE "annEndptId",
                   src |-> IdOf[c], inst |-> InstOf[c]])
    /\ UNCHANGED <<told, place, pendVars, nodeVars, infoVars, recent, phase, left>>

(* An endpoint speaks of itself.  A router forwards what the endpoints     *)
(* behind it say, in any order, and repeats what it knows of other ones.   *)
Say(c, m) ==
    LET x == <<m.src, m.inst>>
        own == IF c \in Routers THEN Behind ELSE {<<IdOf[c], InstOf[c]>>}
    IN  /\ peer[c] = "announced"
        /\ m.kind \in InfoKinds \/ (c \in Routers /\ m.kind = "byeBye")
        /\ \/ x \in own
           \/ c \in Routers /\ m.kind = "subscribTo" /\ m.msg \in told[x]
        /\ Deliver(c, m)
        /\ told' = IF x \in own /\ m.kind = "subscribTo"
                   THEN [told EXCEPT ![x] = @ \cup {m.msg}] ELSE told
        /\ UNCHANGED <<peer, place, pendVars, nodeVars, infoVars, recent, phase, left>>

(* The peer says bye before it goes.                                       *)
SayBye(c) ==
    /\ peer[c] = "announced"
    /\ peer' = [peer EXCEPT ![c] = "bye"]
    /\ Deliver(c, [kind |-> "byeBye", src |-> IdOf[c], inst |-> InstOf[c]])
    /\ UNCHANGED <<told, place, pendVars, nodeVars, infoVars, recent, phase, left>>

(* The peer dies, or its connection does: what has arrived can be fetched. *)
Hangup(c) ==
    /\ peer[c] \in {"open", "announced", "bye"}
    /\ peer' = [peer EXCEPT ![c] = "gone"]
    /\ UNCHANGED <<told, inbox, place, pendVars, nodeVars, infoVars, recent, phase, left>>

(* A mutant of TooOld: only a connection that has announced its id.        *)
TooOldWithId(c) ==
    /\ c \in Pending /\ annId[c] # NoId
    /\ tooOld' = tooOld \cup {c}
    /\ UNCHANGED <<peerVars, inbox, place, annId, maybe, nodeVars, infoVars, recent, phase, left>>

(* The timers: a connection has been pending for 30 seconds, an endpoint   *)
(* was silent for 60, an id was marked as disconnected 15 seconds ago.     *)
TooOld(c) ==
    /\ c \in Pending
    /\ tooOld' = tooOld \cup {c}
    /\ UNCHANGED <<peerVars, inbox, place, annId, maybe, nodeVars, infoVars, recent, phase, left>>

Outdated(e) ==
    /\ e \in infoIds
    /\ outdated' = outdated \cup {e}
    /\ UNCHANGED <<peerVars, inbox, place, pendVars, nodeVars, infoIds, inst, subs, unsubs, idx, recent, phase, left>>

RecentExpires(e) ==
    /\ e \in recent
    /\ recent' = recent \ {e}
    /\ UNCHANGED <<peerVars, inbox, place, pendVars, nodeVars, infoVars, phase, left>>

-----------------------------------------------------------------------------
(* handle_pending                                                          *)

(* router_pending::_handle_msg takes the first message it knows; those     *)
(* before it stay in the storage of the connection.                        *)
PendingMessage(c) ==
    /\ phase = "pending" /\ c \in left
    /\ c \notin tooOld
    /\ \E i \in 1 .. Len(inbox[c]) :
          LET m == inbox[c][i]
          IN  /\ m.kind \in HandshakeKinds
              /\ \A j \in 1 .. (i - 1) : inbox[c][j].kind \notin HandshakeKinds
              /\ inbox' = [inbox EXCEPT ![c] = SubSeq(@, 1, i - 1) \o SubSeq(@, i + 1, Len(@))]
              /\ annId' = [annId EXCEPT ![c] = m.src]
              /\ maybe' = [maybe EXCEPT ![c] = @ /\ m.kind # "annEndptId"]
    /\ UNCHANGED <<peerVars, place, tooOld, nodeVars, infoVars, recent, phase, left>>

(* The router_pending entries of cs are destroyed.                         *)
Forget(cs) ==
    /\ annId' = [c \in Conns |-> IF c \in cs THEN NoId ELSE annId[c]]
    /\ maybe' = [c \in Conns |-> c \in cs \/ maybe[c]]
    /\ tooOld' = tooOld \ cs

(* The connections cs are destroyed, with what has arrived on them.        *)
Emptied(cs) == [c \in Conns |-> IF c \in cs THEN <<>> ELSE inbox[c]]

(* A mutant of AdoptPending: the node's old connection is not cleaned up.  *)
AdoptPendingOverOld(c) ==
    LET n == annId[c]
    IN  /\ phase = "pending" /\ c \in left
        /\ c \notin tooOld /\ n # NoId
        /\ place' = [place EXCEPT ![c] = "node"]
        /\ nodeConn' = [nodeConn EXCEPT ![n] = c]
        /\ nodeMaybe' = [nodeMaybe EXCEPT ![n] = maybe[c]]
        /\ nodeBye' = [nodeBye EXCEPT ![n] = IF n \in NodeIds THEN @ ELSE FALSE]
        /\ recent' = recent \ {n}
        /\ left' = left \ {c}
        /\ Forget({c})
        /\ UNCHANGED <<peerVars, inbox, infoVars, phase>>

(* _adopt_pending: the node, a new one or the one that has the id, gets    *)
(* the connection; _do_disconnect of the node stays as it is.              *)
AdoptPending(c) ==
    LET n == annId[c]
    IN  /\ phase = "pending" /\ c \in left
        /\ c \notin tooOld /\ n # NoId
        /\ place' = [d \in Conns |-> IF d = c THEN "node"
                                     ELSE IF d = nodeConn[n] THEN "closed" ELSE place[d]]
        /\ nodeConn' = [nodeConn EXCEPT ![n] = c]
        /\ nodeMaybe' = [nodeMaybe EXCEPT ![n] = maybe[c]]
        /\ nodeBye' = [nodeBye EXCEPT ![n] = IF n \in NodeIds THEN @ ELSE FALSE]
        /\ recent' = recent \ {n}
        /\ left' = left \ {c}
        /\ Forget({c})
        /\ inbox' = Emptied({nodeConn[n]})
        /\ UNCHANGED <<peerVars, infoVars, phase>>

(* Nothing more to do for the connection in this pass.                     *)
KeepPending(c) ==
    /\ phase = "pending" /\ c \in left
    /\ c \notin tooOld /\ annId[c] = NoId
    /\ left' = left \ {c}
    /\ UNCHANGED <<peerVars, inbox, place, pendVars, nodeVars, infoVars, recent, phase>>

(* should_be_removed                                                       *)
DropPending(c) ==
    /\ phase = "pending" /\ c \in left
    /\ c \in tooOld
    /\ place' = [place EXCEPT ![c] = "closed"]
    /\ left' = left \ {c}
    /\ Forget({c})
    /\ inbox' = Emptied({c})
    /\ UNCHANGED <<peerVars, nodeVars, infoVars, recent, phase>>

PendingDone ==
    /\ phase = "pending" /\ left = {}
    /\ phase' = "accept"
    /\ UNCHANGED <<peerVars, inbox, place, pendVars, nodeVars, infoVars, recent, left>>

(* handle_accept: the acceptors hand over the connections they have.       *)
HandleAccept ==
    /\ phase = "accept"
    /\ place' = [c \in Conns |-> IF place[c] = "accepted" THEN "pending" ELSE place[c]]
    /\ phase' = "timeouts"
    /\ UNCHANGED <<peerVars, inbox, pendVars, nodeVars, infoVars, recent, left>>

(* remove_timeouted                                                        *)
RemoveTimeouted ==
    /\ phase = "timeouts"
    /\ place' = [c \in Conns |-> IF c \in Pending \cap tooOld THEN "closed" ELSE place[c]]
    /\ infoIds' = infoIds \ outdated
    /\ idx' = [e \in Ids |-> IF e \in outdated THEN NoId ELSE idx[e]]
    /\ inst' = [e \in Ids |-> IF e \in outdated THEN 0 ELSE inst[e]]
    /\ subs' = [e \in Ids |-> IF e \in outdated THEN {} ELSE subs[e]]
    /\ unsubs' = [e \in Ids |-> IF e \in outdated THEN {} ELSE unsubs[e]]
    /\ outdated' = {}
    /\ recent' = recent \cup outdated
    /\ Forget(Pending \cap tooOld)
    /\ inbox' = Emptied(Pending \cap tooOld)
    /\ phase' = "disconnect"
    /\ UNCHANGED <<peerVars, nodeVars, left>>

-----------------------------------------------------------------------------
(* remove_disconnected: the nodes that should disconnect are cleaned up,   *)
(* erased and remembered.                                                  *)
RemoveDisconnected ==
    LET gone == {n \in NodeIds : nodeBye[n]}
    IN  /\ phase = "disconnect"
        /\ place' = [c \in Conns |-> IF \E n \in gone : nodeConn[n] = c THEN "closed" ELSE place[c]]
        /\ nodeConn' = [n \in Ids |-> IF n \in gone THEN NoConn ELSE nodeConn[n]]
        /\ nodeBye' = [n \in Ids |-> n \notin gone /\ nodeBye[n]]
        /\ recent' = recent \cup gone
        /\ inbox' = Emptied({nodeConn[n] : n \in gone})
        /\ phase' = "route"
        /\ left' = NodeIds \ gone
        /\ UNCHANGED <<peerVars, pendVars, nodeMaybe, infoVars>>

(* A mutant of Kept: the instance id is not looked at.                     *)
KeptAlways(list, m) == list[m.src]

(* What is left of a list of the endpoint's subscriptions when m arrives:  *)
(* a new instance of the endpoint starts without any (assign_instance_id). *)
Kept(list, m) == IF inst[m.src] = m.inst THEN list[m.src] ELSE {}

(* router_nodes::update_endpoint_info, with the new lists s and u.         *)
UpdateEndpointInfo(n, m, s, u) ==
    /\ infoIds' = infoIds \cup {m.src}
    /\ idx' = [idx EXCEPT ![m.src] = n]
    /\ outdated' = outdated \ {m.src}
    /\ inst' = [inst EXCEPT ![m.src] = m.inst]
    /\ subs' = [subs EXCEPT ![m.src] = s]
    /\ unsubs' = [unsubs EXCEPT ![m.src] = u]

HandleStillAlive(n, m) ==
    /\ m.kind = "stillAlive"
    /\ UpdateEndpointInfo(n, m, Kept(subs, m), Kept(unsubs, m))
    /\ UNCHANGED nodeVars

(* A mutant of HandleSubscribed: the other list is not updated.            *)
HandleSubscribedOnly(n, m) ==
    /\ m.kind = "subscribTo"
    /\ UpdateEndpointInfo(n, m, Kept(subs, m) \cup {m.msg}, Kept(unsubs, m))
    /\ UNCHANGED nodeVars

(* _handle_subscribed and add_subscription                                 *)
HandleSubscribed(n, m) ==
    /\ m.kind = "subscribTo"
    /\ UpdateEndpointInfo(n, m, Kept(subs, m) \cup {m.msg}, Kept(unsubs, m) \ {m.msg})
    /\ UNCHANGED nodeVars

(* _handle_not_subscribed and remove_subscription                          *)
HandleNotSubscribed(n, m) ==
    /\ m.kind = "notSubTo"
    /\ UpdateEndpointInfo(n, m, Kept(subs, m) \ {m.msg}, Kept(unsubs, m) \cup {m.msg})
    /\ UNCHANGED nodeVars

(* _handle_bye_bye: only a node that is not a router is disconnected, but  *)
(* what is known of the endpoint that goes is forgotten in any case.       *)
HandleByeBye(n, m) ==
    /\ m.kind = "byeBye"
    /\ nodeBye' = [nodeBye EXCEPT ![n] = @ \/ ~nodeMaybe[n]]
    /\ infoIds' = infoIds \ {m.src} /\ outdated' = outdated \ {m.src}
    /\ idx' = [idx EXCEPT ![m.src] = NoId]
    /\ inst' = [inst EXCEPT ![m.src] = 0]
    /\ subs' = [subs EXCEPT ![m.src] = {}] /\ unsubs' = [unsubs EXCEPT ![m.src] = {}]
    /\ UNCHANGED <<nodeConn, nodeMaybe>>

(* Announcements have no effect once the connection is adopted.            *)
HandleAnnouncement(n, m) ==
    /\ m.kind \in HandshakeKinds
    /\ UNCHANGED <<nodeVars, infoVars>>

(* adjacent_node::route_messages, one message: the changes of the router's *)
(* own state.  Where the message goes is the subject of Routing.           *)
RouteMessage(n) ==
    LET c == nodeConn[n]
        m == Head(inbox[c])
    IN  /\ phase = "route" /\ n \in left /\ n \in NodeIds
        /\ inbox[c] # <<>>
        /\ \/ HandleStillAlive(n, m) \/ HandleSubscribed(n, m) \/ HandleNotSubscribed(n, m)
           \/ HandleByeBye(n, m) \/ HandleAnnouncement(n, m)
        /\ inbox' = [inbox EXCEPT ![c] = Tail(@)]
        /\ UNCHANGED <<peerVars, place, pendVars, recent, phase, left>>

(* The messages of the node that had arrived are routed.                   *)
NodeDone(n) ==
    /\ phase = "route" /\ n \in left
    /\ left' = left \ {n}
    /\ UNCHANGED <<peerVars, inbox, place, pendVars, nodeVars, infoVars, recent, phase>>

(* Some more rounds of routing (do_work in a loop), then the next update.  *)
RouteAgain ==
    /\ phase = "route" /\ left = {}
    /\ left' = NodeIds
    /\ UNCHANGED <<peerVars, inbox, place, pendVars, nodeVars, infoVars, recent, phase>>

NextUpdate ==
    /\ phase = "route" /\ left = {}
    /\ phase' = "pending"
    /\ left' = Pending
    /\ UNCHANGED <<peerVars, inbox, place, pendVars, nodeVars, infoVars, recent>>

PendingPhase == \E c \in Conns :
    PendingMessage(c) \/ AdoptPending(c) \/ KeepPending(c) \/ DropPending(c)
RoutePhase == \E n \in Ids : RouteMessage(n) \/ NodeDone(n)

Peer(c) ==
    \/ Open(c) \/ Announce(c) \/ (\E m \in Messages : Say(c, m))
    \/ SayBye(c) \/ Hangup(c)

Timers == (\E c \in Conns : TooOld(c)) \/ (\E e \in Ids : Outdated(e) \/ RecentExpires(e))

Router ==
    \/ PendingPhase \/ PendingDone \/ HandleAccept \/ RemoveTimeouted
    \/ RemoveDisconnected \/ RoutePhase \/ RouteAgain \/ NextUpdate

Next == (\E c \in Conns : Peer(c)) \/ Timers \/ Router

Spec == Init /\ [][Next]_vars

(* update is called over and over, and fetches what has arrived; a pending *)
(* connection gets too old.                                                *)
Fairness ==
    /\ WF_vars(PendingPhase) /\ WF_vars(PendingDone) /\ WF_vars(HandleAccept)
    /\ WF_vars(RemoveTimeouted) /\ WF_vars(RemoveDisconnected)
    /\ SF_vars(NextUpdate)
    /\ \A n \in Ids : WF_vars(NodeDone(n)) /\ SF_vars(RouteMessage(n))
    /\ \A c \in Conns : WF_vars(TooOld(c))

FairSpec == Spec /\ Fairness

-----------------------------------------------------------------------------

(* Each connection is held in one place: by one node, or by one pending    *)
(* entry, and never by a node and the pending list together.               *)
OnePlace ==
    /\ \A n \in NodeIds : place[nodeConn[n]] = "node"
    /\ \A n, k \in NodeIds : nodeConn[n] = nodeConn[k] => n = k
    /\ \A c \in Conns : place[c] = "node" => \E n \in Ids : nodeConn[n] = c

(* A node holds a connection whose peer has announced the node's id.       *)
NodeIsItsPeer == \A n \in NodeIds : IdOf[nodeConn[n]] = n

(* A message type is never subscribed and unsubscribed, the instance of an *)
(* endpoint that is in the index is known, and nothing is known of one     *)
(* that is not: the answers to qrySubscrb do not contradict each other.    *)
InfoIsConsistent ==
    \A e \in Ids :
        /\ subs[e] \cap unsubs[e] = {}
        /\ e \in infoIds <=> idx[e] # NoId
        /\ e \in infoIds => inst[e] # 0
        /\ e \notin infoIds => inst[e] = 0 /\ subs[e] = {} /\ unsubs[e] = {}

(* No subscription of an earlier instance of an endpoint is passed on as   *)
(* one of its present instance, also when it was restarted on another      *)
(* connection and other routers repeat what the earlier instance said.     *)
SubscriptionsOfThisInstance ==
    \A e \in infoIds : subs[e] \subseteq told[<<e, inst[e]>>]

(* What lies behind these invariants.  What has arrived on a connection is *)
(* true: its peer announced its own id, and the endpoints that it says are *)
(* subscribed did subscribe.                                               *)
TrueMessages(c) ==
    {m \in Messages :
        /\ m.kind \in HandshakeKinds => m.src = IdOf[c]
        /\ m.kind = "subscribTo" => m.msg \in told[<<m.src, m.inst>>]}

InboxesAreTrue == \A c \in Conns : inbox[c] \in Seq(TrueMessages(c))
PendingIsItsPeer == \A c \in Conns : annId[c] \in {NoId, IdOf[c]}
LeftIsPending == phase = "pending" => left \subseteq Pending
UnusedIsNowhere == \A c \in Conns : peer[c] = "unused" => place[c] = "none"

(* The inductive invariant of the node table.                              *)
IInv ==
    /\ TypeOK
    /\ UnusedIsNowhere /\ LeftIsPending /\ OnePlace
    /\ InboxesAreTrue /\ PendingIsItsPeer /\ NodeIsItsPeer
    /\ InfoIsConsistent /\ SubscriptionsOfThisInstance

(* No connection stays in the pending list for ever, and none comes back   *)
(* to it (router_impl.cpp, _do_handle_pending).                            *)
PendingSettles == <>[](\A c \in Conns : place[c] # "pending")
=============================================================================
