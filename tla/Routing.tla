------------------------------- MODULE Routing -------------------------------
(***************************************************************************)
(* How messages travel through a network of routers: the routing half of   *)
(* class router in router_impl.cpp.  Every router but one has a parent; an *)
(* endpoint is connected to one router and may come back at another one.   *)
(* The handshakes of endpoints and the bookkeeping of connections are the  *)
(* subject of Handshake and RouterNodes, the transport that of             *)
(* AsioConnection: here a connection is a queue, and what is sent to an    *)
(* endpoint arrives unless the connection is gone.                         *)
(***************************************************************************)
EXTENDS Naturals, Sequences, FiniteSets

CONSTANTS
    Routers, Endpoints, (* their ids                                         *)
    Parent,   (* [Routers -> Routers \cup {None}]                            *)
    Homes,    (* a set of [Endpoints -> Routers]: where they are at first    *)
    Data,     (* messages; each is posted at most once                       *)
    Src, Dst, (* [Data -> Endpoints], [Data -> Endpoints \cup {All}]         *)
    MaxHops,  (* the limit of message_info::hop_count                        *)
    Movers,   (* the endpoints that move, speak of themselves, and block     *)
    Budgets,  (* bounds: how many messages are posted, how often endpoints   *)
              (* come or go or block, how often routers lose their parents,  *)
              (* and how many announcements of an endpoint are on the way    *)
    All,      (* broadcast_endpoint_id                                       *)
    None      (* no id, no message                                           *)

ASSUME RoutingAssumption ==
    /\ Parent \in [Routers -> Routers \cup {None}]
    /\ Homes \subseteq [Endpoints -> Routers]
    /\ Src \in [Data -> Endpoints] /\ Dst \in [Data -> Endpoints \cup {All}]
    /\ MaxHops \in Nat
    /\ Movers \subseteq Endpoints
    /\ Budgets \subseteq [posts : Nat, moves : Nat, blocks : Nat, losses : Nat, alive : Nat]
    /\ Routers \cap Endpoints = {} /\ {All, None} \cap (Routers \cup Endpoints) = {}
    /\ All # None /\ None \notin Data

Children(r) == {c \in Routers : Parent[c] = r}

(* The routers above r, on the way to the top: the least set with its      *)
(* parent that has the parents of its members.  No router is above itself. *)
Above == [r \in Routers |-> {x \in Routers :
            \A S \in SUBSET Routers :
                /\ Parent[r] \in S \cup {None}
                /\ \A y \in S : Parent[y] \in S \cup {None}
                => x \in S}]

ASSUME TreeAssumption == \A r \in Routers : r \notin Above[r]

Links == {<<c, Parent[c]>> : c \in {x \in Routers : Parent[x] # None}}
            \cup {<<Parent[c], c>> : c \in {x \in Routers : Parent[x] # None}}
            \cup Movers \X Routers \cup UNION {{<<e, h[e]>> : e \in Endpoints} : h \in Homes}

Kinds == {"data", "stillAlive", "byeBye", "msgBlkList", "announceId", "confirmId"}
Messages == [kind : Kinds, id : Data \cup {None}, src : Routers \cup Endpoints,
             dst : Routers \cup Endpoints \cup {All}, hops : 0 .. MaxHops]

VARIABLES
    at,        (* endpoint: the router it is connected to, or None           *)
    nodes,     (* router: the ids in _nodes, also of lost connections        *)
    leaving,   (* router: the nodes with _do_disconnect                      *)
    recent,    (* router: _recently_disconnected                             *)
    blocking,  (* router: the nodes with the data in _message_block_list     *)
    idx,       (* router: _endpoint_idx; the id of the router itself means   *)
               (* its parent                                                 *)
    linked,    (* router: it is a node of its parent, over this connection   *)
    confirmed, (* router: parent_router::_confirmed_id is set                *)
    chan,      (* link: what was sent and not yet fetched                    *)
    posted,    (* the data messages that were posted                         *)
    got,       (* endpoint: how often it got each, over this connection      *)
    calm,      (* the data messages that nothing has disturbed since they    *)
               (* were posted                                                *)
    byes,      (* an endpoint has said bye-bye                               *)
    budget     (* what is left of the bounds                                 *)

tableVars == <<nodes, leaving, recent, blocking>>
vars == <<at, tableVars, idx, linked, confirmed, chan, posted, got, calm, byes, budget>>

TypeOK ==
    /\ at \in [Endpoints -> Routers \cup {None}]
    /\ nodes \in [Routers -> SUBSET (Routers \cup Endpoints)]
    /\ leaving \in [Routers -> SUBSET Endpoints] /\ recent \in [Routers -> SUBSET Endpoints]
    /\ blocking \in [Routers -> SUBSET (Routers \cup Endpoints)]
    /\ idx \in [Routers -> [Endpoints -> Routers \cup Endpoints \cup {None}]]
    /\ linked \in [Routers -> BOOLEAN] /\ confirmed \in [Routers -> BOOLEAN]
    /\ chan \in [Links -> Seq(Messages)]
    /\ posted \subseteq Data /\ calm \subseteq posted
    /\ got \in [Endpoints -> [Data -> Nat]]
    /\ byes \in BOOLEAN

(* The network is set up; nobody has spoken yet.                           *)
Init ==
    /\ at \in Homes
    /\ nodes = [r \in Routers |-> Children(r) \cup {e \in Endpoints : at[e] = r}]
    /\ leaving = [r \in Routers |-> {}]
    /\ recent = [r \in Routers |-> {}] /\ blocking = [r \in Routers |-> {}]
    /\ idx = [r \in Routers |-> [e \in Endpoints |-> None]]
    /\ linked = [r \in Routers |-> Parent[r] # None]
    /\ confirmed = linked
    /\ chan = [l \in Links |-> <<>>]
    /\ posted = {} /\ calm = {}
    /\ got = [e \in Endpoints |-> [m \in Data |-> 0]]
    /\ byes = FALSE /\ budget \in Budgets

Spend(k) == budget[k] > 0 /\ budget' = [budget EXCEPT ![k] = @ - 1]

-----------------------------------------------------------------------------
(* Where a message goes: sets of nodes, and the router's own id for its    *)
(* parent.                                                                 *)

(* adjacent_node::is_allowed                                               *)
IsAllowed(r, n, m) == m.kind = "data" => n \notin blocking[r]

(* A mutant of TargetedRoute: the flood goes back to where it came from.   *)
TargetedRouteBack(r, in, m) ==
    LET out == idx[r][m.dst]
        byIndex == IF out = r THEN {r}
                   ELSE {n \in {out} \cap nodes[r] : IsAllowed(r, n, m)}
        direct == {n \in {m.dst} \cap nodes[r] : IsAllowed(r, n, m)}
        flood == IF m.dst \in recent[r] THEN {} ELSE (nodes[r] \cap Routers) \cup {r}
    IN  IF byIndex # {} THEN byIndex ELSE IF direct # {} THEN direct ELSE flood

(* By the index, or the node that has the id of the target; otherwise to   *)
(* every other router, unless the target has disconnected lately.  When a  *)
(* connection refuses a message, the code goes on to the next of the three *)
(* ways; here connections refuse nothing, since those that are made take   *)
(* what they are given into their queues and lose it there.                *)
TargetedRoute(r, in, m) ==
    LET out == idx[r][m.dst]
        byIndex == IF out = r THEN {r}
                   ELSE {n \in {out} \cap nodes[r] : IsAllowed(r, n, m)}
        direct == {n \in {m.dst} \cap nodes[r] : IsAllowed(r, n, m)}
        flood == IF m.dst \in recent[r] THEN {}
                 ELSE ((nodes[r] \cap Routers) \cup {r}) \ {in}
    IN  IF byIndex # {} THEN byIndex ELSE IF direct # {} THEN direct ELSE flood

(* A mutant of BroadcastRoute: also to where the message came from.        *)
BroadcastRouteBack(r, in, m) == {n \in nodes[r] : IsAllowed(r, n, m)} \cup ({r} \ {in})

BroadcastRoute(r, in, m) ==
    {n \in nodes[r] \ {in} : IsAllowed(r, n, m)} \cup ({r} \ {in})

(* _route_message                                                          *)
Route(r, in, m) ==
    IF m.hops >= MaxHops THEN {}
    ELSE IF m.dst = All THEN BroadcastRoute(r, in, m) ELSE TargetedRoute(r, in, m)

(* The links of r that lead to the receivers in out.                       *)
OutLinks(r, out) ==
    {<<r, n>> : n \in {c \in out \cap Children(r) : linked[c]}}
        \cup (IF r \in out /\ Parent[r] # None THEN {<<r, Parent[r]>>} ELSE {})

(* message_info::add_hop                                                   *)
WithHop(m) == [m EXCEPT !.hops = @ + 1]

(* The message m from the link l is fetched by r, and sent to out.         *)
Forward(r, l, m, out) ==
    /\ chan' = [k \in Links |->
                   LET rest == IF k = l THEN Tail(chan[k]) ELSE chan[k]
                   IN  IF k \in OutLinks(r, out) THEN Append(rest, WithHop(m)) ELSE rest]
    /\ got' = IF m.kind # "data" THEN got
              ELSE [e \in Endpoints |->
                       IF e \in out /\ at[e] = r /\ m.dst \in {e, All}
                       THEN [got[e] EXCEPT ![m.id] = @ + 1] ELSE got[e]]

Send(l, m) == chan' = [chan EXCEPT ![l] = Append(@, m)]
Special(k, s) == [kind |-> k, id |-> None, src |-> s, dst |-> All, hops |-> 0]

(* How many copies of a message of s are on the way.                       *)
OnTheWay(k, s) ==
    LET mine(l) == {i \in 1 .. Len(chan[l]) : chan[l][i].kind = k /\ chan[l][i].src = s}
    IN  Cardinality(UNION {{l} \X mine(l) : l \in Links})

-----------------------------------------------------------------------------
(* The next router or node on the way from r to the endpoint e.            *)
Toward(r, e) ==
    IF at[e] = r THEN e
    ELSE IF r \in Above[at[e]]
         THEN CHOOSE c \in Children(r) : c = at[e] \/ c \in Above[at[e]]
         ELSE r

(* Every router knows the way to e, and nothing older is on the way.       *)
Settled(e) ==
    /\ at[e] # None
    /\ \A r \in Routers : idx[r][e] = Toward(r, e)
    /\ \A k \in {"stillAlive", "byeBye", "msgBlkList"} : OnTheWay(k, e) = 0
    /\ \A r \in Routers : e \notin leaving[r]

(* The way to the receivers of m is known, and none of them blocks it.     *)
Reachable(m) ==
    /\ Dst[m] # All => Settled(Dst[m])
    /\ \A e \in Endpoints : Dst[m] \in {e, All} /\ at[e] # None =>
          e \notin blocking[at[e]] /\ OnTheWay("msgBlkList", e) = 0

AllLinked == \A r \in Routers : Parent[r] # None => linked[r] /\ confirmed[r]

-----------------------------------------------------------------------------
(* The endpoints.                                                          *)

(* An endpoint posts a message.                                            *)
Post(e, m) ==
    /\ at[e] # None /\ Src[m] = e /\ m \notin posted
    /\ Spend("posts")
    /\ posted' = posted \cup {m}
    /\ Send(<<e, at[e]>>, [kind |-> "data", id |-> m, src |-> e, dst |-> Dst[m], hops |-> 0])
    /\ calm' = IF AllLinked /\ Reachable(m) THEN calm \cup {m} ELSE calm
    /\ UNCHANGED <<at, tableVars, idx, linked, confirmed, got, byes>>

(* say_still_alive                                                         *)
StillAlive(e) ==
    /\ e \in Movers /\ at[e] # None
    /\ OnTheWay("stillAlive", e) < budget.alive
    /\ Send(<<e, at[e]>>, Special("stillAlive", e))
    /\ UNCHANGED <<at, tableVars, idx, linked, confirmed, posted, got, calm, byes, budget>>

(* block_message_type                                                      *)
Block(e) ==
    /\ e \in Movers /\ at[e] # None
    /\ Spend("blocks")
    /\ Send(<<e, at[e]>>, Special("msgBlkList", e))
    /\ calm' = {}
    /\ UNCHANGED <<at, tableVars, idx, linked, confirmed, posted, got, byes>>

(* The endpoint says bye-bye and is gone.                                  *)
SayBye(e) ==
    /\ e \in Movers /\ at[e] # None
    /\ Spend("moves")
    /\ Send(<<e, at[e]>>, Special("byeBye", e))
    /\ at' = [at EXCEPT ![e] = None]
    /\ byes' = TRUE
    /\ calm' = {}
    /\ UNCHANGED <<tableVars, idx, linked, confirmed, posted, got>>

(* The endpoint or its connection dies; some of what it had sent arrives.  *)
Vanish(e) ==
    /\ e \in Movers /\ at[e] # None
    /\ Spend("moves")
    /\ \E k \in 0 .. Len(chan[<<e, at[e]>>]) :
          chan' = [chan EXCEPT ![<<e, at[e]>>] = SubSeq(@, 1, k)]
    /\ at' = [at EXCEPT ![e] = None]
    /\ calm' = {}
    /\ UNCHANGED <<tableVars, idx, linked, confirmed, posted, got, byes>>

(* It comes back with its id, at any router, which adopts the connection   *)
(* (_adopt_pending): the one that the node had is closed.                  *)
Attach(e, r) ==
    /\ e \in Movers /\ at[e] = None
    /\ Spend("moves")
    /\ at' = [at EXCEPT ![e] = r]
    /\ nodes' = [nodes EXCEPT ![r] = @ \cup {e}]
    /\ recent' = [recent EXCEPT ![r] = @ \ {e}]
    /\ chan' = [chan EXCEPT ![<<e, r>>] = <<>>]
    /\ got' = [got EXCEPT ![e] = [m \in Data |-> 0]]
    /\ calm' = {}
    /\ UNCHANGED <<leaving, blocking, idx, linked, confirmed, posted, byes>>

-----------------------------------------------------------------------------
(* The routers.                                                            *)

(* A mutant of Update: the first place is remembered.                      *)
UpdateOnce(r, s, in) ==
    idx' = [idx EXCEPT ![r][s] = IF @ = None THEN in ELSE @]

(* The changes of the index of r when something of s arrives from in.      *)
Update(r, s, in) == idx' = [idx EXCEPT ![r][s] = in]

RouteData(r, in, l, m) ==
    /\ m.kind = "data"
    /\ Forward(r, l, m, Route(r, in, m))
    /\ UNCHANGED <<tableVars, idx>>

(* _handle_still_alive                                                     *)
HandleStillAlive(r, in, l, m) ==
    /\ m.kind = "stillAlive"
    /\ Update(r, m.src, in)
    /\ Forward(r, l, m, Route(r, IF l[1] = Parent[r] THEN r ELSE in, m))
    /\ UNCHANGED tableVars

(* An announcement of a router that is a node already, or that another     *)
(* router has forwarded: a special message that nobody handles.            *)
HandleAnnouncement(r, in, l, m) ==
    /\ m.kind = "announceId"
    /\ Forward(r, l, m, Route(r, IF l[1] = Parent[r] THEN r ELSE in, m))
    /\ UNCHANGED <<tableVars, idx>>

(* _handle_msg_block                                                       *)
HandleMsgBlock(r, n, l, m) ==
    /\ m.kind = "msgBlkList"
    /\ blocking' = [blocking EXCEPT ![r] = @ \cup {n}]
    /\ Update(r, m.src, n)
    /\ Forward(r, l, m, {})
    /\ UNCHANGED <<nodes, leaving, recent>>

(* _handle_bye_bye: a node that is not a router is to be disconnected.     *)
HandleByeBye(r, n, l, m) ==
    /\ m.kind = "byeBye"
    /\ leaving' = [leaving EXCEPT ![r] = @ \cup ({n} \cap Endpoints)]
    /\ Update(r, m.src, None)
    /\ Forward(r, l, m, Route(r, n, m))
    /\ UNCHANGED <<nodes, recent, blocking>>

(* _handle_node_message                                                    *)
HandleNodeMessage(r, n) ==
    LET l == <<n, r>>
        m == Head(chan[l])
    IN  /\ n \in nodes[r] /\ (n \in Routers => linked[n])
        /\ chan[l] # <<>>
        /\ \/ RouteData(r, n, l, m) \/ HandleStillAlive(r, n, l, m)
           \/ HandleAnnouncement(r, n, l, m)
           \/ HandleMsgBlock(r, n, l, m) \/ HandleByeBye(r, n, l, m)
        /\ UNCHANGED <<at, linked, confirmed, posted, calm, byes, budget>>

(* confirm_id and handle_bye of the parent_router                          *)
HandleConfirmId(r, l, m) ==
    /\ m.kind = "confirmId"
    /\ confirmed' = [confirmed EXCEPT ![r] = TRUE]
    /\ Forward(r, l, m, {})
    /\ UNCHANGED <<tableVars, idx>>

HandleParentsBye(r, l, m) ==
    /\ m.kind = "byeBye"
    /\ Forward(r, l, m, {})
    /\ UNCHANGED <<tableVars, idx, confirmed>>

(* _handle_parent_message: the id of the parent is the one it confirmed.   *)
HandleParentMessage(r) ==
    LET l == <<Parent[r], r>>
        m == Head(chan[l])
        in == IF confirmed[r] THEN r ELSE None
    IN  /\ chan[l] # <<>>
        /\ \/ HandleConfirmId(r, l, m)
           \/ HandleParentsBye(r, l, m)
           \/ /\ RouteData(r, in, l, m) \/ HandleStillAlive(r, in, l, m)
                    \/ HandleAnnouncement(r, in, l, m)
              /\ UNCHANGED confirmed
        /\ UNCHANGED <<at, linked, posted, calm, byes, budget>>

(* remove_disconnected                                                     *)
RemoveDisconnected(r) ==
    /\ leaving[r] # {}
    /\ nodes' = [nodes EXCEPT ![r] = @ \ leaving[r]]
    /\ recent' = [recent EXCEPT ![r] = @ \cup leaving[r]]
    /\ blocking' = [blocking EXCEPT ![r] = @ \ leaving[r]]
    /\ leaving' = [leaving EXCEPT ![r] = {}]
    /\ at' = [e \in Endpoints |-> IF e \in leaving[r] /\ at[e] = r THEN None ELSE at[e]]
    /\ calm' = IF at' = at THEN calm ELSE {}
    /\ chan' = [l \in Links |-> IF l[1] \in leaving[r] /\ l[2] = r THEN <<>> ELSE chan[l]]
    /\ UNCHANGED <<idx, linked, confirmed, posted, got, byes, budget>>

(* 15 seconds have passed.                                                 *)
RecentExpires(r) ==
    /\ \E e \in recent[r] : recent' = [recent EXCEPT ![r] = @ \ {e}]
    /\ UNCHANGED <<at, nodes, leaving, blocking, idx, linked, confirmed, chan, posted, got, calm, byes, budget>>

(* The connection of r to its parent is lost, with what was under way; the *)
(* one that replaces it sends what was still queued.                       *)
LoseParent(r) ==
    /\ linked[r] /\ Spend("losses")
    /\ linked' = [linked EXCEPT ![r] = FALSE]
    /\ confirmed' = [confirmed EXCEPT ![r] = FALSE]
    /\ \E k \in 1 .. Len(chan[<<r, Parent[r]>>]) + 1 :
          chan' = [chan EXCEPT ![<<Parent[r], r>>] = <<>>,
                               ![<<r, Parent[r]>>] = SubSeq(@, k, Len(@))]
    /\ calm' = {}
    /\ UNCHANGED <<at, tableVars, idx, posted, got, byes>>

(* parent_router::update                                                   *)
AnnounceId(r) ==
    /\ Parent[r] # None /\ ~confirmed[r]
    /\ OnTheWay("announceId", r) = 0
    /\ Send(<<r, Parent[r]>>, Special("announceId", r))
    /\ UNCHANGED <<at, tableVars, idx, linked, confirmed, posted, got, calm, byes, budget>>

(* The announcement makes the pending connection a node, which goes on     *)
(* with the messages that came before it.                                  *)
AdoptRouter(r) ==
    LET up == <<r, Parent[r]>>
        down == <<Parent[r], r>>
    IN  /\ Parent[r] # None /\ ~linked[r]
        /\ \E i \in 1 .. Len(chan[up]) :
              LET m == chan[up][i]
              IN  /\ m.kind = "announceId"
                  /\ \A j \in 1 .. (i - 1) : chan[up][j].kind # "announceId"
                  /\ chan' = [chan EXCEPT
                        ![up] = SubSeq(@, 1, i - 1) \o SubSeq(@, i + 1, Len(@)),
                        ![down] = Append(@, Special("confirmId", Parent[r]))]
        /\ linked' = [linked EXCEPT ![r] = TRUE]
        /\ UNCHANGED <<at, tableVars, idx, confirmed, posted, got, calm, byes, budget>>

EndpointStep(e) ==
    \/ \E m \in Data : Post(e, m)
    \/ StillAlive(e) \/ Block(e) \/ SayBye(e) \/ Vanish(e)
    \/ \E r \in Routers : Attach(e, r)

(* Something is fetched from the link l.                                   *)
Fetch(l) ==
    \/ l[1] # Parent[l[2]] /\ HandleNodeMessage(l[2], l[1])
    \/ l[1] = Parent[l[2]] /\ HandleParentMessage(l[2])

RouterStep(r) ==
    \/ RemoveDisconnected(r) \/ RecentExpires(r)
    \/ LoseParent(r) \/ AnnounceId(r) \/ AdoptRouter(r)

Next ==
    \/ \E l \in Links : Fetch(l)
    \/ \E e \in Endpoints : EndpointStep(e)
    \/ \E r \in Routers : RouterStep(r)

Spec == Init /\ [][Next]_vars

(* Endpoints repeat that they are alive; routers call update over and      *)
(* over, which fetches from each connection and keeps that to the parent.  *)
FairSpec ==
    /\ Spec
    /\ \A e \in Movers : WF_vars(StillAlive(e))
    /\ \A l \in Links : WF_vars(Fetch(l))
    /\ \A r \in {c \in Routers : Parent[c] # None} : WF_vars(AnnounceId(r) \/ AdoptRouter(r))

-----------------------------------------------------------------------------
(* A broadcast reaches no endpoint twice over one connection, wherever the *)
(* endpoints move and whichever routers lose and regain their parents      *)
(* (_route_broadcast_message).                                             *)
BroadcastOnce ==
    \A m \in Data : Dst[m] = All => \A e \in Endpoints : got[e][m] <= 1

(* The routers that have e as a node: where it is and where it was before. *)
Places(e) == {r \in Routers : e \in nodes[r]}
AtMostTwo(S) == \A x, y, z \in S : x = y \/ y = z \/ x = z

(* No endpoint has said bye-bye, and e blocks nothing.                     *)
Undisturbed(e) == ~byes /\ \A r \in Routers : e \notin blocking[r]

(* A message for one endpoint, which may come back at a second router, is  *)
(* not multiplied on the way, although routers that do not know the way    *)
(* send it in all directions (_route_targeted_message).                    *)
TargetedOnce ==
    \A m \in Data, e \in Endpoints :
        Dst[m] = e /\ Undisturbed(e) /\ AtMostTwo(Places(e)) => got[e][m] <= 1

(* Every message leaves the network in the end.                            *)
Drained == <>[](\A l \in Links : \A i \in 1 .. Len(chan[l]) : chan[l][i].kind # "data")

(* When the endpoints and the connections stay where they are, the index   *)
(* of every router comes to lead to each endpoint that is connected.       *)
IndexSettles ==
    <>[](\A e \in Movers : at[e] # None =>
            \A r \in Routers : idx[r][e] = Toward(r, e))

(* A message that is posted when the way to its target is known arrives if *)
(* nothing moves or breaks meanwhile; a broadcast arrives everywhere.      *)
Arrives ==
    \A m \in Data :
        m \in calm ~> \/ m \notin calm
                      \/ \A e \in Endpoints \ {Src[m]} :
                            Dst[m] \in {e, All} /\ at[e] # None => got[e][m] > 0

(* The network settles: its messages arrive and leave it, and its indices  *)
(* lead to the endpoints (router_impl.cpp, _route_message, _update_index). *)
NetworkSettles == Drained /\ IndexSettles /\ Arrives
-----------------------------------------------------------------------------
(* What lies behind BroadcastOnce: the inductive invariant.                *)

(* What a router has not confirmed it does not get from its parent: first  *)
(* of all comes the confirmation, over a connection that was adopted.      *)
ConfirmationFirst ==
    \A r \in Routers : Parent[r] # None /\ ~confirmed[r] =>
        LET down == chan[<<Parent[r], r>>]
        IN  IF linked[r] THEN down # <<>> /\ Head(down).kind = "confirmId" ELSE down = <<>>

(* The routers from c on downwards, and where the copies of m are.         *)
Below(c) == {x \in Routers : x = c \/ c \in Above[x]}
CopiesIn(q, m) == {i \in 1 .. Len(q) : q[i].kind = "data" /\ q[i].id = m}
OneCopy(q, m) == \A i, j \in CopiesIn(q, m) : i = j /\ q[i].dst = All
Carriers(m) == {l \in Links : CopiesIn(chan[l], m) # {}}
IsUp(l) == l[1] \in Routers /\ Parent[l[1]] = l[2]

(* The routers in V have had a broadcast, and copies of it are on the links*)
(* in L.  It spreads away from V: one copy at most is on its way up, from  *)
(* those below, others are on their way down to where none has had it.     *)
SpreadsFrom(V, L) ==
    \A l \in L :
        /\ l[1] \in Endpoints => V = {} /\ L = {l}
        /\ l[1] \in Routers => l[1] \in V
        /\ IsUp(l) => V \subseteq Below(l[1]) /\ \A k \in L : IsUp(k) => k = l
        /\ l[1] \in Routers /\ ~IsUp(l) => V \cap Below(l[2]) = {}

(* The routers in V have had the broadcast m, one time each.               *)
HadBy(V, m) ==
    /\ SpreadsFrom(V, Carriers(m))
    /\ \A l \in Links : OneCopy(chan[l], m)
    /\ m \notin posted => V = {} /\ Carriers(m) = {} /\ \A e \in Endpoints : got[e][m] = 0
    /\ \A e \in Endpoints :
        got[e][m] <= 1 /\ (got[e][m] > 0 /\ at[e] # None => at[e] \in V)

BroadcastSpreads == \A m \in Data : Dst[m] = All => \E V \in SUBSET Routers : HadBy(V, m)

LinksAreThere ==
    /\ \A e \in Endpoints : at[e] # None => <<e, at[e]>> \in Links
    /\ \A r \in Routers : linked[r] => Parent[r] # None

IInv == TypeOK /\ LinksAreThere /\ ConfirmationFirst /\ BroadcastSpreads
-----------------------------------------------------------------------------
(* What lies behind TargetedOnce.                                          *)

(* What may be on a link, before and after somebody said bye-bye.          *)
SaneOn(l, m, said) ==
    /\ m.kind = "data" => m.id \in Data /\ m.dst = Dst[m.id]
    /\ m.kind # "data" => m.dst = All
    /\ m.kind = "msgBlkList" => l[1] \in Endpoints
    /\ m.kind \in {"stillAlive", "msgBlkList"} /\ l[1] \in Endpoints => m.src = l[1]
    /\ m.kind = "byeBye" => said

SaneQueues == \A l \in Links : \A i \in 1 .. Len(chan[l]) : SaneOn(l, chan[l][i], byes)

SaneTables ==
    \A r \in Routers :
        /\ nodes[r] \cap Routers = Children(r) /\ blocking[r] \cap Routers = {}
        /\ ~byes => leaving[r] = {}

(* What was not posted is nowhere.                                         *)
PostedOnly ==
    \A m \in Data \ posted :
        /\ \A l \in Links : CopiesIn(chan[l], m) = {}
        /\ \A e \in Endpoints : got[e][m] = 0

Sane == SaneQueues /\ SaneTables /\ PostedOnly

(* Between routers, a link leads to those on its other side.               *)
RouterLinks == {l \in Links : l[1] \in Routers}
Ahead(l) == IF l[1] \notin Routers THEN Routers
            ELSE IF IsUp(l) THEN Routers \ Below(l[1]) ELSE Below(l[2])

(* The routers next to r, as r knows them, and the links to them; the node *)
(* from which a link comes, as its receiver knows it.                      *)
Hops(r) == Children(r) \cup {p \in {r} : Parent[p] # None}
Onto(r, n) == IF n = r THEN <<r, Parent[r]>> ELSE <<r, n>>
Sender(l) == IF l[1] = Parent[l[2]] THEN l[2] ELSE l[1]

(* The stillAlive messages of e in a queue.                                *)
Alive(s, e) == {i \in 1 .. Len(s) : s[i].kind = "stillAlive" /\ s[i].src = e}

(* From l on to where the way to the places P branches or ends: with the   *)
(* queues q and the indices x nothing sends what it meets back over l.     *)
OnWay(P, l) == {k \in RouterLinks : Ahead(k) \subseteq Ahead(l) /\ P \cap Ahead(l) \subseteq Ahead(k)}
Clear(q, x, P, e, l) ==
    \A k \in OnWay(P, l) : x[k[2]][e] # Sender(k) /\ Alive(q[k], e) = {}

(* Nothing that a message meets which is at i on l.                        *)
ClearFrom(q, x, P, e, l, i) ==
    \A k \in OnWay(P, l) :
        x[k[2]][e] # Sender(k) /\ \A j \in Alive(q[k], e) : k = l /\ i <= j

(* An index leads to a place where e is or was; what e says of itself      *)
(* comes from there; and where a router knows no way to e, nothing has     *)
(* passed it, so that nothing ahead of it has come from behind.            *)
KnowsTheWay(q, x, P, e) ==
    /\ \A r \in Routers :
        /\ x[r][e] \in {None, e} \cup Hops(r)
        /\ x[r][e] = e => r \in P
        /\ x[r][e] \in Hops(r) => P \cap Ahead(Onto(r, x[r][e])) # {}
        /\ x[r][e] = None => \A n \in Hops(r) : Clear(q, x, P, e, Onto(r, n))
    /\ \A l \in Links : Alive(q[l], e) # {} =>
          IF l \in RouterLinks THEN ~(P \subseteq Ahead(l)) ELSE l[1] = e /\ l[2] \in P

(* The copies of m, as pairs of a link and a position; those of them that  *)
(* nothing ahead will send back.                                           *)
Copies(q, m) == UNION {{l} \X CopiesIn(q[l], m) : l \in Links}
Onwards(q, x, P, e, m) == {c \in Copies(q, m) : ClearFrom(q, x, P, e, c[1], c[2])}

AtMostOne(S) == \A x, y \in S : x = y

(* Of the copies C those in W are not sent back.  One copy may travel to   *)
(* and fro between two places; where there are more, each goes its own way *)
(* and none to the place h where the message was delivered.                *)
Apart(P, C, W, h) ==
    /\ \A c \in C : P \cap Ahead(c[1]) = {} => c \in W
    /\ \A c, d \in C : c # d /\ P \cap Ahead(c[1]) # {} /\ P \cap Ahead(d[1]) # {} =>
          c \in W /\ P \cap Ahead(c[1]) \cap Ahead(d[1]) = {}
    /\ \A c \in C : h # None /\ P \cap Ahead(c[1]) # {} => c \in W /\ h \notin Ahead(c[1])
    /\ AtMostOne(P) => \A c, d \in C : c # d => Ahead(c[1]) \cap Ahead(d[1]) = {}

(* Where e got m, over the connection that it has.                         *)
GotAt(e, m) == IF got[e][m] > 0 THEN at[e] ELSE None

CopiesPart(e) ==
    LET P == Places(e)
    IN  /\ P # {} /\ at[e] \in P \cup {None}
        /\ KnowsTheWay(chan, idx, P, e)
        /\ AtMostTwo(P) => \A m \in Data : Dst[m] = e =>
              got[e][m] <= 1 /\ Apart(P, Copies(chan, m), Onwards(chan, idx, P, e, m), GotAt(e, m))

TargetedApart == \A e \in Endpoints : Undisturbed(e) => CopiesPart(e)
=============================================================================
