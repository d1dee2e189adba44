------------------------------- MODULE Pinger -------------------------------
(***************************************************************************)
(* The pinger service with its list of pending pings (ping_pong_impl.cpp), *)
(* the pingable service that answers (ping_pong.cpp), and the program that *)
(* pings every node it finds until it has had its number of answers        *)
(* (app/pinger/main.cpp). Pings, pongs and what else is sent can be late,  *)
(* overtaken or lost.                                                      *)
(***************************************************************************)
EXTENDS Integers, FiniteSetsExt, Functions

CONSTANTS
    Pingables,  (* the nodes that answer pings                              *)
    Silent,     (* nodes that do not, and say so                            *)
    PingLimit,  (* _limit                                                   *)
    PingMax,    (* _max                                                     *)
    PingMod,    (* _mod                                                     *)
    MaxFaults,  (* bound: messages lost and pings that time out too early   *)
    MaxLeaves   (* bound: how often a node or the connection goes away      *)

VARIABLES
    targets,    (* _targets: the state of each node that was heard of       *)
    pending,    (* pinger_impl::_pending: <<node, sequence number>>         *)
    sequence,   (* the next sequence number of a ping                       *)
    rcvd,       (* _rcvd                                                    *)
    tout,       (* _tout                                                    *)
    canPing,    (* _can_ping                                                *)
    pings,      (* pings on their way                                       *)
    pongs,      (* pongs on their way                                       *)
    told,       (* what nodes have said of their subscription: [node ->     *)
                (* "nothing", "subscribed", "unsubscribed", "not"]          *)
    asked,      (* nodes that were asked for their host name                *)
    running,    (* the program is in its loop                               *)
    faults,     (* bound: faults that may still happen                      *)
    leaves      (* bound: departures that may still happen                  *)

pingVars == <<targets, pending, sequence, rcvd, tout, canPing, pings, pongs, told, asked,
              running, faults, leaves>>

Others == Pingables \cup Silent
Known == DOMAIN targets
NewTarget == [active |-> FALSE, sent |-> 0, responded |-> 0, timeouted |-> 0, named |-> FALSE]

(* _targets[id]: the entry is made when there is none.                     *)
At(ts, n) == IF n \in DOMAIN ts THEN ts ELSE [m \in DOMAIN ts \cup {n} |-> IF m = n THEN NewTarget ELSE ts[m]]
Balance(t) == t.sent - t.responded - t.timeouted

Init ==
    /\ targets = [n \in {} |-> NewTarget]
    /\ pending = {}
    /\ sequence = 1
    /\ rcvd = 0
    /\ tout = 0
    /\ canPing = FALSE
    /\ pings = {}
    /\ pongs = {}
    /\ told = [n \in Others |-> IF n \in Silent THEN "not" ELSE "subscribed"]
    /\ asked = {}
    /\ running = TRUE
    /\ faults = MaxFaults
    /\ leaves = MaxLeaves

----------------------------------------------------------------------------
(* The turn of the program, from timeouts to handlers.                     *)

(* An entry that is expired is dropped and reported, once.                 *)
OnPingTimeout(ts, gone) ==
    [n \in DOMAIN ts |-> [ts[n] EXCEPT !.timeouted = @ + Cardinality({p \in gone : p[1] = n})]]

(* How many may be outstanding of each node, by the nodes heard of.        *)
LimitOf(ts) == PingLimit \div (Cardinality(DOMAIN ts) + 1)

ToPing(ts) == {n \in DOMAIN ts : ts[n].active /\ Balance(ts[n]) <= LimitOf(ts)}

(* Each of these nodes is sent one ping, in the order of their ids.        *)
Number(n, ns) == sequence + Cardinality({m \in ns : m < n})
DoPing(ts, gone, checked) ==
    LET ns == IF canPing /\ rcvd < PingMax THEN ToPing(ts) ELSE {}
        new == {<<n, Number(n, ns)>> : n \in ns}
    IN  /\ pending' = (pending \ gone) \cup new
        /\ pings' = pings \cup new
        /\ sequence' = sequence + Cardinality(ns)
        /\ targets' = [n \in DOMAIN ts |-> IF n \in ns THEN [ts[n] EXCEPT !.sent = @ + 1] ELSE ts[n]]
        /\ asked' = asked \cup {n \in ns \cap checked : ~ts[n].named}

(* A ping expires when nothing comes back, or too early (a fault).         *)
Lost(p) == p \notin pings \cup pongs
Update ==
    /\ running
    /\ \E gone \in SUBSET pending, checked \in {{}, Others} :
        /\ Cardinality({p \in gone : ~Lost(p)}) <= faults
        /\ faults' = faults - Cardinality({p \in gone : ~Lost(p)})
        /\ tout' = tout + Cardinality(gone)
        /\ DoPing(OnPingTimeout(targets, gone), gone, checked)
    /\ UNCHANGED <<rcvd, canPing, pongs, told, running, leaves>>

CountPong(n) ==
    /\ rcvd' = rcvd + 1
    /\ targets' = [targets EXCEPT ![n].responded = @ + 1]

(* An answer counts when its ping is pending, whoever else was asked.      *)
HandlePong ==
    \E p \in pongs :
        /\ running
        /\ pongs' = pongs \ {p}
        /\ pending' = pending \ {p}
        /\ IF p \in pending
           THEN CountPong(p[1])
           ELSE UNCHANGED <<rcvd, targets>>
        /\ UNCHANGED <<sequence, tout, canPing, pings, told, asked, running, faults, leaves>>

(* What a node says of its subscription to pings makes it known.           *)
OnSubscribed(n) ==
    /\ told[n] = "subscribed"
    /\ targets' = [At(targets, n) EXCEPT ![n].active = TRUE]

OnUnsubscribed(n) ==
    /\ told[n] = "unsubscribed"
    /\ targets' = [At(targets, n) EXCEPT ![n].active = FALSE]

OnNotSubscribed(n) ==
    /\ told[n] = "not"
    /\ targets' = [At(targets, n) EXCEPT ![n].active = FALSE]

HandleTold ==
    \E n \in Others :
        /\ running
        /\ OnSubscribed(n) \/ OnUnsubscribed(n) \/ OnNotSubscribed(n)
        /\ told' = [told EXCEPT ![n] = "nothing"]
        /\ UNCHANGED <<pending, sequence, rcvd, tout, canPing, pings, pongs, asked, running,
                       faults, leaves>>

OnHostnameReceived ==
    \E n \in asked :
        /\ running
        /\ asked' = asked \ {n}
        /\ targets' = [At(targets, n) EXCEPT ![n].named = TRUE]
        /\ UNCHANGED <<pending, sequence, rcvd, tout, canPing, pings, pongs, told, running,
                       faults, leaves>>

(* The id was assigned, or the connection was made again.                  *)
OnConnectionEstablished ==
    /\ running
    /\ ~canPing
    /\ canPing' = TRUE
    /\ UNCHANGED <<targets, pending, sequence, rcvd, tout, pings, pongs, told, asked, running,
                   faults, leaves>>

OnConnectionLost ==
    /\ running
    /\ canPing
    /\ leaves > 0
    /\ leaves' = leaves - 1
    /\ canPing' = FALSE
    /\ UNCHANGED <<targets, pending, sequence, rcvd, tout, pings, pongs, told, asked, running,
                   faults>>

(* The program ends when it has had enough and waits for nothing.          *)
IsDone == ~(rcvd + tout + PingMod < PingMax \/ pending # {})
Leave ==
    /\ running
    /\ IsDone
    /\ running' = FALSE
    /\ UNCHANGED <<targets, pending, sequence, rcvd, tout, canPing, pings, pongs, told, asked,
                   faults, leaves>>

----------------------------------------------------------------------------
(* The others, and what is between.                                        *)

(* pingable answers to the one who asked, under the number of the ping.    *)
HandlePing ==
    \E p \in pings :
        /\ pings' = pings \ {p}
        /\ pongs' = IF p[1] \in Pingables THEN pongs \cup {p} ELSE pongs
        /\ UNCHANGED <<targets, pending, sequence, rcvd, tout, canPing, told, asked, running,
                       faults, leaves>>

(* Pingables say again and again that they subscribe; one may leave.       *)
Announce(n) ==
    /\ n \in Pingables
    /\ told[n] = "nothing"
    /\ n \notin Known \/ ~targets[n].active
    /\ told' = [told EXCEPT ![n] = "subscribed"]
    /\ UNCHANGED <<targets, pending, sequence, rcvd, tout, canPing, pings, pongs, asked, running,
                   faults, leaves>>

Unsubscribe(n) ==
    /\ n \in Pingables
    /\ leaves > 0
    /\ leaves' = leaves - 1
    /\ told' = [told EXCEPT ![n] = "unsubscribed"]
    /\ UNCHANGED <<targets, pending, sequence, rcvd, tout, canPing, pings, pongs, asked, running,
                   faults>>

LoseMessage ==
    /\ faults > 0
    /\ faults' = faults - 1
    /\ \E p \in pings \cup pongs : pings' = pings \ {p} /\ pongs' = pongs \ {p}
    /\ UNCHANGED <<targets, pending, sequence, rcvd, tout, canPing, told, asked, running, leaves>>

Work == HandlePong \/ HandleTold \/ OnHostnameReceived \/ OnConnectionEstablished

Next ==
    \/ Update \/ HandlePong \/ HandleTold \/ OnHostnameReceived
    \/ OnConnectionEstablished \/ OnConnectionLost \/ Leave
    \/ HandlePing \/ LoseMessage
    \/ \E n \in Others : Announce(n) \/ Unsubscribe(n)

Spec == Init /\ [][Next]_pingVars

----------------------------------------------------------------------------

(* The balance of each node is what is pending of it, late and lost        *)
(* answers included; nothing is counted twice; and no node is given more   *)
(* than its share of the limit.                                            *)
PingsAreAccounted ==
    /\ \A n \in Known :
        /\ Balance(targets[n]) = Cardinality({p \in pending : p[1] = n})
        /\ Balance(targets[n]) <= PingLimit \div 2 + 1
    /\ rcvd = SumFunction([n \in Known |-> targets[n].responded])
    /\ tout = SumFunction([n \in Known |-> targets[n].timeouted])
    /\ ~running => pending = {}
=============================================================================
