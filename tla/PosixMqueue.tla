----------------------------- MODULE PosixMqueue -----------------------------
(***************************************************************************)
(* The connections over POSIX message queues in posix_mqueue_impl.cpp. An  *)
(* acceptor creates a queue with a known name; a connector creates a pair  *)
(* of queues of its own, sends their name over the acceptor's queue, and   *)
(* the acceptor's process opens them. The queues are bounded, belong to    *)
(* the operating system and outlive the processes that made them; a queue  *)
(* whose name is unlinked lives on for those who have it open.             *)
(***************************************************************************)
EXTENDS Naturals, Sequences, FiniteSets, SequencesExt

CONSTANTS
    Connectors, (* positive numbers                                         *)
    Msgs,       (* the messages; each is sent at most once, by its owner    *)
    Owner,      (* [Msgs -> Ends]                                           *)
    Priority,   (* [Msgs -> Nat]                                            *)
    Capacity,   (* attr.mq_maxmsg                                           *)
    Budgets     (* bounds, one of which a behaviour keeps to: who connects, *)
                (* the messages sent, the acceptor's restarts, the failures *)
                (* of mq_open for want of resources                         *)

(* The connector's end of its pair of queues, and the acceptor's.          *)
Ends == Connectors \X {"connector", "accepted"}
Other(e) == <<e[1], IF e[2] = "connector" THEN "accepted" ELSE "connector">>

PosixMqueueAssumption ==
    /\ Connectors \subseteq Nat \ {0}
    /\ Owner \in [Msgs -> Ends] /\ Priority \in [Msgs -> Nat]
    /\ Capacity \in Nat \ {0}
    /\ Budgets \subseteq [connectors : SUBSET Connectors, msgs : SUBSET Msgs,
                          restarts : Nat, fails : Nat]

VARIABLES
    gen,         (* how often the acceptor's process was started            *)
    named,       (* the queue that the acceptor's name leads to, 0 for none *)
    accept,      (* the acceptor has its queue open                         *)
    requests,    (* generation: the requests in the acceptor's queue        *)
    stored,      (* posix_mqueue_acceptor::_requests                        *)
    due,         (* the _reconnect_timeouts that have expired               *)
    connect,     (* connector: the generation _connect_queue has open       *)
    data,        (* end: its _data_queue: "closed", "half" open or "open"   *)
    linked,      (* the connectors whose pair of queues has its name        *)
    gone,        (* the connectors that have ended                          *)
    log,         (* end: the messages that send accepted                    *)
    outgoing,    (* end: serialized_message_storage                         *)
    kept,        (* end: those that fetch_all tried in vain in this turn    *)
    sending,     (* end: it is in _send                                     *)
    queue,       (* end: the queue it writes to                             *)
    incoming,    (* end: message_storage                                    *)
    got,         (* end: the messages it fetched                            *)
    retried,     (* the messages that met a full queue                      *)
    unheard,     (* the connectors whose request was lost                   *)
    served,      (* those that the acceptor has opened                      *)
    fails,       (* how often mq_open failed                                *)
    budget

acceptorVars == <<gen, named, accept, stored>>
dataVars == <<log, outgoing, kept, sending, queue, incoming, got, retried>>
vars == <<acceptorVars, requests, due, connect, data, linked, gone, dataVars,
          unheard, served, fails, budget>>

(* Whose time-out it is beside the connectors.                             *)
Acceptor == 0

Init ==
    /\ budget \in Budgets
    /\ gen = 1 /\ named = 0 /\ accept = FALSE /\ stored = <<>>
    /\ requests = [g \in 1 .. budget.restarts + 1 |-> <<>>]
    /\ due = Connectors \cup {Acceptor}
    /\ connect = [c \in Connectors |-> 0]
    /\ data = [e \in Ends |-> "closed"]
    /\ linked = {} /\ gone = Connectors \ budget.connectors
    /\ log = [e \in Ends |-> <<>>] /\ outgoing = [e \in Ends |-> <<>>]
    /\ kept = [e \in Ends |-> <<>>] /\ sending = {}
    /\ queue = [e \in Ends |-> <<>>] /\ incoming = [e \in Ends |-> <<>>]
    /\ got = [e \in Ends |-> <<>>]
    /\ retried = {} /\ unheard = {} /\ served = {} /\ fails = 0

Usable(e) == data[e] = "open"

(* Two seconds have passed.                                                *)
Expire(x) ==
    /\ x \notin due
    /\ due' = due \cup {x}
    /\ UNCHANGED <<acceptorVars, requests, connect, data, linked, gone, dataVars,
                   unheard, served, fails, budget>>

(* posix_mqueue::create fails at the first of the two queues or the second.*)
CreateFails == fails < budget.fails /\ fails' = fails + 1

(* posix_mqueue_acceptor::_checkup: close, unlink, and create with O_EXCL. *)
AcceptorCheckup ==
    /\ ~accept /\ Acceptor \in due
    /\ due' = due \ {Acceptor}
    /\ \/ accept' = TRUE /\ named' = gen /\ UNCHANGED fails
       \/ /\ CreateFails
          /\ named' = 0 /\ UNCHANGED accept
    /\ UNCHANGED <<gen, stored, requests, connect, data, linked, gone, dataVars,
                   unheard, served, budget>>

(* _receive of the acceptor, one message.                                  *)
AcceptorReceive ==
    /\ accept /\ requests[gen] # <<>>
    /\ stored' = Append(stored, Head(requests[gen]))
    /\ requests' = [requests EXCEPT ![gen] = Tail(@)]
    /\ UNCHANGED <<gen, named, accept, due, connect, data, linked, gone, dataVars,
                   unheard, served, fails, budget>>

(* The bug of opening only the request that came last.                     *)
ProcessAcceptedLast ==
    /\ stored # <<>>
    /\ stored' = <<>>
    /\ LET opened == {Last(stored)} \cap linked
       IN  /\ data' = [e \in Ends |-> IF e[2] = "accepted" /\ e[1] \in opened
                                      THEN "open" ELSE data[e]]
           /\ served' = served \cup opened
    /\ UNCHANGED <<gen, named, accept, requests, due, connect, linked, gone, dataVars,
                   unheard, fails, budget>>

(* process_accepted: the queues whose names are gone are passed over.      *)
ProcessAccepted ==
    /\ stored # <<>>
    /\ stored' = <<>>
    /\ LET opened == ToSet(stored) \cap linked
       IN  /\ data' = [e \in Ends |-> IF e[2] = "accepted" /\ e[1] \in opened
                                      THEN "open" ELSE data[e]]
           /\ served' = served \cup opened
    /\ UNCHANGED <<gen, named, accept, requests, due, connect, linked, gone, dataVars,
                   unheard, fails, budget>>

(* The acceptor's process ends, in order (the destructor unlinks, also a   *)
(* queue that it has not opened) or not, and starts again: what it had     *)
(* open is closed, what it held is lost.                                   *)
Restart ==
    /\ gen <= budget.restarts
    /\ gen' = gen + 1
    /\ accept' = FALSE /\ stored' = <<>>
    /\ named' \in {named, 0}
    /\ due' = due \cup {Acceptor}
    /\ data' = [e \in Ends |-> IF e[2] = "accepted" THEN "closed" ELSE data[e]]
    /\ sending' = {e \in sending : e[2] = "connector"}
    /\ outgoing' = [e \in Ends |-> IF e[2] = "accepted" THEN <<>> ELSE outgoing[e]]
    /\ kept' = [e \in Ends |-> IF e[2] = "accepted" THEN <<>> ELSE kept[e]]
    /\ incoming' = [e \in Ends |-> IF e[2] = "accepted" THEN <<>> ELSE incoming[e]]
    /\ unheard' = unheard \cup ToSet(stored) \cup ToSet(requests[gen])
    /\ UNCHANGED <<requests, connect, linked, gone, log, queue, got, retried, served, fails,
                   budget>>

(* posix_mqueue_connector::_checkup opens the acceptor's queue.            *)
OpenConnectQueue(c) ==
    /\ c \notin gone /\ connect[c] = 0 /\ c \in due
    /\ connect' = [connect EXCEPT ![c] = named]
    /\ due' = due \ {c}
    /\ UNCHANGED <<acceptorVars, requests, data, linked, gone, dataVars,
                   unheard, served, fails, budget>>

(* _reconnect: new queues, and their name to the acceptor. What send makes *)
(* of the request is not looked at.  create may fail at either queue; a    *)
(* pair that is half open is not closed, since close wants both.           *)
Reconnect(c) ==
    LET e == <<c, "connector">>
        g == connect[c]
        heard == Len(requests[g]) < Capacity /\ g = gen
    IN  /\ c \notin gone /\ g # 0 /\ ~Usable(e) /\ c \in due
        /\ due' = due \ {c}
        /\ \/ /\ data' = [data EXCEPT ![e] = "open"]
              /\ linked' = linked \cup {c}
              /\ requests' = IF Len(requests[g]) < Capacity
                             THEN [requests EXCEPT ![g] = Append(@, c)] ELSE requests
              /\ unheard' = IF heard THEN unheard ELSE unheard \cup {c}
              /\ UNCHANGED fails
           \/ /\ CreateFails
              /\ data' \in {[data EXCEPT ![e] = d] : d \in {"closed", "half"}}
              /\ UNCHANGED <<linked, requests, unheard>>
        /\ UNCHANGED <<acceptorVars, connect, gone, dataVars, served, budget>>

(* The connector's process ends; its destructor unlinks the queues.        *)
End(c) ==
    /\ c \notin gone
    /\ gone' = gone \cup {c}
    /\ linked' \in {linked, linked \ {c}}
    /\ data' = [data EXCEPT ![<<c, "connector">>] = "closed"]
    /\ sending' = sending \ {<<c, "connector">>}
    /\ UNCHANGED <<acceptorVars, requests, due, connect, log, outgoing, kept, queue,
                   incoming, got, retried, unheard, served, fails, budget>>

(* posix_mqueue_connection::send.                                          *)
Send(m) ==
    LET e == Owner[m]
    IN  /\ m \in budget.msgs /\ Usable(e) /\ e \notin sending /\ ~Contains(log[e], m)
        /\ log' = [log EXCEPT ![e] = Append(@, m)]
        /\ outgoing' = [outgoing EXCEPT ![e] = Append(@, m)]
        /\ UNCHANGED <<acceptorVars, requests, due, connect, data, linked, gone, kept, sending,
                       queue, incoming, got, retried, unheard, served, fails, budget>>

(* mq_receive takes the oldest message of the highest priority; one turn   *)
(* of the loop in _receive.                                                *)
NextIn(q) ==
    CHOOSE i \in DOMAIN q :
        \A j \in DOMAIN q : \/ Priority[q[j]] < Priority[q[i]]
                            \/ Priority[q[j]] = Priority[q[i]] /\ i <= j

Receive(e) ==
    LET q == queue[Other(e)]
    IN  /\ Usable(e) /\ e \notin sending /\ q # <<>>
        /\ queue' = [queue EXCEPT ![Other(e)] = RemoveAt(@, NextIn(q))]
        /\ incoming' = [incoming EXCEPT ![e] = Append(@, q[NextIn(q)])]
        /\ UNCHANGED <<acceptorVars, requests, due, connect, data, linked, gone, log, outgoing,
                       kept, sending, got, retried, unheard, served, fails, budget>>

(* _send, message by message: serialized_message_storage::fetch_all tries  *)
(* each one, also after one that found the queue full.                     *)
BeginSend(e) ==
    /\ Usable(e) /\ e \notin sending /\ outgoing[e] # <<>>
    /\ sending' = sending \cup {e}
    /\ UNCHANGED <<acceptorVars, requests, due, connect, data, linked, gone, log, outgoing, kept,
                   queue, incoming, got, retried, unheard, served, fails, budget>>

(* The bug of taking EAGAIN for success.                                   *)
HandleSendUnchecked(e) ==
    /\ e \in sending /\ outgoing[e] # <<>>
    /\ outgoing' = [outgoing EXCEPT ![e] = Tail(@)]
    /\ queue' = IF Len(queue[e]) < Capacity
                THEN [queue EXCEPT ![e] = Append(@, Head(outgoing[e]))] ELSE queue
    /\ UNCHANGED <<acceptorVars, requests, due, connect, data, linked, gone, log, sending, kept,
                   retried, incoming, got, unheard, served, fails, budget>>

HandleSend(e) ==
    /\ e \in sending /\ outgoing[e] # <<>>
    /\ LET m == Head(outgoing[e])
       IN  IF Len(queue[e]) < Capacity
           THEN /\ queue' = [queue EXCEPT ![e] = Append(@, m)]
                /\ UNCHANGED <<kept, retried>>
           ELSE /\ kept' = [kept EXCEPT ![e] = Append(@, m)]
                /\ retried' = retried \cup {m}
                /\ UNCHANGED queue
    /\ outgoing' = [outgoing EXCEPT ![e] = Tail(@)]
    /\ UNCHANGED <<acceptorVars, requests, due, connect, data, linked, gone, log, sending,
                   incoming, got, unheard, served, fails, budget>>

EndSend(e) ==
    /\ e \in sending /\ outgoing[e] = <<>>
    /\ sending' = sending \ {e}
    /\ outgoing' = [outgoing EXCEPT ![e] = kept[e]]
    /\ kept' = [kept EXCEPT ![e] = <<>>]
    /\ UNCHANGED <<acceptorVars, requests, due, connect, data, linked, gone, log, queue,
                   incoming, got, retried, unheard, served, fails, budget>>

(* fetch_messages; the handlers of endpoints and routers take all of it.   *)
Fetch(e) ==
    /\ incoming[e] # <<>>
    /\ (e[2] = "connector" => e[1] \notin gone)
    /\ got' = [got EXCEPT ![e] = @ \o incoming[e]]
    /\ incoming' = [incoming EXCEPT ![e] = <<>>]
    /\ UNCHANGED <<acceptorVars, requests, due, connect, data, linked, gone, log, outgoing, kept,
                   sending, queue, retried, unheard, served, fails, budget>>

Next ==
    \/ \E x \in Connectors \cup {Acceptor} : Expire(x)
    \/ AcceptorCheckup \/ AcceptorReceive \/ ProcessAccepted \/ Restart
    \/ \E c \in Connectors : OpenConnectQueue(c) \/ Reconnect(c) \/ End(c)
    \/ \E m \in Msgs : Send(m)
    \/ \E e \in Ends : Receive(e) \/ BeginSend(e) \/ HandleSend(e) \/ EndSend(e) \/ Fetch(e)

Spec == Init /\ [][Next]_vars

(* The main loops of both processes call update for ever, and time passes. *)
Fairness ==
    /\ \A x \in Connectors \cup {Acceptor} : WF_vars(Expire(x))
    /\ WF_vars(AcceptorCheckup) /\ WF_vars(AcceptorReceive) /\ WF_vars(ProcessAccepted)
    /\ \A c \in Connectors : WF_vars(OpenConnectQueue(c)) /\ WF_vars(Reconnect(c))

FairSpec == Spec /\ Fairness

(* The messages between two ends, while both live: each one that send has  *)
(* accepted is in one place, however often the queue was full.             *)
Places(e) ==
    kept[e] \o outgoing[e] \o queue[e] \o incoming[Other(e)] \o got[Other(e)]

MqueueForgetsNothing ==
    gen = 1 => \A e \in Ends :
        /\ Len(Places(e)) = Len(log[e])
        /\ ToSet(Places(e)) = ToSet(log[e])

(* Where a message stands among those that an end has sent.                *)
At(e, m) == CHOOSE i \in DOMAIN log[e] : log[e][i] = m

(* A message comes after one that was sent later only when that one has a  *)
(* higher priority, or when it met a full queue: fetch_all goes on behind  *)
(* a message that was refused, so messages of one priority may overtake.   *)
MqueueOrder ==
    \A e \in Ends :
        LET d == got[Other(e)] \o incoming[Other(e)]
        IN  \A i, j \in DOMAIN d :
                i < j /\ At(e, d[j]) < At(e, d[i]) =>
                    Priority[d[i]] > Priority[d[j]] \/ d[j] \in retried

(* The inductive invariant: what fetch_all has refused and what it has not *)
(* come to yet are in the order of sending, so only what met a full queue  *)
(* is entered into the queue behind what was sent later.                   *)
Ahead(s, x, y) == \E i, j \in DOMAIN s : i < j /\ s[i] = x /\ s[j] = y

InOrder(e) ==
    LET d == got[Other(e)] \o incoming[Other(e)]
        w == kept[e] \o outgoing[e]
    IN  /\ \A i, j \in DOMAIN log[e] : log[e][i] = log[e][j] => i = j
        /\ ToSet(Places(e)) \subseteq ToSet(log[e])
        /\ ToSet(kept[e]) \subseteq retried
        /\ \A x, y \in ToSet(log[e]) :
            At(e, y) < At(e, x) =>
                /\ ~Ahead(w, x, y)
                /\ (\/ Ahead(queue[e], x, y)
                    \/ x \in ToSet(d) \cup ToSet(queue[e]) /\ y \in ToSet(w))
                   => y \in retried
                /\ (\/ Ahead(d, x, y)
                    \/ x \in ToSet(d) /\ y \in ToSet(queue[e]))
                   => Priority[x] > Priority[y] \/ y \in retried

IInv ==
    /\ gen \in Nat \ {0}
    /\ log \in [Ends -> Seq(Msgs)] /\ got \in [Ends -> Seq(Msgs)]
    /\ outgoing \in [Ends -> Seq(Msgs)] /\ kept \in [Ends -> Seq(Msgs)]
    /\ queue \in [Ends -> Seq(Msgs)] /\ incoming \in [Ends -> Seq(Msgs)]
    /\ \A e \in Ends : InOrder(e)
    /\ MqueueForgetsNothing

(* Every connector is opened by the acceptor's process in the end, across  *)
(* its restarts and failed attempts to create queues, unless its request   *)
(* was lost: it met a full queue or a queue of an earlier process. Of this *)
(* the connector learns nothing, and it does not try again.                *)
ConnectorsAreServed ==
    \A c \in Connectors : <>(c \in served \cup gone \cup unheard)
=============================================================================
