------------------------------ MODULE Handshake ------------------------------
(***************************************************************************)
(* How an endpoint gets its id and becomes a node of a router: the id part *)
(* of endpoint::update (endpoint_impl.cpp) composed with router_pending    *)
(* and router_nodes::_adopt_pending (router_impl.cpp) over connections     *)
(* that keep the order of the messages but can be lost and re-made.  A     *)
(* connection is <<e, k>>: the k-th connection of endpoint e.  The two     *)
(* programs run beside each other: an update is not one step but a begin,  *)
(* a step for each message that it has fetched, and an end.                *)
(***************************************************************************)
EXTENDS Integers, Sequences, FiniteSetsExt

CONSTANTS
    Endpoints,
    PreId,        (* [Endpoints -> Nat]: the preconfigured id, 0 when none  *)
    KnowsPwd,     (* the endpoints that can encrypt the router password     *)
    IdBase, IdEnd,(* the router's id range, see RouterTurns                 *)
    MaxConns,     (* bound: [Endpoints -> Nat], connections of an endpoint  *)
    MaxEarly      (* bound: [Endpoints -> Nat], timer expirations of the    *)
                  (* endpoint, and of the password requests on connections  *)
                  (* of it, before the answer had time                      *)

ASSUME HandshakeAssumption ==
    /\ PreId \in [Endpoints -> Nat]
    /\ KnowsPwd \subseteq Endpoints
    /\ IdBase \in Nat \ {0} /\ IdEnd \in Nat /\ IdEnd > IdBase + 1
    /\ MaxConns \in [Endpoints -> Nat \ {0}] /\ MaxEarly \in [Endpoints -> Nat]

Conns == UNION {{e} \X (1 .. MaxConns[e]) : e \in Endpoints}

(* Nonces are random: a new one differs from every one still in flight.    *)
NewNonce(c, k) == (k + 1) % (MaxEarly[c[1]] + 1)

VARIABLES
    ep,      (* endpoint: [id, router, due]                                 *)
    early,   (* endpoint: the expirations that MaxEarly bounds              *)
    gen,     (* endpoint: the number of its current connection              *)
    up,      (* endpoint: its current connection is usable                  *)
    lost,    (* endpoint: it has lost a connection while it had an id       *)
    turn,    (* endpoint: its running update, see NoUpdate                  *)
    job,     (* the pending connection the router updates, see NoJob        *)
    toRtr,   (* connection: messages on their way to the router             *)
    toEp,    (* connection: messages on their way to the endpoint           *)
    place,   (* connection: "none", "pending", "node" or "gone" (router)    *)
    pend,    (* connection: the members of its router_pending               *)
    nodes,   (* id -> the connection of the adjacent_node                   *)
    seq,     (* router_ids::_id_sequence                                    *)
    needPwd  (* router::_password_is_required: the router is configured so  *)

vars ==
    <<ep, early, gen, up, lost, turn, job, toRtr, toEp, place, pend, nodes, seq, needPwd>>

Current(e) == <<e, gen[e]>>
Alive(c) == up[c[1]] /\ c = Current(c[1])

HasId(e) == ep[e].id # 0
HasPreId(e) == PreId[e] # 0

(* e has an id, or an update is under way that may give it one: e does not *)
(* announce an id again after that.                                        *)
HasOrTakesId(e) == HasId(e) \/ turn[e].on

(* A message that is sent to a connection that is gone is lost.            *)
Send(chan, c, msgs) == IF Alive(c) THEN [chan EXCEPT ![c] = @ \o msgs] ELSE chan

(* The first n messages of the sequence, and the others.                   *)
Fetched(s, n) == SubSeq(s, 1, n)
Remaining(s, n) == SubSeq(s, n + 1, Len(s))

(* A running update: had_id, and the fetched messages that are not handled *)
(* yet.                                                                    *)
NoUpdate == [on |-> FALSE, had |-> FALSE, msgs |-> <<>>]
NoJob == [on |-> FALSE, conn |-> <<>>, msgs |-> <<>>]

NewPending == [id |-> 0, nonce |-> 0, due |-> TRUE, verified |-> FALSE]

Init ==
    /\ ep = [e \in Endpoints |-> [id |-> 0, router |-> FALSE, due |-> TRUE]]
    /\ early = [e \in Endpoints |-> 0]
    /\ gen = [e \in Endpoints |-> 1]
    /\ up = [e \in Endpoints |-> TRUE]
    /\ lost = [e \in Endpoints |-> FALSE]
    /\ turn = [e \in Endpoints |-> NoUpdate]
    /\ job = NoJob
    /\ toRtr = [c \in Conns |-> <<>>]
    /\ toEp = [c \in Conns |-> <<>>]
    /\ place = [c \in Conns |-> IF c[2] = 1 THEN "pending" ELSE "none"]
    /\ pend = [c \in Conns |-> NewPending]
    /\ nodes = <<>>
    /\ seq = IdBase + 1
    /\ needPwd \in BOOLEAN

-----------------------------------------------------------------------------
(* The endpoint.                                                           *)

(* Mutant: a later id replaces the first one.                              *)
HandleAssignIdAgain(s, m) == [s EXCEPT !.st.id = m.id, !.st.router = TRUE]

(* _handle_assign_id: only the first id counts.                            *)
HandleAssignId(s, m) ==
    IF s.st.id = 0 THEN [s EXCEPT !.st.id = m.id, !.st.router = TRUE] ELSE s

(* _handle_confirm_id: likewise; a confirmed id that was preconfigured.    *)
HandleConfirmId(s, m) ==
    IF s.st.id = 0 THEN [s EXCEPT !.st.id = m.id, !.st.router = TRUE] ELSE s

(* _handle_password_request: answered only with an id, and only to the     *)
(* router that gave or confirmed it.                                       *)
HandlePasswordRequest(e, s, m) ==
    IF s.st.router /\ s.st.id # 0 /\ m.id = s.st.id /\ e \in KnowsPwd
    THEN [s EXCEPT !.out = Append(@, [kind |-> "encRutrPwd", nonce |-> m.nonce])]
    ELSE s

HandleSpecial(e, s, m) ==
    CASE m.kind = "assignId"   -> HandleAssignId(s, m)
      [] m.kind = "confirmId"  -> HandleConfirmId(s, m)
      [] m.kind = "reqRutrPwd" -> HandlePasswordRequest(e, s, m)

(* _update_request_id: runs before the messages are fetched.               *)
UpdateRequestId(e, s) ==
    IF s.st.id = 0 /\ s.st.due /\ ~HasPreId(e)
    THEN [st |-> [s.st EXCEPT !.due = FALSE],
          out |-> Append(s.out, [kind |-> "requestId"])]
    ELSE s

(* Mutant: only a preconfigured id is announced.                           *)
UpdateCheckIdNoAnnounce(e, s) ==
    IF HasPreId(e) /\ s.st.due
    THEN [st |-> [s.st EXCEPT !.due = FALSE],
          out |-> Append(s.out, [kind |-> "annEndptId", id |-> PreId[e]])]
    ELSE s

(* _update_check_id: runs after the fetch if there was no id before it.    *)
UpdateCheckId(e, s) ==
    IF s.st.id # 0
    THEN [s EXCEPT !.out = Append(@, [kind |-> "annEndptId", id |-> s.st.id])]
    ELSE IF HasPreId(e) /\ s.st.due
         THEN [st |-> [s.st EXCEPT !.due = FALSE],
               out |-> Append(s.out, [kind |-> "annEndptId", id |-> PreId[e]])]
         ELSE s

(* What a handler of e has done: its members and the messages it sent.     *)
EndpointDid(e, s) ==
    /\ ep' = [ep EXCEPT ![e] = s.st]
    /\ toRtr' = Send(toRtr, Current(e), s.out)

(* endpoint::update with a usable connection, until n messages have been   *)
(* taken from the connection.                                              *)
BeginUpdate(e, n) ==
    /\ ~turn[e].on /\ up[e]
    /\ n > 0 \/ (~HasId(e) /\ ep[e].due)
    /\ EndpointDid(e, UpdateRequestId(e, [st |-> ep[e], out |-> <<>>]))
    /\ turn' = [turn EXCEPT ![e] = [on |-> TRUE, had |-> HasId(e),
                                    msgs |-> Fetched(toEp[Current(e)], n)]]
    /\ toEp' = [toEp EXCEPT ![Current(e)] = Remaining(@, n)]
    /\ UNCHANGED <<early, gen, up, lost, job, place, pend, nodes, seq, needPwd>>

(* The handler of the next message that the update has fetched.            *)
HandleFetched(e) ==
    /\ turn[e].msgs # <<>>
    /\ EndpointDid(e, HandleSpecial(e, [st |-> ep[e], out |-> <<>>], Head(turn[e].msgs)))
    /\ turn' = [turn EXCEPT ![e].msgs = Tail(@)]
    /\ UNCHANGED <<early, gen, up, lost, job, toEp, place, pend, nodes, seq, needPwd>>

(* The rest of the update, after the last message.                         *)
EndUpdate(e) ==
    LET s == [st |-> ep[e], out |-> <<>>]
    IN  /\ turn[e].on /\ turn[e].msgs = <<>>
        /\ EndpointDid(e, IF turn[e].had THEN s ELSE UpdateCheckId(e, s))
        /\ turn' = [turn EXCEPT ![e] = NoUpdate]
        /\ UNCHANGED <<early, gen, up, lost, job, toEp, place, pend, nodes, seq, needPwd>>

(* Nothing of the endpoint's last attempt is still under way.              *)
Quiet(e) ==
    /\ ~turn[e].on /\ job.conn # Current(e)
    /\ toRtr[Current(e)] = <<>>
    /\ toEp[Current(e)] = <<>>

(* A timer on behalf of e expires; early when its answer had no time yet.  *)
Expires(e, quiet) ==
    \/ quiet /\ early' = early
    \/ ~quiet /\ early[e] < MaxEarly[e] /\ early' = [early EXCEPT ![e] = @ + 1]

(* _no_id_timeout expires.                                                 *)
NoIdTimeout(e) ==
    /\ ~HasId(e) /\ ~ep[e].due
    /\ Expires(e, Quiet(e))
    /\ ep' = [ep EXCEPT ![e].due = TRUE]
    /\ UNCHANGED <<gen, up, lost, turn, job, toRtr, toEp, place, pend, nodes, seq, needPwd>>

-----------------------------------------------------------------------------
(* The router.                                                             *)

NodeIds == DOMAIN nodes

(* get_next_id: the first free id from seq on, see RouterTurns.            *)
NextId(n) ==
    LET above == {i \in n .. (IdEnd - 1) : i \notin NodeIds}
        below == {i \in (IdBase + 1) .. (IdEnd - 1) : i \notin NodeIds}
    IN  IF n \notin NodeIds THEN n
        ELSE IF above # {} THEN Min(above)
        ELSE IF below # {} THEN Min(below)
        ELSE 0

(* router_pending::_assign_id                                              *)
AssignId(s) ==
    LET id == NextId(s.seq)
    IN  IF id = 0 THEN s
        ELSE [s EXCEPT !.seq = id + 1,
                       !.out = Append(@, [kind |-> "assignId", id |-> id])]

(* router_pending::_handle_msg                                             *)
HandlePendingMsg(s, m) ==
    CASE m.kind = "requestId"  -> AssignId(s)
      [] m.kind = "annEndptId" -> [s EXCEPT !.p.id = m.id]
      [] m.kind = "encRutrPwd" ->
            IF m.nonce = s.p.nonce THEN [s EXCEPT !.p.verified = TRUE] ELSE s

(* router_pending::try_request_password: with a new nonce every time.      *)
TryRequestPassword(c, s) ==
    IF s.p.id # 0 /\ needPwd /\ s.p.due /\ ~s.p.verified
    THEN LET k == NewNonce(c, s.p.nonce)
         IN  [s EXCEPT !.p.nonce = k, !.p.due = FALSE,
                       !.out = Append(@, [kind |-> "reqRutrPwd", id |-> s.p.id, nonce |-> k])]
    ELSE s

(* Mutant: the password is not waited for.                                 *)
CanBeAdoptedUnverified(p) == p.id # 0

(* router_pending::can_be_adopted                                          *)
CanBeAdopted(p) == p.id # 0 /\ (~needPwd \/ p.verified)

(* The router drops its side of these connections.                         *)
Close(cs) ==
    LET cut(e) == \E c \in cs : c[1] = e /\ Alive(c)
    IN  /\ up' = [e \in Endpoints |-> up[e] /\ ~cut(e)]
        /\ lost' = [e \in Endpoints |-> lost[e] \/ (cut(e) /\ HasOrTakesId(e))]

(* The table of nodes with c as the connection of the node id.             *)
WithNode(c, id) == [i \in NodeIds \cup {id} |-> IF i = id THEN c ELSE nodes[i]]

(* Mutant: the connection is not taken out of the router_pending.          *)
AdoptAndKeep(c, id) ==
    /\ nodes' = WithNode(c, id)
    /\ UNCHANGED <<place, up, lost>>

(* router_nodes::_adopt_pending: the connection moves from the pending to  *)
(* the node with the id, and a connection that the node had is dropped.    *)
Adopt(c, id) ==
    LET old == {nodes[i] : i \in NodeIds \cap {id}}
    IN  /\ nodes' = WithNode(c, id)
        /\ place' = [d \in Conns |-> IF d = c THEN "node" ELSE IF d \in old THEN "gone" ELSE place[d]]
        /\ Close(old)

(* What a handler of the pending connection c has done.                    *)
PendingDid(c, s) ==
    /\ seq' = s.seq
    /\ pend' = [pend EXCEPT ![c] = s.p]

PendingNow(c) == [p |-> pend[c], seq |-> seq, out |-> <<>>]

(* router_pending::update, until n messages have been taken from c.  The   *)
(* router is busy with one pending connection at a time.                   *)
BeginPending(c, n) ==
    /\ ~job.on /\ place[c] = "pending"
    /\ n > 0 \/ TryRequestPassword(c, PendingNow(c)) # PendingNow(c)
    /\ job' = [on |-> TRUE, conn |-> c, msgs |-> Fetched(toRtr[c], n)]
    /\ toRtr' = [toRtr EXCEPT ![c] = Remaining(@, n)]
    /\ UNCHANGED <<ep, early, gen, up, lost, turn, toEp, place, pend, nodes, seq, needPwd>>

(* The handler of the next message that was fetched.                       *)
HandleJob(c) ==
    LET s == HandlePendingMsg(PendingNow(c), Head(job.msgs))
    IN  /\ job.conn = c /\ job.msgs # <<>>
        /\ PendingDid(c, s)
        /\ toEp' = Send(toEp, c, s.out)
        /\ job' = [job EXCEPT !.msgs = Tail(@)]
        /\ UNCHANGED <<ep, early, gen, up, lost, turn, toRtr, place, nodes, needPwd>>

(* The rest of router_nodes::_do_handle_pending for c: the password is     *)
(* asked for, and a connection that can be adopted is.                     *)
EndPending(c) ==
    LET s == TryRequestPassword(c, PendingNow(c))
        confirm == [kind |-> "confirmId", id |-> s.p.id]
    IN  /\ job.conn = c /\ job.msgs = <<>>
        /\ PendingDid(c, s)
        /\ job' = NoJob
        /\ IF CanBeAdopted(s.p)
           THEN /\ toEp' = Send(toEp, c, Append(s.out, confirm))
                /\ Adopt(c, s.p.id)
           ELSE /\ toEp' = Send(toEp, c, s.out)
                /\ UNCHANGED <<place, nodes, up, lost>>
        /\ UNCHANGED <<ep, early, gen, turn, toRtr, needPwd>>

(* _should_request_pwd expires.                                            *)
PasswordTimeout(c) ==
    LET quiet == /\ toRtr[c] = <<>> /\ toEp[c] = <<>>
                 /\ job.conn # c /\ ~turn[c[1]].on
    IN  /\ place[c] = "pending"
        /\ needPwd /\ ~pend[c].due /\ ~pend[c].verified
        /\ Expires(c[1], quiet)
        /\ pend' = [pend EXCEPT ![c].due = TRUE]
        /\ UNCHANGED <<ep, gen, up, lost, turn, job, toRtr, toEp, place, nodes, seq, needPwd>>

(* The messages of a node: those of the handshake are of no effect any     *)
(* more (_handle_special_common).                                          *)
HandleNode(c) ==
    /\ ~job.on /\ place[c] = "node"
    /\ toRtr[c] # <<>>
    /\ toRtr' = [toRtr EXCEPT ![c] = <<>>]
    /\ UNCHANGED <<ep, early, gen, up, lost, turn, job, toEp, place, pend, nodes, seq, needPwd>>

-----------------------------------------------------------------------------
(* The connections.                                                        *)

(* The current connection of e is lost; the first n messages have reached  *)
(* the router's side of it.                                                *)
Break(e, n) ==
    /\ up[e]
    /\ gen[e] < MaxConns[e]
    /\ up' = [up EXCEPT ![e] = FALSE]
    /\ lost' = [lost EXCEPT ![e] = @ \/ HasOrTakesId(e)]
    /\ toRtr' = [toRtr EXCEPT ![Current(e)] = Fetched(@, n)]
    /\ toEp' = [toEp EXCEPT ![Current(e)] = <<>>]
    /\ UNCHANGED <<ep, early, gen, turn, job, place, pend, nodes, seq, needPwd>>

(* The connector connects again, which it does when an update begins, and  *)
(* the router accepts the connection.                                      *)
Reconnect(e) ==
    /\ ~up[e] /\ ~turn[e].on
    /\ gen[e] < MaxConns[e]
    /\ up' = [up EXCEPT ![e] = TRUE]
    /\ gen' = [gen EXCEPT ![e] = @ + 1]
    /\ place' = [place EXCEPT ![<<e, gen[e] + 1>>] = "pending"]
    /\ UNCHANGED <<ep, early, lost, turn, job, toRtr, toEp, pend, nodes, seq, needPwd>>

(* remove_timeouted: the connection was pending for too long.              *)
PendingTimeout(c) ==
    /\ ~job.on /\ place[c] = "pending"
    /\ c[2] < MaxConns[c[1]]
    /\ place' = [place EXCEPT ![c] = "gone"]
    /\ Close({c})
    /\ toRtr' = [toRtr EXCEPT ![c] = <<>>]
    /\ toEp' = [toEp EXCEPT ![c] = <<>>]
    /\ UNCHANGED <<ep, early, gen, turn, job, pend, nodes, seq, needPwd>>

BeginStep(e) == \E n \in 0 .. Len(toEp[Current(e)]) : BeginUpdate(e, n)
PendingStep(c) == \E n \in 0 .. Len(toRtr[c]) : BeginPending(c, n)

(* Each update goes on to its end.                                         *)
UpdateStep(e) == BeginUpdate(e, Len(toEp[Current(e)])) \/ HandleFetched(e) \/ EndUpdate(e)
JobStep(c) == HandleJob(c) \/ EndPending(c)

BreakStep(e) == \E n \in 0 .. Len(toRtr[Current(e)]) : Break(e, n)

Next ==
    \/ \E e \in Endpoints :
          \/ BeginStep(e) \/ HandleFetched(e) \/ EndUpdate(e)
          \/ NoIdTimeout(e) \/ BreakStep(e) \/ Reconnect(e)
    \/ \E c \in Conns :
          \/ PendingStep(c) \/ HandleJob(c) \/ EndPending(c)
          \/ PasswordTimeout(c) \/ HandleNode(c) \/ PendingTimeout(c)

Spec == Init /\ [][Next]_vars

(* Both programs call update over and over, their timers expire, and a     *)
(* connector tries again; the router comes to each of its connections.     *)
(* Nothing makes connections break or time out.                            *)
FairSpec ==
    /\ Spec
    /\ \A e \in Endpoints :
          /\ WF_vars(UpdateStep(e))
          /\ WF_vars(NoIdTimeout(e))
          /\ WF_vars(Reconnect(e))
    /\ \A c \in Conns :
          /\ SF_vars(BeginPending(c, Len(toRtr[c])))
          /\ WF_vars(JobStep(c))
          /\ WF_vars(PasswordTimeout(c))
          /\ SF_vars(HandleNode(c))

-----------------------------------------------------------------------------

EpMsg == [kind : {"assignId", "confirmId"}, id : Nat] \cup
         [kind : {"reqRutrPwd"}, id : Nat, nonce : Nat]
RtrMsg == [kind : {"requestId"}] \cup [kind : {"annEndptId"}, id : Nat] \cup
          [kind : {"encRutrPwd"}, nonce : Nat]

EpState == [id : Nat, router : BOOLEAN, due : BOOLEAN]
PendState == [id : Nat, nonce : Nat, due : BOOLEAN, verified : BOOLEAN]

TypeOK ==
    /\ ep \in [Endpoints -> EpState]
    /\ early \in [Endpoints -> Nat]
    /\ gen \in [Endpoints -> Nat] /\ \A e \in Endpoints : Current(e) \in Conns
    /\ up \in [Endpoints -> BOOLEAN] /\ lost \in [Endpoints -> BOOLEAN]
    /\ turn \in [Endpoints -> [on : BOOLEAN, had : BOOLEAN, msgs : Seq(EpMsg)]]
    /\ job \in [on : BOOLEAN, conn : Conns \cup {<<>>}, msgs : Seq(RtrMsg)]
    /\ toRtr \in [Conns -> Seq(RtrMsg)] /\ toEp \in [Conns -> Seq(EpMsg)]
    /\ place \in [Conns -> {"none", "pending", "node", "gone"}]
    /\ pend \in [Conns -> PendState]
    /\ NodeIds \subseteq Nat /\ \A id \in NodeIds : nodes[id] \in Conns
    /\ seq \in Nat /\ needPwd \in BOOLEAN

(* The router and the endpoint agree on the id: the endpoint behind a      *)
(* node's usable connection has the node's id, or is still waiting for the *)
(* confirmation of the id it was configured with.                          *)
NodeIdAgrees ==
    \A id \in NodeIds :
        LET c == nodes[id]
            e == c[1]
        IN  (place[c] = "node" /\ Alive(c)) =>
                \/ ep[e].id = id
                \/ ep[e].id = 0 /\ PreId[e] = id

(* When the router requires the password, a connection becomes a node only *)
(* if the endpoint behind it could encrypt the password.                   *)
NodesKnowThePassword ==
    needPwd => \A c \in Conns : place[c] = "node" => c[1] \in KnowsPwd

(* Two nodes never share a connection, and a node's connection is not      *)
(* pending any more: each connection has one place in the router.          *)
NodesHaveTheirOwnConnection ==
    /\ \A i, j \in NodeIds : nodes[i] = nodes[j] => i = j
    /\ \A id \in NodeIds : place[nodes[id]] = "node"

Registered(e) ==
    /\ HasId(e)
    /\ ep[e].id \in NodeIds
    /\ nodes[ep[e].id] = Current(e)

Confirmed(e) == up[e] /\ Registered(e)

CanAnswer(e) == ~needPwd \/ (e \in KnowsPwd /\ ~HasPreId(e))

(* An endpoint that stays connected gets an id and becomes a node of the   *)
(* router, in spite of early timeouts and of connections lost before it    *)
(* had an id.                                                              *)
EventuallyRegistered ==
    \A e \in Endpoints :
        (CanAnswer(e) /\ <>[](up[e] /\ ~lost[e])) => <>[]Confirmed(e)

-----------------------------------------------------------------------------
(* What the three invariants rest on.                                      *)

(* The id that e has, or the one it was configured with while it waits for *)
(* the confirmation.                                                       *)
IsIdOf(e, id) == id # 0 /\ (ep[e].id = id \/ (ep[e].id = 0 /\ PreId[e] = id))

(* Everything that is on its way is true: only the endpoints that have no  *)
(* id of their own ask for one and are given one, announcements and        *)
(* confirmations are of the endpoint's id, and the password comes only     *)
(* from those that know it.                                                *)
TrueToRtr(e) == {m \in RtrMsg :
    /\ m.kind = "requestId" => ~HasPreId(e)
    /\ m.kind = "annEndptId" => IsIdOf(e, m.id)
    /\ m.kind = "encRutrPwd" => e \in KnowsPwd}

TrueToEp(e) == {m \in EpMsg :
    /\ m.kind = "assignId" => ~HasPreId(e)
    /\ m.kind = "confirmId" => IsIdOf(e, m.id)}

MessagesAreTrue ==
    /\ \A c \in Conns : toRtr[c] \in Seq(TrueToRtr(c[1])) /\ toEp[c] \in Seq(TrueToEp(c[1]))
    /\ \A e \in Endpoints : turn[e].msgs \in Seq(TrueToEp(e))
    /\ job.on => job.msgs \in Seq(TrueToRtr(job.conn[1]))

(* So is what the router remembers of its connections.                     *)
RouterIsRight ==
    /\ \A c \in Conns :
          /\ pend[c].id # 0 => IsIdOf(c[1], pend[c].id)
          /\ pend[c].verified => c[1] \in KnowsPwd
    /\ \A id \in NodeIds : IsIdOf(nodes[id][1], id)

(* Connections that are not made yet are nowhere; the router is busy with  *)
(* a pending connection.                                                   *)
PlacesAreRight ==
    /\ \A c \in Conns : c[2] > gen[c[1]] => place[c] = "none"
    /\ IF job.on THEN job.conn \in Conns /\ place[job.conn] = "pending" ELSE job = NoJob

(* The inductive invariant.                                                *)
HandshakeInv ==
    /\ TypeOK
    /\ MessagesAreTrue
    /\ RouterIsRight
    /\ PlacesAreRight
    /\ NodesHaveTheirOwnConnection
    /\ NodesKnowThePassword

=============================================================================
