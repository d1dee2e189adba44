--------------------------- MODULE Handshake_proofs ---------------------------
(***************************************************************************)
(* Proofs about the handshake, for any number of endpoints and connections *)
(* and every way of losing and re-making them: a node of the router is an  *)
(* endpoint that has the node's id, no two nodes share a connection, and   *)
(* without the password nobody becomes a node where one is required.       *)
(***************************************************************************)
EXTENDS Handshake, WellFoundedInduction, TLAPS

-----------------------------------------------------------------------------
(* Sequences and numbers.                                                  *)

LEMMA SeqGrows ==
  ASSUME NEW S, NEW T, S \subseteq T
  PROVE  Seq(S) \subseteq Seq(T)
  OBVIOUS

(* What is fetched from a sequence and what remains are sequences of the   *)
(* same kind.                                                              *)
LEMMA FetchedAndRemaining ==
  ASSUME NEW S, NEW s \in Seq(S), NEW n \in 0 .. Len(s)
  PROVE  Fetched(s, n) \in Seq(S) /\ Remaining(s, n) \in Seq(S)
  BY DEF Fetched, Remaining

LEMMA HeadAndTail ==
  ASSUME NEW S, NEW s \in Seq(S), s # <<>>
  PROVE  Head(s) \in S /\ Tail(s) \in Seq(S)
  OBVIOUS

LEMMA AppendOne ==
  ASSUME NEW S, NEW m \in S
  PROVE  Append(<<>>, m) \in Seq(S)
  OBVIOUS

(* A nonempty set of numbers has a smallest one.                           *)
LEMMA MinIsIn ==
  ASSUME NEW T \in SUBSET Nat, T # {}
  PROVE  Min(T) \in T
<1>1. PICK x \in T : \A y \in T : ~(<<y, x>> \in OpToRel(<, Nat))
  BY NatLessThanWellFounded, WFMin
<1>2. OpToRel(<, Nat) = {ss \in Nat \X Nat : ss[1] < ss[2]}
  BY DEF OpToRel
<1>3. ASSUME NEW y \in T PROVE x <= y
  <2>1. ~(y < x)
    BY <1>1, <1>2
  <2>2. QED
    BY <2>1
<1>4. QED
  BY <1>3 DEF Min

LEMMA NextIdIsNat ==
  ASSUME NEW n \in Nat
  PROVE  NextId(n) \in Nat
<1> DEFINE above == {i \in n .. (IdEnd - 1) : i \notin NodeIds}
           below == {i \in (IdBase + 1) .. (IdEnd - 1) : i \notin NodeIds}
<1>1. above \in SUBSET Nat /\ below \in SUBSET Nat
  BY HandshakeAssumption
<1>2. above # {} => Min(above) \in Nat
  BY <1>1, MinIsIn
<1>3. below # {} => Min(below) \in Nat
  BY <1>1, MinIsIn
<1> HIDE DEF above, below
<1>4. NextId(n) = IF n \notin NodeIds THEN n
                  ELSE IF above # {} THEN Min(above)
                  ELSE IF below # {} THEN Min(below)
                  ELSE 0
  BY DEF NextId, above, below
<1>5. QED
  BY <1>2, <1>3, <1>4

-----------------------------------------------------------------------------
(* Connections and ids.                                                    *)

LEMMA ConnIsPair ==
  /\ \A c \in Conns : c[1] \in Endpoints /\ c[2] \in Nat \ {0} /\ c # <<>>
                      /\ c = <<c[1], c[2]>> /\ c[2] <= MaxConns[c[1]]
  /\ \A e \in Endpoints, k \in Nat \ {0} : k <= MaxConns[e] => <<e, k>> \in Conns
  BY HandshakeAssumption DEF Conns

(* An endpoint takes only an id that nobody has said it has another of.    *)
LEMMA IdsAreKept ==
  ASSUME TypeOK, NEW e \in Endpoints,
         NEW st \in EpState,
         ep' = [ep EXCEPT ![e] = st],
         st.id = ep[e].id \/ (ep[e].id = 0 /\ (PreId[e] = 0 \/ st.id = PreId[e]))
  PROVE  /\ \A d \in Endpoints, id \in Nat : IsIdOf(d, id) => IsIdOf(d, id)'
         /\ \A d \in Endpoints : /\ TrueToRtr(d) \subseteq TrueToRtr(d)'
                                 /\ TrueToEp(d) \subseteq TrueToEp(d)'
<1>1. ASSUME NEW d \in Endpoints, NEW id \in Nat, IsIdOf(d, id)
      PROVE  IsIdOf(d, id)'
  <2>1. CASE d = e
    BY <1>1, <2>1, HandshakeAssumption DEF IsIdOf, TypeOK, EpState
  <2>2. CASE d # e
    BY <1>1, <2>2 DEF IsIdOf, TypeOK, EpState
  <2>3. QED
    BY <2>1, <2>2
<1>2. ASSUME NEW d \in Endpoints
      PROVE  TrueToRtr(d) \subseteq TrueToRtr(d)' /\ TrueToEp(d) \subseteq TrueToEp(d)'
  <2>1. \A m \in RtrMsg : m.kind = "annEndptId" => m.id \in Nat
    BY DEF RtrMsg
  <2>2. \A m \in EpMsg : m.kind = "confirmId" => m.id \in Nat
    BY DEF EpMsg
  <2>3. TrueToRtr(d) \subseteq TrueToRtr(d)'
    BY <1>1, <2>1 DEF TrueToRtr
  <2>4. TrueToEp(d) \subseteq TrueToEp(d)'
    BY <1>1, <2>2 DEF TrueToEp
  <2>5. QED
    BY <2>3, <2>4
<1>3. QED
  BY <1>1, <1>2

-----------------------------------------------------------------------------
(* The endpoint's handlers.                                                *)

(* What a handler of e may do: keep its id, or take the one it may take,   *)
(* and send what is true.                                                  *)
IsRight(e, s) ==
  /\ s.st \in EpState
  /\ s.st.id = ep[e].id \/ (ep[e].id = 0 /\ (PreId[e] = 0 \/ s.st.id = PreId[e]))
  /\ s.out \in Seq(TrueToRtr(e))

Start(e) == [st |-> ep[e], out |-> <<>>]

LEMMA StartIsRight ==
  ASSUME TypeOK, NEW e \in Endpoints
  PROVE  IsRight(e, Start(e)) /\ Start(e).st = ep[e] /\ Start(e).out = <<>>
                              /\ ep[e] \in EpState
  BY DEF IsRight, Start, TypeOK

LEMMA RightIf ==
  ASSUME NEW e, NEW st \in EpState, NEW out \in Seq(TrueToRtr(e)),
         NEW s, s = [st |-> st, out |-> out],
         st.id = ep[e].id \/ (ep[e].id = 0 /\ (PreId[e] = 0 \/ st.id = PreId[e]))
  PROVE  IsRight(e, s)
  BY DEF IsRight

LEMMA RequestIsRight ==
  ASSUME TypeOK, NEW e \in Endpoints
  PROVE  IsRight(e, UpdateRequestId(e, Start(e)))
<1> DEFINE m == [kind |-> "requestId"]
<1>1. CASE ep[e].id = 0 /\ ep[e].due /\ ~HasPreId(e)
  <2>1. m \in TrueToRtr(e)
    BY <1>1 DEF TrueToRtr, RtrMsg
  <2>2. Append(<<>>, m) \in Seq(TrueToRtr(e))
    BY <2>1, AppendOne
  <2>3. [ep[e] EXCEPT !.due = FALSE] \in EpState /\ [ep[e] EXCEPT !.due = FALSE].id = ep[e].id
    BY StartIsRight DEF EpState
  <2>4. UpdateRequestId(e, Start(e)) = [st |-> [ep[e] EXCEPT !.due = FALSE], out |-> Append(<<>>, m)]
    BY <1>1 DEF UpdateRequestId, Start
  <2> DEFINE st == [ep[e] EXCEPT !.due = FALSE]
  <2> HIDE DEF m, st
  <2>5. QED
    BY <2>2, <2>3, <2>4, RightIf DEF st
<1>2. CASE ~(ep[e].id = 0 /\ ep[e].due /\ ~HasPreId(e))
  <2>1. UpdateRequestId(e, Start(e)) = Start(e)
    BY <1>2, StartIsRight DEF UpdateRequestId
  <2>2. QED
    BY <2>1, StartIsRight
<1>3. QED
  BY <1>1, <1>2

LEMMA TakesId ==
  ASSUME NEW p \in EpState, NEW i \in Nat
  PROVE  [p EXCEPT !.id = i, !.router = TRUE] \in EpState
         /\ [p EXCEPT !.id = i, !.router = TRUE].id = i
  BY DEF EpState

LEMMA SpecialIsRight ==
  ASSUME TypeOK, NEW e \in Endpoints, NEW m \in TrueToEp(e)
  PROVE  IsRight(e, HandleSpecial(e, Start(e), m))
<1>0. m \in EpMsg /\ m.id \in Nat /\ m.kind \in {"assignId", "confirmId", "reqRutrPwd"}
      /\ (m.kind = "assignId" => ~HasPreId(e)) /\ (m.kind = "confirmId" => IsIdOf(e, m.id))
      /\ (m.kind = "reqRutrPwd" => m.nonce \in Nat)
  BY DEF TrueToEp, EpMsg
<1>1. CASE m.kind \in {"assignId", "confirmId"}
  <2>1. HandleSpecial(e, Start(e), m) = HandleAssignId(Start(e), m)
    BY <1>1 DEF HandleSpecial, HandleAssignId, HandleConfirmId
  <2>2. CASE ep[e].id = 0
    <3>1. PreId[e] = 0 \/ m.id = PreId[e]
      BY <1>0, <1>1, <2>2 DEF HasPreId, IsIdOf
    <3> DEFINE st == [ep[e] EXCEPT !.id = m.id, !.router = TRUE]
    <3>2. HandleAssignId(Start(e), m) = [st |-> st, out |-> <<>>]
      BY <2>2 DEF HandleAssignId, Start
    <3>3. st \in EpState /\ st.id = m.id
      BY <1>0, TakesId, StartIsRight
    <3>4. <<>> \in Seq(TrueToRtr(e))
      OBVIOUS
    <3> HIDE DEF st
    <3>5. QED
      BY <2>1, <2>2, <3>1, <3>2, <3>3, <3>4, RightIf
  <2>3. CASE ep[e].id # 0
    <3>1. HandleAssignId(Start(e), m) = Start(e)
      BY <2>3 DEF HandleAssignId, Start
    <3>2. QED
      BY <2>1, <3>1, StartIsRight
  <2>4. QED
    BY <2>2, <2>3
<1>2. CASE m.kind = "reqRutrPwd"
  <2> DEFINE a == [kind |-> "encRutrPwd", nonce |-> m.nonce]
  <2>1. e \in KnowsPwd => a \in TrueToRtr(e)
    BY <1>0, <1>2 DEF TrueToRtr, RtrMsg
  <2>2. e \in KnowsPwd => Append(<<>>, a) \in Seq(TrueToRtr(e))
    BY <2>1, AppendOne
  <2>3. HandleSpecial(e, Start(e), m) =
           IF ep[e].router /\ ep[e].id # 0 /\ m.id = ep[e].id /\ e \in KnowsPwd
           THEN [st |-> ep[e], out |-> Append(<<>>, a)]
           ELSE Start(e)
    BY <1>2 DEF HandleSpecial, HandlePasswordRequest, Start
  <2> HIDE DEF a
  <2>4. QED
    BY <2>2, <2>3, StartIsRight DEF IsRight
<1>3. QED
  BY <1>0, <1>1, <1>2

LEMMA CheckIsRight ==
  ASSUME TypeOK, NEW e \in Endpoints
  PROVE  IsRight(e, UpdateCheckId(e, Start(e)))
<1> DEFINE m == [kind |-> "annEndptId", id |-> ep[e].id]
           p == [kind |-> "annEndptId", id |-> PreId[e]]
<1>1. ep[e] \in EpState /\ ep[e].id \in Nat /\ PreId[e] \in Nat
  BY StartIsRight, HandshakeAssumption DEF EpState
<1>2. CASE ep[e].id # 0
  <2>1. m \in TrueToRtr(e)
    BY <1>1, <1>2 DEF TrueToRtr, RtrMsg, IsIdOf
  <2>2. Append(<<>>, m) \in Seq(TrueToRtr(e))
    BY <2>1, AppendOne
  <2>3. UpdateCheckId(e, Start(e)) = [st |-> ep[e], out |-> Append(<<>>, m)]
    BY <1>2 DEF UpdateCheckId, Start
  <2> HIDE DEF m
  <2>4. QED
    BY <1>1, <2>2, <2>3 DEF IsRight
<1>3. CASE ep[e].id = 0 /\ HasPreId(e) /\ ep[e].due
  <2>1. p \in TrueToRtr(e)
    BY <1>1, <1>3 DEF TrueToRtr, RtrMsg, IsIdOf, HasPreId
  <2>2. Append(<<>>, p) \in Seq(TrueToRtr(e))
    BY <2>1, AppendOne
  <2>3. [ep[e] EXCEPT !.due = FALSE] \in EpState /\ [ep[e] EXCEPT !.due = FALSE].id = ep[e].id
    BY StartIsRight DEF EpState
  <2>4. UpdateCheckId(e, Start(e)) = [st |-> [ep[e] EXCEPT !.due = FALSE], out |-> Append(<<>>, p)]
    BY <1>3 DEF UpdateCheckId, Start
  <2> DEFINE st == [ep[e] EXCEPT !.due = FALSE]
  <2> HIDE DEF p, st
  <2>5. QED
    BY <2>2, <2>3, <2>4, RightIf DEF st
<1>4. CASE ep[e].id = 0 /\ ~(HasPreId(e) /\ ep[e].due)
  <2>1. UpdateCheckId(e, Start(e)) = Start(e)
    BY <1>4, StartIsRight DEF UpdateCheckId
  <2>2. QED
    BY <2>1, StartIsRight
<1>5. QED
  BY <1>2, <1>3, <1>4

(* Everything true of ids stays true.                                      *)
IdsKept ==
  /\ \A d \in Endpoints, id \in Nat : IsIdOf(d, id) => IsIdOf(d, id)'
  /\ \A d \in Endpoints : /\ TrueToRtr(d) \subseteq TrueToRtr(d)'
                          /\ TrueToEp(d) \subseteq TrueToEp(d)'

(* What is sent to the router is true in the next state.                   *)
ToRtrIsRight ==
  toRtr' \in [Conns -> Seq(RtrMsg)] /\ \A c \in Conns : toRtr'[c] \in Seq(TrueToRtr(c[1])')

ToEpIsRight ==
  toEp' \in [Conns -> Seq(EpMsg)] /\ \A c \in Conns : toEp'[c] \in Seq(TrueToEp(c[1])')

TurnIsRight ==
  /\ turn' \in [Endpoints -> [on : BOOLEAN, had : BOOLEAN, msgs : Seq(EpMsg)]]
  /\ \A e \in Endpoints : turn'[e].msgs \in Seq(TrueToEp(e)')

JobIsRight ==
  /\ job' \in [on : BOOLEAN, conn : Conns \cup {<<>>}, msgs : Seq(RtrMsg)]
  /\ (job.on => job.msgs \in Seq(TrueToRtr(job.conn[1])))'

LEMMA TrueAreMessages ==
  ASSUME NEW e
  PROVE  /\ TrueToRtr(e) \subseteq RtrMsg /\ TrueToEp(e) \subseteq EpMsg
         /\ Seq(TrueToRtr(e)) \subseteq Seq(RtrMsg) /\ Seq(TrueToEp(e)) \subseteq Seq(EpMsg)
<1>1. TrueToRtr(e) \subseteq RtrMsg /\ TrueToEp(e) \subseteq EpMsg
  BY DEF TrueToRtr, TrueToEp
<1>2. QED
  BY <1>1, SeqGrows

LEMMA SameIdsAreKept ==
  ASSUME ep' = ep
  PROVE  IdsKept
  BY DEF IdsKept, IsIdOf, TrueToRtr, TrueToEp

LEMMA EndpointDidKeeps ==
  ASSUME HandshakeInv, NEW e \in Endpoints, NEW s, IsRight(e, s), EndpointDid(e, s)
  PROVE  ep' \in [Endpoints -> EpState] /\ IdsKept /\ ToRtrIsRight
<1>1. ep' \in [Endpoints -> EpState]
  BY DEF HandshakeInv, TypeOK, IsRight, EndpointDid
<1>2. IdsKept
  BY IdsAreKept DEF HandshakeInv, TypeOK, IsRight, EndpointDid, IdsKept
<1> DEFINE c == Current(e)
<1>3. c \in Conns /\ c[1] = e
  BY DEF HandshakeInv, TypeOK, Current
<1>4. toRtr \in [Conns -> Seq(RtrMsg)] /\ \A d \in Conns : toRtr[d] \in Seq(TrueToRtr(d[1]))
  BY DEF HandshakeInv, TypeOK, MessagesAreTrue
<1>5. s.out \in Seq(TrueToRtr(e)) /\ toRtr' = Send(toRtr, c, s.out)
  BY DEF IsRight, EndpointDid
<1> HIDE DEF c
<1>6. /\ toRtr' \in [Conns -> Seq(RtrMsg)] /\ toRtr'[c] \in Seq(TrueToRtr(e))
      /\ \A d \in Conns \ {c} : toRtr'[d] = toRtr[d]
  <2> DEFINE S == TrueToRtr(e)
             T == Seq(RtrMsg)
  <2>1. toRtr \in [Conns -> T] /\ toRtr[c] \in Seq(S) /\ s.out \in Seq(S) /\ Seq(S) \subseteq T
    BY <1>3, <1>4, <1>5, TrueAreMessages
  <2> HIDE DEF S, T
  <2>2. /\ Send(toRtr, c, s.out) \in [Conns -> T] /\ Send(toRtr, c, s.out)[c] \in Seq(S)
        /\ \A d \in Conns \ {c} : Send(toRtr, c, s.out)[d] = toRtr[d]
    <3>1. toRtr[c] \o s.out \in Seq(S)
      BY <2>1
    <3>2. QED
      BY <1>3, <2>1, <3>1 DEF Send
  <2>3. QED
    BY <1>5, <2>2 DEF S, T
<1>7. ASSUME NEW d \in Conns
      PROVE  toRtr'[d] \in Seq(TrueToRtr(d[1])')
  <2>1. toRtr'[d] \in Seq(TrueToRtr(d[1]))
    BY <1>3, <1>4, <1>6
  <2>2. TrueToRtr(d[1]) \subseteq TrueToRtr(d[1])'
    BY <1>2, ConnIsPair DEF IdsKept
  <2>3. QED
    BY <2>1, <2>2, SeqGrows
<1>8. QED
  BY <1>1, <1>2, <1>6, <1>7 DEF ToRtrIsRight

(* What the steps leave alone stays right.                                 *)
LEMMA Unchanged ==
  ASSUME HandshakeInv, IdsKept
  PROVE  /\ toRtr' = toRtr => ToRtrIsRight
         /\ toEp' = toEp => ToEpIsRight
         /\ turn' = turn => TurnIsRight
         /\ job' = job => JobIsRight
         /\ <<pend, nodes>>' = <<pend, nodes>> => RouterIsRight'
         /\ <<place, gen, job>>' = <<place, gen, job>> => PlacesAreRight'
         /\ <<place, nodes>>' = <<place, nodes>> => NodesHaveTheirOwnConnection'
         /\ <<place, needPwd>>' = <<place, needPwd>> => NodesKnowThePassword'
<1>1. \A d \in Endpoints : /\ Seq(TrueToRtr(d)) \subseteq Seq(TrueToRtr(d)')
                           /\ Seq(TrueToEp(d)) \subseteq Seq(TrueToEp(d)')
  BY SeqGrows DEF IdsKept
<1>2. ASSUME toRtr' = toRtr PROVE ToRtrIsRight
  BY <1>1, <1>2, ConnIsPair DEF HandshakeInv, TypeOK, MessagesAreTrue, ToRtrIsRight
<1>3. ASSUME toEp' = toEp PROVE ToEpIsRight
  BY <1>1, <1>3, ConnIsPair DEF HandshakeInv, TypeOK, MessagesAreTrue, ToEpIsRight
<1>4. ASSUME turn' = turn PROVE TurnIsRight
  BY <1>1, <1>4 DEF HandshakeInv, TypeOK, MessagesAreTrue, TurnIsRight
<1>5. ASSUME job' = job PROVE JobIsRight
  <2>1. job.on => job.conn[1] \in Endpoints
    BY ConnIsPair DEF HandshakeInv, PlacesAreRight
  <2>2. ASSUME job.on
        PROVE  job'.msgs \in Seq(TrueToRtr(job.conn[1])')
    <3>1. job.msgs \in Seq(TrueToRtr(job.conn[1]))
      BY <2>2 DEF HandshakeInv, MessagesAreTrue
    <3>2. QED
      BY <1>1, <1>5, <2>1, <2>2, <3>1
  <2>3. job' \in [on : BOOLEAN, conn : Conns \cup {<<>>}, msgs : Seq(RtrMsg)]
    BY <1>5 DEF HandshakeInv, TypeOK
  <2>5. QED
    BY <1>5, <2>2, <2>3 DEF JobIsRight
<1>6. ASSUME <<pend, nodes>>' = <<pend, nodes>> PROVE RouterIsRight'
  <2>1. \A c \in Conns : c[1] \in Endpoints /\ pend[c].id \in Nat
    BY ConnIsPair DEF HandshakeInv, TypeOK, PendState
  <2>2. \A id \in NodeIds : id \in Nat /\ nodes[id][1] \in Endpoints
    BY ConnIsPair DEF HandshakeInv, TypeOK
  <2>3. QED
    BY <1>6, <2>1, <2>2 DEF HandshakeInv, RouterIsRight, IdsKept, NodeIds
<1>7. QED
  BY <1>2, <1>3, <1>4, <1>5, <1>6
     DEF HandshakeInv, PlacesAreRight, NodesHaveTheirOwnConnection, NodesKnowThePassword, NodeIds

LEMMA Together ==
  ASSUME ep' \in [Endpoints -> EpState], early' \in [Endpoints -> Nat],
         gen' \in [Endpoints -> Nat], \A e \in Endpoints : Current(e)' \in Conns,
         up' \in [Endpoints -> BOOLEAN], lost' \in [Endpoints -> BOOLEAN],
         TurnIsRight, JobIsRight, ToRtrIsRight, ToEpIsRight,
         place' \in [Conns -> {"none", "pending", "node", "gone"}],
         pend' \in [Conns -> PendState],
         NodeIds' \subseteq Nat, \A id \in NodeIds' : nodes'[id] \in Conns,
         seq' \in Nat, needPwd' \in BOOLEAN,
         RouterIsRight', PlacesAreRight', NodesHaveTheirOwnConnection', NodesKnowThePassword'
  PROVE  HandshakeInv'
<1>1. TypeOK'
  BY DEF TypeOK, TurnIsRight, JobIsRight, ToRtrIsRight, ToEpIsRight
<1>2. MessagesAreTrue'
  BY DEF MessagesAreTrue, TurnIsRight, JobIsRight, ToRtrIsRight, ToEpIsRight
<1>3. QED
  BY <1>1, <1>2 DEF HandshakeInv

-----------------------------------------------------------------------------
(* The steps of the endpoints.                                             *)

LEMMA BeginUpdateKeeps ==
  ASSUME HandshakeInv, NEW e \in Endpoints,
         NEW n \in 0 .. Len(toEp[Current(e)]), BeginUpdate(e, n)
  PROVE  HandshakeInv'
<1> DEFINE c == Current(e)
<1>1. TypeOK /\ c \in Conns /\ c[1] = e
  BY DEF HandshakeInv, TypeOK, Current
<1>2. toEp \in [Conns -> Seq(EpMsg)] /\ \A d \in Conns : toEp[d] \in Seq(TrueToEp(d[1]))
  BY DEF HandshakeInv, TypeOK, MessagesAreTrue
<1>3. ep' \in [Endpoints -> EpState] /\ IdsKept /\ ToRtrIsRight
  BY <1>1, RequestIsRight, EndpointDidKeeps DEF BeginUpdate, Start
<1>4. Fetched(toEp[c], n) \in Seq(TrueToEp(e)) /\ Remaining(toEp[c], n) \in Seq(TrueToEp(e))
  BY <1>1, <1>2, FetchedAndRemaining
<1>5. \A d \in Endpoints : /\ Seq(TrueToEp(d)) \subseteq Seq(TrueToEp(d)')
                           /\ Seq(TrueToEp(d)) \subseteq Seq(EpMsg)
  BY <1>3, SeqGrows, TrueAreMessages DEF IdsKept
<1>6. TurnIsRight
  <2>1. turn' = [turn EXCEPT ![e] = [on |-> TRUE, had |-> HasId(e), msgs |-> Fetched(toEp[c], n)]]
    BY DEF BeginUpdate
  <2>2. /\ turn \in [Endpoints -> [on : BOOLEAN, had : BOOLEAN, msgs : Seq(EpMsg)]]
        /\ \A d \in Endpoints : turn[d].msgs \in Seq(TrueToEp(d))
    BY DEF HandshakeInv, TypeOK, MessagesAreTrue
  <2>3. HasId(e) \in BOOLEAN
    BY DEF HasId
  <2>4. QED
    BY <1>4, <1>5, <2>1, <2>2, <2>3 DEF TurnIsRight
<1>7. ToEpIsRight
  <2>1. toEp' = [toEp EXCEPT ![c] = Remaining(@, n)]
    BY DEF BeginUpdate
  <2>2. \A d \in Conns : toEp'[d] = IF d = c THEN Remaining(toEp[c], n) ELSE toEp[d]
    BY <1>1, <1>2, <2>1
  <2>3. \A d \in Conns : toEp'[d] \in Seq(TrueToEp(d[1])) /\ d[1] \in Endpoints
    BY <1>1, <1>2, <1>4, <2>2, ConnIsPair
  <2>4. QED
    BY <1>2, <1>5, <2>1, <2>3 DEF ToEpIsRight
<1>8. UNCHANGED <<early, gen, up, lost, job, place, pend, nodes, seq, needPwd>>
  BY DEF BeginUpdate
<1>9. QED
  BY <1>1, <1>3, <1>6, <1>7, <1>8, Unchanged, Together DEF TypeOK, Current, NodeIds

LEMMA HandleFetchedKeeps ==
  ASSUME HandshakeInv, NEW e \in Endpoints, HandleFetched(e)
  PROVE  HandshakeInv'
<1>1. TypeOK
  BY DEF HandshakeInv
<1>2. /\ turn \in [Endpoints -> [on : BOOLEAN, had : BOOLEAN, msgs : Seq(EpMsg)]]
      /\ \A d \in Endpoints : turn[d].msgs \in Seq(TrueToEp(d))
  BY DEF HandshakeInv, TypeOK, MessagesAreTrue
<1>3. Head(turn[e].msgs) \in TrueToEp(e) /\ Tail(turn[e].msgs) \in Seq(TrueToEp(e))
  BY <1>2, HeadAndTail DEF HandleFetched
<1>4. ep' \in [Endpoints -> EpState] /\ IdsKept /\ ToRtrIsRight
  BY <1>1, <1>3, SpecialIsRight, EndpointDidKeeps DEF HandleFetched, Start
<1>5. \A d \in Endpoints : /\ Seq(TrueToEp(d)) \subseteq Seq(TrueToEp(d)')
                           /\ Seq(TrueToEp(d)) \subseteq Seq(EpMsg)
  BY <1>4, SeqGrows, TrueAreMessages DEF IdsKept
<1>6. TurnIsRight
  <2>1. turn' = [turn EXCEPT ![e].msgs = Tail(@)]
    BY DEF HandleFetched
  <2>2. QED
    BY <1>2, <1>3, <1>5, <2>1 DEF TurnIsRight
<1>8. UNCHANGED <<early, gen, up, lost, job, toEp, place, pend, nodes, seq, needPwd>>
  BY DEF HandleFetched
<1>9. QED
  BY <1>1, <1>4, <1>6, <1>8, Unchanged, Together DEF TypeOK, Current, NodeIds

LEMMA EndUpdateKeeps ==
  ASSUME HandshakeInv, NEW e \in Endpoints, EndUpdate(e)
  PROVE  HandshakeInv'
<1>1. TypeOK
  BY DEF HandshakeInv
<1>2. ep' \in [Endpoints -> EpState] /\ IdsKept /\ ToRtrIsRight
  BY <1>1, CheckIsRight, StartIsRight, EndpointDidKeeps DEF EndUpdate, Start
<1>3. \A d \in Endpoints : Seq(TrueToEp(d)) \subseteq Seq(TrueToEp(d)')
  BY <1>2, SeqGrows DEF IdsKept
<1>4. TurnIsRight
  <2>1. turn' = [turn EXCEPT ![e] = NoUpdate]
    BY DEF EndUpdate
  <2>2. /\ turn \in [Endpoints -> [on : BOOLEAN, had : BOOLEAN, msgs : Seq(EpMsg)]]
        /\ \A d \in Endpoints : turn[d].msgs \in Seq(TrueToEp(d))
    BY DEF HandshakeInv, TypeOK, MessagesAreTrue
  <2>3. <<>> \in Seq(TrueToEp(e)') /\ <<>> \in Seq(EpMsg)
    OBVIOUS
  <2>4. QED
    BY <1>3, <2>1, <2>2, <2>3 DEF TurnIsRight, NoUpdate
<1>5. UNCHANGED <<early, gen, up, lost, job, toEp, place, pend, nodes, seq, needPwd>>
  BY DEF EndUpdate
<1>6. QED
  BY <1>1, <1>2, <1>4, <1>5, Unchanged, Together DEF TypeOK, Current, NodeIds

LEMMA NoIdTimeoutKeeps ==
  ASSUME HandshakeInv, NEW e \in Endpoints, NoIdTimeout(e)
  PROVE  HandshakeInv'
<1>1. TypeOK /\ ep[e] \in EpState
  BY DEF HandshakeInv, TypeOK
<1>2. [ep[e] EXCEPT !.due = TRUE] \in EpState /\ [ep[e] EXCEPT !.due = TRUE].id = ep[e].id
  BY <1>1 DEF EpState
<1>3. ep' = [ep EXCEPT ![e] = [ep[e] EXCEPT !.due = TRUE]]
  BY DEF NoIdTimeout
<1> DEFINE st == [ep[e] EXCEPT !.due = TRUE]
<1>4. st \in EpState /\ st.id = ep[e].id /\ ep' = [ep EXCEPT ![e] = st]
  BY <1>2, <1>3
<1> HIDE DEF st
<1>5. IdsKept
  BY <1>1, <1>4, IdsAreKept DEF IdsKept
<1>6. early' \in [Endpoints -> Nat]
  <2>1. early \in [Endpoints -> Nat] /\ early[e] + 1 \in Nat
    BY <1>1 DEF TypeOK
  <2>2. early' = early \/ early' = [early EXCEPT ![e] = early[e] + 1]
    BY DEF NoIdTimeout, Expires
  <2>3. QED
    BY <2>1, <2>2
<1>7. UNCHANGED <<gen, up, lost, turn, job, toRtr, toEp, place, pend, nodes, seq, needPwd>>
  BY DEF NoIdTimeout
<1>8. QED
  BY <1>1, <1>4, <1>5, <1>6, <1>7, Unchanged, Together DEF TypeOK, Current, NodeIds

-----------------------------------------------------------------------------
(* The router's handlers.                                                  *)

(* What a handler of the pending connection c may do: remember what is     *)
(* true, and send what is true.                                            *)
IsRightFor(c, s) ==
  /\ s.p \in PendState /\ s.seq \in Nat
  /\ s.p.id # 0 => IsIdOf(c[1], s.p.id)
  /\ s.p.verified => c[1] \in KnowsPwd
  /\ s.out \in Seq(TrueToEp(c[1]))

LEMMA NowIsRight ==
  ASSUME HandshakeInv, NEW c \in Conns
  PROVE  /\ IsRightFor(c, PendingNow(c)) /\ PendingNow(c).p = pend[c]
         /\ PendingNow(c).seq = seq /\ PendingNow(c).out = <<>>
  BY DEF HandshakeInv, TypeOK, RouterIsRight, IsRightFor, PendingNow

LEMMA RightForIf ==
  ASSUME NEW c, NEW p \in PendState, NEW q \in Nat, NEW out \in Seq(TrueToEp(c[1])),
         p.id # 0 => IsIdOf(c[1], p.id), p.verified => c[1] \in KnowsPwd,
         NEW s, s = [p |-> p, seq |-> q, out |-> out]
  PROVE  IsRightFor(c, s)
  BY DEF IsRightFor

LEMMA PendingMsgIsRight ==
  ASSUME HandshakeInv, NEW c \in Conns, NEW m \in TrueToRtr(c[1])
  PROVE  IsRightFor(c, HandlePendingMsg(PendingNow(c), m))
<1>0. /\ m.kind \in {"requestId", "annEndptId", "encRutrPwd"}
      /\ (m.kind = "requestId" => ~HasPreId(c[1]))
      /\ (m.kind = "annEndptId" => m.id \in Nat /\ IsIdOf(c[1], m.id))
      /\ (m.kind = "encRutrPwd" => c[1] \in KnowsPwd)
  BY DEF TrueToRtr, RtrMsg
<1>1. IsRightFor(c, PendingNow(c)) /\ pend[c] \in PendState /\ seq \in Nat
  BY NowIsRight DEF IsRightFor
<1>2. /\ pend[c].id # 0 => IsIdOf(c[1], pend[c].id)
      /\ pend[c].verified => c[1] \in KnowsPwd
  BY DEF HandshakeInv, RouterIsRight
<1>3. <<>> \in Seq(TrueToEp(c[1]))
  OBVIOUS
<1>4. CASE m.kind = "requestId"
  <2> DEFINE id == NextId(seq)
             a == [kind |-> "assignId", id |-> id]
  <2>1. id \in Nat
    BY <1>1, NextIdIsNat
  <2>2. a \in TrueToEp(c[1])
    BY <1>0, <1>4, <2>1 DEF TrueToEp, EpMsg
  <2>3. Append(<<>>, a) \in Seq(TrueToEp(c[1]))
    BY <2>2, AppendOne
  <2> HIDE DEF a, id
  <2>4. HandlePendingMsg(PendingNow(c), m) =
           IF id = 0 THEN PendingNow(c)
           ELSE [p |-> pend[c], seq |-> id + 1, out |-> Append(<<>>, a)]
    <3>1. HandlePendingMsg(PendingNow(c), m) = AssignId(PendingNow(c))
      BY <1>4 DEF HandlePendingMsg
    <3>2. NextId(PendingNow(c).seq) = id
      BY NowIsRight DEF id
    <3>3. CASE id = 0
      BY <3>1, <3>2, <3>3 DEF AssignId
    <3>4. CASE id # 0
      BY <3>1, <3>2, <3>4 DEF AssignId, PendingNow, a
    <3>5. QED
      BY <3>3, <3>4
  <2>5. id + 1 \in Nat
    BY <2>1
  <2>6. QED
    BY <1>1, <1>2, <2>3, <2>4, <2>5, RightForIf
<1>5. CASE m.kind = "annEndptId"
  <2> DEFINE p == [pend[c] EXCEPT !.id = m.id]
  <2>1. p \in PendState /\ p.id = m.id /\ p.verified = pend[c].verified
    BY <1>0, <1>1, <1>5 DEF PendState
  <2>2. HandlePendingMsg(PendingNow(c), m) = [p |-> p, seq |-> seq, out |-> <<>>]
    BY <1>5 DEF HandlePendingMsg, PendingNow
  <2> HIDE DEF p
  <2>3. QED
    BY <1>0, <1>1, <1>2, <1>3, <1>5, <2>1, <2>2, RightForIf
<1>6. CASE m.kind = "encRutrPwd"
  <2> DEFINE p == [pend[c] EXCEPT !.verified = TRUE]
  <2>1. p \in PendState /\ p.id = pend[c].id
    BY <1>1 DEF PendState
  <2>2. HandlePendingMsg(PendingNow(c), m) =
           IF m.nonce = pend[c].nonce THEN [p |-> p, seq |-> seq, out |-> <<>>] ELSE PendingNow(c)
    <3>1. CASE m.nonce = pend[c].nonce
      <4>1. HandlePendingMsg(PendingNow(c), m) = [PendingNow(c) EXCEPT !.p.verified = TRUE]
        BY <1>6, <3>1, NowIsRight DEF HandlePendingMsg
      <4>2. QED
        BY <3>1, <4>1 DEF PendingNow
    <3>2. CASE m.nonce # pend[c].nonce
      BY <1>6, <3>2 DEF HandlePendingMsg, PendingNow
    <3>3. QED
      BY <3>1, <3>2
  <2> HIDE DEF p
  <2>3. QED
    BY <1>0, <1>1, <1>2, <1>3, <1>6, <2>1, <2>2, RightForIf
<1>7. QED
  BY <1>0, <1>4, <1>5, <1>6

LEMMA RequestPasswordIsRight ==
  ASSUME HandshakeInv, NEW c \in Conns
  PROVE  /\ IsRightFor(c, TryRequestPassword(c, PendingNow(c)))
         /\ TryRequestPassword(c, PendingNow(c)).p.id = pend[c].id
         /\ TryRequestPassword(c, PendingNow(c)).p.verified = pend[c].verified
<1>1. IsRightFor(c, PendingNow(c)) /\ pend[c] \in PendState /\ seq \in Nat
      /\ pend[c].id \in Nat /\ pend[c].nonce \in Nat
  BY NowIsRight DEF IsRightFor, PendState
<1>2. /\ pend[c].id # 0 => IsIdOf(c[1], pend[c].id)
      /\ pend[c].verified => c[1] \in KnowsPwd
  BY DEF HandshakeInv, RouterIsRight
<1> DEFINE k == NewNonce(c, pend[c].nonce)
           p == [pend[c] EXCEPT !.nonce = k, !.due = FALSE]
           q == [kind |-> "reqRutrPwd", id |-> pend[c].id, nonce |-> k]
<1>3. k \in Nat
  <2>1. MaxEarly[c[1]] \in Nat
    BY ConnIsPair, HandshakeAssumption
  <2>2. QED
    BY <1>1, <2>1 DEF NewNonce
<1>4. p \in PendState /\ p.id = pend[c].id /\ p.verified = pend[c].verified
  <2> HIDE DEF k
  <2>1. QED
    BY <1>1, <1>3 DEF PendState
<1>5. q \in TrueToEp(c[1])
  <2> HIDE DEF k
  <2>1. QED
    BY <1>1, <1>3 DEF TrueToEp, EpMsg
<1>6. Append(<<>>, q) \in Seq(TrueToEp(c[1]))
  BY <1>5, AppendOne
<1>7. CASE pend[c].id # 0 /\ needPwd /\ pend[c].due /\ ~pend[c].verified
  <2>1. TryRequestPassword(c, PendingNow(c)) = [p |-> p, seq |-> seq, out |-> Append(<<>>, q)]
    <3> HIDE DEF k
    <3>1. NewNonce(c, PendingNow(c).p.nonce) = k
      BY NowIsRight DEF k
    <3>2. QED
      BY <1>7, <3>1 DEF TryRequestPassword, PendingNow
  <2> HIDE DEF p, q
  <2>2. IsRightFor(c, TryRequestPassword(c, PendingNow(c)))
    BY <1>1, <1>2, <1>4, <1>6, <2>1, RightForIf
  <2>3. TryRequestPassword(c, PendingNow(c)).p = p
    BY <2>1
  <2>4. QED
    BY <1>4, <2>2, <2>3
<1>8. CASE ~(pend[c].id # 0 /\ needPwd /\ pend[c].due /\ ~pend[c].verified)
  <2>1. TryRequestPassword(c, PendingNow(c)) = PendingNow(c)
    BY <1>8, NowIsRight DEF TryRequestPassword
  <2>2. QED
    BY <1>1, <2>1, NowIsRight
<1>9. QED
  BY <1>7, <1>8

LEMMA SentToEp ==
  ASSUME HandshakeInv, NEW c \in Conns, NEW out \in Seq(TrueToEp(c[1])),
         ep' = ep, toEp' = Send(toEp, c, out)
  PROVE  ToEpIsRight
<1>1. toEp \in [Conns -> Seq(EpMsg)] /\ \A d \in Conns : toEp[d] \in Seq(TrueToEp(d[1]))
  BY DEF HandshakeInv, TypeOK, MessagesAreTrue
<1>2. toEp[c] \o out \in Seq(TrueToEp(c[1])) /\ Seq(TrueToEp(c[1])) \subseteq Seq(EpMsg)
  BY <1>1, TrueAreMessages
<1>3. toEp' \in [Conns -> Seq(EpMsg)] /\ \A d \in Conns : toEp'[d] \in Seq(TrueToEp(d[1]))
  BY <1>1, <1>2 DEF Send
<1>4. \A e : TrueToEp(e)' = TrueToEp(e)
  BY DEF TrueToEp, IsIdOf
<1>5. QED
  BY <1>3, <1>4 DEF ToEpIsRight

(* What the router remembers after a handler of c is right, also when c    *)
(* becomes a node.                                                         *)
LEMMA RememberedIsRight ==
  ASSUME HandshakeInv, NEW c \in Conns, NEW s, IsRightFor(c, s), PendingDid(c, s),
         ep' = ep,
         \/ nodes' = nodes
         \/ s.p.id # 0 /\ nodes' = WithNode(c, s.p.id)
  PROVE  /\ pend' \in [Conns -> PendState] /\ seq' \in Nat
         /\ NodeIds' \subseteq Nat /\ \A id \in NodeIds' : nodes'[id] \in Conns
         /\ RouterIsRight'
<1>1. /\ pend \in [Conns -> PendState] /\ s.p \in PendState /\ s.p.id \in Nat /\ s.seq \in Nat
      /\ NodeIds \subseteq Nat /\ \A id \in NodeIds : nodes[id] \in Conns
  BY DEF HandshakeInv, TypeOK, IsRightFor, PendState
<1>2. pend' = [pend EXCEPT ![c] = s.p] /\ seq' = s.seq
  BY DEF PendingDid
<1>4. \A d \in Conns : /\ pend[d].id # 0 => IsIdOf(d[1], pend[d].id)
                       /\ pend[d].verified => d[1] \in KnowsPwd
  BY DEF HandshakeInv, RouterIsRight
<1>5. /\ s.p.id # 0 => IsIdOf(c[1], s.p.id)
      /\ s.p.verified => c[1] \in KnowsPwd
  BY DEF IsRightFor
<1>6. \A d \in Conns : /\ pend'[d].id # 0 => IsIdOf(d[1], pend'[d].id)
                       /\ pend'[d].verified => d[1] \in KnowsPwd
  BY <1>1, <1>2, <1>4, <1>5
<1>7. \A id \in NodeIds : IsIdOf(nodes[id][1], id)
  BY DEF HandshakeInv, RouterIsRight
<1>8. /\ NodeIds' \subseteq Nat /\ \A id \in NodeIds' : nodes'[id] \in Conns
      /\ \A id \in NodeIds' : IsIdOf(nodes'[id][1], id)
  <2>1. CASE nodes' = nodes
    BY <1>1, <1>7, <2>1 DEF NodeIds
  <2>2. CASE s.p.id # 0 /\ nodes' = WithNode(c, s.p.id)
    <3>1. NodeIds' = NodeIds \cup {s.p.id}
      BY <2>2 DEF NodeIds, WithNode
    <3>2. \A id \in NodeIds' : nodes'[id] = IF id = s.p.id THEN c ELSE nodes[id]
      BY <2>2, <3>1 DEF WithNode
    <3>3. QED
      BY <1>1, <1>5, <1>7, <2>2, <3>1, <3>2
  <2>3. QED
    BY <2>1, <2>2
<1>9. pend' \in [Conns -> PendState] /\ seq' \in Nat
  BY <1>1, <1>2
<1>10. RouterIsRight'
  BY <1>6, <1>8 DEF RouterIsRight, IsIdOf
<1>11. QED
  BY <1>8, <1>9, <1>10

-----------------------------------------------------------------------------
(* The steps of the router.                                                *)

LEMMA BeginPendingKeeps ==
  ASSUME HandshakeInv, NEW c \in Conns, NEW n \in 0 .. Len(toRtr[c]), BeginPending(c, n)
  PROVE  HandshakeInv'
<1>1. TypeOK
  BY DEF HandshakeInv
<1>2. toRtr \in [Conns -> Seq(RtrMsg)] /\ \A d \in Conns : toRtr[d] \in Seq(TrueToRtr(d[1]))
  BY DEF HandshakeInv, TypeOK, MessagesAreTrue
<1>3. UNCHANGED <<ep, early, gen, up, lost, turn, toEp, place, pend, nodes, seq, needPwd>>
  BY DEF BeginPending
<1>4. Fetched(toRtr[c], n) \in Seq(TrueToRtr(c[1])) /\ Remaining(toRtr[c], n) \in Seq(TrueToRtr(c[1]))
      /\ Seq(TrueToRtr(c[1])) \subseteq Seq(RtrMsg)
  BY <1>2, FetchedAndRemaining, TrueAreMessages
<1>5. \A e : TrueToRtr(e)' = TrueToRtr(e)
  BY <1>3 DEF TrueToRtr, IsIdOf
<1>6. JobIsRight
  <2>1. job' = [on |-> TRUE, conn |-> c, msgs |-> Fetched(toRtr[c], n)]
    BY DEF BeginPending
  <2>2. (job.msgs \in Seq(TrueToRtr(job.conn[1])))'
    BY <1>4, <1>5, <2>1
  <2>3. QED
    BY <1>4, <2>1, <2>2 DEF JobIsRight
<1>7. ToRtrIsRight
  <2>1. toRtr' = [toRtr EXCEPT ![c] = Remaining(@, n)]
    BY DEF BeginPending
  <2>2. QED
    BY <1>2, <1>4, <1>5, <2>1 DEF ToRtrIsRight
<1>8. PlacesAreRight'
  BY <1>3 DEF BeginPending, HandshakeInv, PlacesAreRight
<1>9. IdsKept
  BY <1>3, SameIdsAreKept
<1>10. QED
  BY <1>1, <1>3, <1>6, <1>7, <1>8, <1>9, Unchanged, Together DEF TypeOK, Current, NodeIds

LEMMA JobIsOfConn ==
  ASSUME HandshakeInv, NEW c \in Conns, job.conn = c
  PROVE  job.on /\ place[c] = "pending" /\ job.msgs \in Seq(TrueToRtr(c[1]))
<1>1. job.on
  BY ConnIsPair DEF HandshakeInv, PlacesAreRight, NoJob
<1>2. QED
  BY <1>1 DEF HandshakeInv, PlacesAreRight, MessagesAreTrue

LEMMA HandleJobKeeps ==
  ASSUME HandshakeInv, NEW c \in Conns, HandleJob(c)
  PROVE  HandshakeInv'
<1>1. TypeOK /\ job.conn = c /\ job.msgs # <<>>
  BY DEF HandshakeInv, HandleJob
<1>2. job.on /\ place[c] = "pending" /\ job.msgs \in Seq(TrueToRtr(c[1]))
  BY <1>1, JobIsOfConn
<1>3. Head(job.msgs) \in TrueToRtr(c[1]) /\ Tail(job.msgs) \in Seq(TrueToRtr(c[1]))
  BY <1>1, <1>2, HeadAndTail
<1> DEFINE s == HandlePendingMsg(PendingNow(c), Head(job.msgs))
<1>4. IsRightFor(c, s) /\ PendingDid(c, s) /\ toEp' = Send(toEp, c, s.out)
  BY <1>3, PendingMsgIsRight DEF HandleJob
<1> HIDE DEF s
<1>5. UNCHANGED <<ep, early, gen, up, lost, turn, toRtr, place, nodes, needPwd>>
  BY DEF HandleJob
<1>6. ToEpIsRight
  BY <1>4, <1>5, SentToEp DEF IsRightFor
<1>7. /\ pend' \in [Conns -> PendState] /\ seq' \in Nat /\ NodeIds' \subseteq Nat
      /\ \A id \in NodeIds' : nodes'[id] \in Conns
      /\ RouterIsRight'
  BY <1>4, <1>5, RememberedIsRight
<1>8. job \in [on : BOOLEAN, conn : Conns \cup {<<>>}, msgs : Seq(RtrMsg)]
      /\ job' = [job EXCEPT !.msgs = Tail(@)]
  BY DEF HandleJob, HandshakeInv, TypeOK
<1>9. job'.on /\ job'.conn = c /\ job'.msgs = Tail(job.msgs)
  BY <1>1, <1>2, <1>8
<1>10. JobIsRight
  <2>1. \A e : TrueToRtr(e)' = TrueToRtr(e)
    BY <1>5 DEF TrueToRtr, IsIdOf
  <2>2. (job.msgs \in Seq(TrueToRtr(job.conn[1])))'
    BY <1>3, <1>9, <2>1
  <2>3. Tail(job.msgs) \in Seq(RtrMsg)
    BY <1>3, TrueAreMessages
  <2>4. QED
    BY <1>8, <2>2, <2>3 DEF JobIsRight
<1>11. PlacesAreRight'
  BY <1>2, <1>5, <1>9 DEF HandshakeInv, PlacesAreRight
<1>12. IdsKept
  BY <1>5, SameIdsAreKept
<1>13. QED
  BY <1>1, <1>5, <1>6, <1>7, <1>10, <1>11, <1>12, Unchanged, Together DEF TypeOK, Current, NodeIds

LEMMA CloseIsTyped ==
  ASSUME TypeOK, NEW cs, Close(cs)
  PROVE  up' \in [Endpoints -> BOOLEAN] /\ lost' \in [Endpoints -> BOOLEAN]
  BY DEF Close, TypeOK

(* A connection that is adopted leaves the pending ones, and the one that  *)
(* it replaces leaves the nodes.                                           *)
LEMMA AdoptKeepsPlaces ==
  ASSUME HandshakeInv, NEW c \in Conns, NEW id \in Nat, Adopt(c, id),
         place[c] = "pending", job' = NoJob, gen' = gen, needPwd' = needPwd,
         needPwd => c[1] \in KnowsPwd
  PROVE  /\ place' \in [Conns -> {"none", "pending", "node", "gone"}]
         /\ PlacesAreRight' /\ NodesHaveTheirOwnConnection' /\ NodesKnowThePassword'
<1> DEFINE old == {nodes[i] : i \in NodeIds \cap {id}}
<1>1. /\ place \in [Conns -> {"none", "pending", "node", "gone"}]
      /\ \A i \in NodeIds : nodes[i] \in Conns /\ place[nodes[i]] = "node"
      /\ \A i, j \in NodeIds : nodes[i] = nodes[j] => i = j
      /\ \A d \in Conns : d[2] > gen[d[1]] => place[d] = "none"
      /\ needPwd => \A d \in Conns : place[d] = "node" => d[1] \in KnowsPwd
  BY DEF HandshakeInv, TypeOK, PlacesAreRight, NodesHaveTheirOwnConnection, NodesKnowThePassword
<1>2. place' = [d \in Conns |-> IF d = c THEN "node" ELSE IF d \in old THEN "gone" ELSE place[d]]
  BY DEF Adopt
<1>3. NodeIds' = NodeIds \cup {id}
      /\ \A i \in NodeIds' : nodes'[i] = IF i = id THEN c ELSE nodes[i]
  BY DEF Adopt, WithNode, NodeIds
<1>4. \A d \in old : id \in NodeIds /\ d = nodes[id]
  OBVIOUS
<1>5. id \in NodeIds => nodes[id] \in old
  OBVIOUS
<1> HIDE DEF old
<1>6. place' \in [Conns -> {"none", "pending", "node", "gone"}]
  BY <1>1, <1>2
<1>7. PlacesAreRight'
  <2>1. \A d \in Conns : d[2] > gen[d[1]] => place'[d] = "none"
    BY <1>1, <1>2, <1>4
  <2>2. QED
    BY <2>1 DEF PlacesAreRight, NoJob
<1>8. NodesHaveTheirOwnConnection'
  <2>1. \A i \in NodeIds : nodes[i] # c
    BY <1>1
  <2>2. \A i, j \in NodeIds' : nodes'[i] = nodes'[j] => i = j
    BY <1>1, <1>3, <2>1
  <2>3. ASSUME NEW i \in NodeIds' PROVE place'[nodes'[i]] = "node"
    <3>1. CASE i = id
      BY <1>2, <1>3, <3>1
    <3>2. CASE i # id
      <4>1. i \in NodeIds /\ nodes'[i] = nodes[i] /\ nodes[i] \in Conns /\ place[nodes[i]] = "node"
        BY <1>1, <1>3, <3>2
      <4>2. nodes[i] \notin old
        BY <1>1, <1>4, <3>2, <4>1
      <4>3. QED
        BY <1>2, <2>1, <4>1, <4>2
    <3>3. QED
      BY <3>1, <3>2
  <2>4. QED
    BY <2>2, <2>3 DEF NodesHaveTheirOwnConnection
<1>9. NodesKnowThePassword'
  BY <1>1, <1>2 DEF NodesKnowThePassword
<1>10. QED
  BY <1>6, <1>7, <1>8, <1>9

LEMMA EndPendingKeeps ==
  ASSUME HandshakeInv, NEW c \in Conns, EndPending(c)
  PROVE  HandshakeInv'
<1> DEFINE s == TryRequestPassword(c, PendingNow(c))
           confirm == [kind |-> "confirmId", id |-> s.p.id]
<1>1. TypeOK /\ job.conn = c /\ job' = NoJob /\ PendingDid(c, s)
      /\ UNCHANGED <<ep, early, gen, turn, toRtr, needPwd>>
  BY DEF HandshakeInv, EndPending
<1>2. place[c] = "pending"
  BY <1>1, JobIsOfConn
<1>3. IsRightFor(c, s)
  BY RequestPasswordIsRight
<1>4. JobIsRight
  <2>1. <<>> \in Seq(RtrMsg)
    OBVIOUS
  <2>2. QED
    BY <1>1, <2>1 DEF JobIsRight, NoJob
<1>5. IdsKept
  BY <1>1, SameIdsAreKept
<1>6. /\ TurnIsRight /\ ToRtrIsRight
      /\ (place' = place => PlacesAreRight')
      /\ (<<place, nodes>>' = <<place, nodes>> => NodesHaveTheirOwnConnection')
      /\ (place' = place => NodesKnowThePassword')
  <2>1. place' = place => PlacesAreRight'
    BY <1>1 DEF HandshakeInv, PlacesAreRight, NoJob
  <2>2. QED
    BY <1>1, <1>5, <2>1, Unchanged
<1>7. CASE CanBeAdopted(s.p)
  <2>1. s.p.id \in Nat /\ s.p.id # 0 /\ (needPwd => s.p.verified) /\ IsIdOf(c[1], s.p.id)
        /\ (s.p.verified => c[1] \in KnowsPwd) /\ s.out \in Seq(TrueToEp(c[1]))
    BY <1>3, <1>7 DEF CanBeAdopted, IsRightFor, PendState
  <2>2. toEp' = Send(toEp, c, Append(s.out, confirm)) /\ Adopt(c, s.p.id)
    BY <1>7 DEF EndPending
  <2>3. confirm \in TrueToEp(c[1])
    BY <2>1 DEF TrueToEp, EpMsg
  <2>4. Append(s.out, confirm) \in Seq(TrueToEp(c[1]))
    BY <2>1, <2>3
  <2> HIDE DEF s, confirm
  <2>5. ToEpIsRight
    BY <1>1, <2>2, <2>4, SentToEp
  <2>6. nodes' = WithNode(c, s.p.id)
    BY <2>2 DEF Adopt
  <2>7. /\ pend' \in [Conns -> PendState] /\ seq' \in Nat /\ NodeIds' \subseteq Nat
        /\ \A id \in NodeIds' : nodes'[id] \in Conns
        /\ RouterIsRight'
    BY <1>1, <1>3, <2>1, <2>6, RememberedIsRight
  <2>8. /\ place' \in [Conns -> {"none", "pending", "node", "gone"}]
        /\ PlacesAreRight' /\ NodesHaveTheirOwnConnection' /\ NodesKnowThePassword'
    BY <1>1, <1>2, <2>1, <2>2, AdoptKeepsPlaces
  <2>9. up' \in [Endpoints -> BOOLEAN] /\ lost' \in [Endpoints -> BOOLEAN]
    BY <1>1, <2>2, CloseIsTyped DEF Adopt
  <2>10. QED
    BY <1>1, <1>4, <1>6, <2>5, <2>7, <2>8, <2>9, Together DEF TypeOK, Current
<1>8. CASE ~CanBeAdopted(s.p)
  <2>1. toEp' = Send(toEp, c, s.out) /\ UNCHANGED <<place, nodes, up, lost>>
    BY <1>8 DEF EndPending
  <2> HIDE DEF s
  <2>2. ToEpIsRight
    BY <1>1, <1>3, <2>1, SentToEp DEF IsRightFor
  <2>3. /\ pend' \in [Conns -> PendState] /\ seq' \in Nat /\ NodeIds' \subseteq Nat
        /\ \A id \in NodeIds' : nodes'[id] \in Conns
        /\ RouterIsRight'
    BY <1>1, <1>3, <2>1, RememberedIsRight
  <2>4. QED
    BY <1>1, <1>4, <1>6, <2>1, <2>2, <2>3, Together DEF TypeOK, Current
<1>9. QED
  BY <1>7, <1>8

LEMMA PasswordTimeoutKeeps ==
  ASSUME HandshakeInv, NEW c \in Conns, PasswordTimeout(c)
  PROVE  HandshakeInv'
<1>1. TypeOK /\ pend[c] \in PendState /\ pend \in [Conns -> PendState] /\ c[1] \in Endpoints
  BY ConnIsPair DEF HandshakeInv, TypeOK
<1> DEFINE p == [pend[c] EXCEPT !.due = TRUE]
<1>2. p \in PendState /\ p.id = pend[c].id /\ p.verified = pend[c].verified
  BY <1>1 DEF PendState
<1>3. pend' = [pend EXCEPT ![c] = p]
  BY DEF PasswordTimeout
<1> HIDE DEF p
<1>4. UNCHANGED <<ep, gen, up, lost, turn, job, toRtr, toEp, place, nodes, seq, needPwd>>
  BY DEF PasswordTimeout
<1>5. early' \in [Endpoints -> Nat]
  <2>1. early \in [Endpoints -> Nat] /\ early[c[1]] + 1 \in Nat
    BY <1>1 DEF TypeOK
  <2>2. early' = early \/ early' = [early EXCEPT ![c[1]] = early[c[1]] + 1]
    BY DEF PasswordTimeout, Expires
  <2>3. QED
    BY <2>1, <2>2
<1>6. pend' \in [Conns -> PendState]
      /\ \A d \in Conns : pend'[d].id = pend[d].id /\ pend'[d].verified = pend[d].verified
  BY <1>1, <1>2, <1>3
<1>7. RouterIsRight'
  BY <1>4, <1>6 DEF HandshakeInv, RouterIsRight, IsIdOf, NodeIds
<1>8. IdsKept
  BY <1>4, SameIdsAreKept
<1>9. QED
  BY <1>1, <1>4, <1>5, <1>6, <1>7, <1>8, Unchanged, Together DEF TypeOK, Current, NodeIds

LEMMA HandleNodeKeeps ==
  ASSUME HandshakeInv, NEW c \in Conns, HandleNode(c)
  PROVE  HandshakeInv'
<1>1. TypeOK
  BY DEF HandshakeInv
<1>2. UNCHANGED <<ep, early, gen, up, lost, turn, job, toEp, place, pend, nodes, seq, needPwd>>
      /\ toRtr' = [toRtr EXCEPT ![c] = <<>>]
  BY DEF HandleNode
<1>3. IdsKept
  BY <1>2, SameIdsAreKept
<1>4. ToRtrIsRight
  <2>1. toRtr \in [Conns -> Seq(RtrMsg)] /\ \A d \in Conns : toRtr[d] \in Seq(TrueToRtr(d[1]))
    BY DEF HandshakeInv, TypeOK, MessagesAreTrue
  <2>2. \A e : TrueToRtr(e)' = TrueToRtr(e)
    BY <1>2 DEF TrueToRtr, IsIdOf
  <2>3. <<>> \in Seq(RtrMsg) /\ \A e : <<>> \in Seq(TrueToRtr(e))
    OBVIOUS
  <2>4. QED
    BY <1>2, <2>1, <2>2, <2>3 DEF ToRtrIsRight
<1>5. QED
  BY <1>1, <1>2, <1>3, <1>4, Unchanged, Together DEF TypeOK, Current, NodeIds

-----------------------------------------------------------------------------
(* The steps of the connections.                                           *)

LEMMA BreakKeeps ==
  ASSUME HandshakeInv, NEW e \in Endpoints, NEW n \in 0 .. Len(toRtr[Current(e)]), Break(e, n)
  PROVE  HandshakeInv'
<1> DEFINE c == Current(e)
<1>1. TypeOK /\ c \in Conns
  BY DEF HandshakeInv, TypeOK
<1>2. /\ toRtr \in [Conns -> Seq(RtrMsg)] /\ \A d \in Conns : toRtr[d] \in Seq(TrueToRtr(d[1]))
      /\ toEp \in [Conns -> Seq(EpMsg)] /\ \A d \in Conns : toEp[d] \in Seq(TrueToEp(d[1]))
  BY DEF HandshakeInv, TypeOK, MessagesAreTrue
<1>3. /\ UNCHANGED <<ep, early, gen, turn, job, place, pend, nodes, seq, needPwd>>
      /\ up' = [up EXCEPT ![e] = FALSE] /\ lost' = [lost EXCEPT ![e] = @ \/ HasOrTakesId(e)]
      /\ toRtr' = [toRtr EXCEPT ![c] = Fetched(@, n)] /\ toEp' = [toEp EXCEPT ![c] = <<>>]
  BY DEF Break
<1>4. \A d : TrueToRtr(d)' = TrueToRtr(d) /\ TrueToEp(d)' = TrueToEp(d)
  BY <1>3 DEF TrueToRtr, TrueToEp, IsIdOf
<1>5. Fetched(toRtr[c], n) \in Seq(TrueToRtr(c[1])) /\ Fetched(toRtr[c], n) \in Seq(RtrMsg)
  BY <1>1, <1>2, FetchedAndRemaining, TrueAreMessages
<1>6. <<>> \in Seq(EpMsg) /\ \A d : <<>> \in Seq(TrueToEp(d))
  OBVIOUS
<1> HIDE DEF c
<1>7. ToRtrIsRight
  BY <1>2, <1>3, <1>4, <1>5 DEF ToRtrIsRight
<1>8. ToEpIsRight
  BY <1>2, <1>3, <1>4, <1>6 DEF ToEpIsRight
<1>9. up' \in [Endpoints -> BOOLEAN] /\ lost' \in [Endpoints -> BOOLEAN]
  BY <1>1, <1>3 DEF TypeOK
<1>10. IdsKept
  BY <1>3, SameIdsAreKept
<1>11. QED
  BY <1>1, <1>3, <1>7, <1>8, <1>9, <1>10, Unchanged, Together DEF TypeOK, Current, NodeIds

LEMMA ReconnectKeeps ==
  ASSUME HandshakeInv, NEW e \in Endpoints, Reconnect(e)
  PROVE  HandshakeInv'
<1> DEFINE c == <<e, gen[e] + 1>>
<1>1. TypeOK /\ gen \in [Endpoints -> Nat] /\ gen[e] < MaxConns[e]
  BY DEF HandshakeInv, TypeOK, Reconnect
<1>2. c \in Conns /\ c[1] = e /\ c[2] = gen[e] + 1
  <2>1. gen[e] + 1 \in Nat \ {0} /\ gen[e] + 1 <= MaxConns[e]
    BY <1>1, HandshakeAssumption
  <2> DEFINE k == gen[e] + 1
  <2> HIDE DEF k
  <2>2. k \in Nat \ {0} /\ k <= MaxConns[e]
    BY <2>1 DEF k
  <2>3. <<e, k>> \in Conns
    BY <2>2, ConnIsPair
  <2>4. QED
    BY <2>3 DEF k
<1>3. /\ UNCHANGED <<ep, early, lost, turn, job, toRtr, toEp, pend, nodes, seq, needPwd>>
      /\ up' = [up EXCEPT ![e] = TRUE] /\ gen' = [gen EXCEPT ![e] = @ + 1]
      /\ place' = [place EXCEPT ![c] = "pending"]
  BY DEF Reconnect
<1> HIDE DEF c
<1>4. /\ place \in [Conns -> {"none", "pending", "node", "gone"}]
      /\ \A i \in NodeIds : nodes[i] \in Conns /\ place[nodes[i]] = "node"
      /\ \A i, j \in NodeIds : nodes[i] = nodes[j] => i = j
      /\ \A d \in Conns : d[2] > gen[d[1]] => place[d] = "none"
      /\ needPwd => \A d \in Conns : place[d] = "node" => d[1] \in KnowsPwd
      /\ IF job.on THEN job.conn \in Conns /\ place[job.conn] = "pending" ELSE job = NoJob
  BY DEF HandshakeInv, TypeOK, PlacesAreRight, NodesHaveTheirOwnConnection, NodesKnowThePassword
<1>5. place[c] = "none"
  BY <1>1, <1>2, <1>4
<1>6. gen' \in [Endpoints -> Nat] /\ \A d \in Endpoints : Current(d)' \in Conns
  <2>1. \A d \in Endpoints : <<d, gen[d]>> \in Conns
    BY <1>1 DEF TypeOK, Current
  <2>2. <<e, gen'[e]>> \in Conns
    BY <1>1, <1>2, <1>3 DEF c
  <2>3. \A d \in Endpoints : <<d, gen'[d]>> \in Conns
    BY <1>1, <1>3, <2>1, <2>2
  <2>4. QED
    BY <1>1, <1>3, <2>3 DEF Current
<1>7. PlacesAreRight'
  <2>1. ASSUME NEW d \in Conns, d[2] > gen'[d[1]]
        PROVE  place'[d] = "none"
    <3>1. d[2] > gen[d[1]] /\ d # c
      BY <1>1, <1>2, <1>3, <2>1, ConnIsPair
    <3>2. QED
      BY <1>3, <1>4, <3>1
  <2>2. job' = job /\ (job.on => place'[job.conn] = "pending")
    BY <1>3, <1>4
  <2>3. QED
    BY <1>4, <2>1, <2>2 DEF PlacesAreRight
<1>8. NodesHaveTheirOwnConnection'
  BY <1>3, <1>4, <1>5 DEF NodesHaveTheirOwnConnection, NodeIds
<1>9. NodesKnowThePassword'
  BY <1>3, <1>4 DEF NodesKnowThePassword
<1>10. up' \in [Endpoints -> BOOLEAN] /\ place' \in [Conns -> {"none", "pending", "node", "gone"}]
  BY <1>1, <1>3, <1>4 DEF TypeOK
<1>11. IdsKept
  BY <1>3, SameIdsAreKept
<1>12. QED
  BY <1>1, <1>3, <1>6, <1>7, <1>8, <1>9, <1>10, <1>11, Unchanged, Together DEF TypeOK, NodeIds

LEMMA PendingTimeoutKeeps ==
  ASSUME HandshakeInv, NEW c \in Conns, PendingTimeout(c)
  PROVE  HandshakeInv'
<1>1. TypeOK
  BY DEF HandshakeInv
<1>2. /\ UNCHANGED <<ep, early, gen, turn, job, pend, nodes, seq, needPwd>>
      /\ place[c] = "pending" /\ ~job.on /\ place' = [place EXCEPT ![c] = "gone"] /\ Close({c})
      /\ toRtr' = [toRtr EXCEPT ![c] = <<>>] /\ toEp' = [toEp EXCEPT ![c] = <<>>]
  BY DEF PendingTimeout
<1>3. /\ toRtr \in [Conns -> Seq(RtrMsg)] /\ \A d \in Conns : toRtr[d] \in Seq(TrueToRtr(d[1]))
      /\ toEp \in [Conns -> Seq(EpMsg)] /\ \A d \in Conns : toEp[d] \in Seq(TrueToEp(d[1]))
  BY DEF HandshakeInv, TypeOK, MessagesAreTrue
<1>4. \A d : TrueToRtr(d)' = TrueToRtr(d) /\ TrueToEp(d)' = TrueToEp(d)
  BY <1>2 DEF TrueToRtr, TrueToEp, IsIdOf
<1>5. <<>> \in Seq(EpMsg) /\ <<>> \in Seq(RtrMsg)
      /\ \A d : <<>> \in Seq(TrueToEp(d)) /\ <<>> \in Seq(TrueToRtr(d))
  OBVIOUS
<1>6. ToRtrIsRight
  BY <1>2, <1>3, <1>4, <1>5 DEF ToRtrIsRight
<1>7. ToEpIsRight
  BY <1>2, <1>3, <1>4, <1>5 DEF ToEpIsRight
<1>8. /\ place \in [Conns -> {"none", "pending", "node", "gone"}]
      /\ \A i \in NodeIds : nodes[i] \in Conns /\ place[nodes[i]] = "node"
      /\ \A i, j \in NodeIds : nodes[i] = nodes[j] => i = j
      /\ \A d \in Conns : d[2] > gen[d[1]] => place[d] = "none"
      /\ needPwd => \A d \in Conns : place[d] = "node" => d[1] \in KnowsPwd
      /\ IF job.on THEN job.conn \in Conns /\ place[job.conn] = "pending" ELSE job = NoJob
  BY DEF HandshakeInv, TypeOK, PlacesAreRight, NodesHaveTheirOwnConnection, NodesKnowThePassword
<1>9. PlacesAreRight'
  <2>1. \A d \in Conns : d[2] > gen[d[1]] => place'[d] = "none"
    BY <1>2, <1>8
  <2>2. job' = NoJob
    BY <1>2, <1>8
  <2>3. QED
    BY <1>2, <2>1, <2>2 DEF PlacesAreRight, NoJob
<1>10. NodesHaveTheirOwnConnection' /\ NodesKnowThePassword'
  BY <1>2, <1>8 DEF NodesHaveTheirOwnConnection, NodesKnowThePassword, NodeIds
<1>11. up' \in [Endpoints -> BOOLEAN] /\ lost' \in [Endpoints -> BOOLEAN]
       /\ place' \in [Conns -> {"none", "pending", "node", "gone"}]
  BY <1>1, <1>2, <1>8, CloseIsTyped
<1>12. IdsKept
  BY <1>2, SameIdsAreKept
<1>13. QED
  BY <1>1, <1>2, <1>6, <1>7, <1>9, <1>10, <1>11, <1>12, Unchanged, Together
     DEF TypeOK, Current, NodeIds

-----------------------------------------------------------------------------

LEMMA InitHandshakeInv == Init => HandshakeInv
<1> SUFFICES ASSUME Init
             PROVE  HandshakeInv
  OBVIOUS
<1> USE DEF Init
<1>1. \A S : <<>> \in Seq(S)
  OBVIOUS
<1>2. NodeIds = {}
  BY DEF NodeIds
<1>3. \A e \in Endpoints : Current(e) \in Conns /\ gen[e] = 1
  <2>1. \A e \in Endpoints : 1 <= MaxConns[e]
    BY HandshakeAssumption
  <2>2. \A e \in Endpoints : <<e, 1>> \in Conns
    <3> DEFINE one == 1
    <3>1. one \in Nat \ {0}
      OBVIOUS
    <3>2. \A e \in Endpoints : one <= MaxConns[e]
      BY <2>1
    <3> HIDE DEF one
    <3>3. \A e \in Endpoints : <<e, one>> \in Conns
      BY <3>1, <3>2, ConnIsPair
    <3>4. QED
      BY <3>3 DEF one
  <2>3. QED
    BY <2>2 DEF Current
<1>4. [id |-> 0, router |-> FALSE, due |-> TRUE] \in EpState /\ NewPending \in PendState
      /\ NewPending.id = 0 /\ NewPending.verified = FALSE
  BY DEF EpState, PendState, NewPending
<1>5. turn \in [Endpoints -> [on : BOOLEAN, had : BOOLEAN, msgs : Seq(EpMsg)]]
      /\ job \in [on : BOOLEAN, conn : Conns \cup {<<>>}, msgs : Seq(RtrMsg)]
  BY <1>1 DEF NoUpdate, NoJob
<1>6. TypeOK
  BY <1>1, <1>2, <1>3, <1>4, <1>5, HandshakeAssumption DEF TypeOK
<1>7. MessagesAreTrue
  BY <1>1 DEF MessagesAreTrue, NoUpdate, NoJob
<1>8. RouterIsRight /\ NodesHaveTheirOwnConnection
  BY <1>2, <1>4 DEF RouterIsRight, NodesHaveTheirOwnConnection
<1>9. PlacesAreRight
  <2>1. \A c \in Conns : c[2] > gen[c[1]] => place[c] = "none"
    BY <1>3, ConnIsPair
  <2>2. QED
    BY <2>1 DEF PlacesAreRight, NoJob
<1>10. NodesKnowThePassword
  BY DEF NodesKnowThePassword
<1>11. QED
  BY <1>6, <1>7, <1>8, <1>9, <1>10 DEF HandshakeInv

LEMMA NextHandshakeInv == HandshakeInv /\ [Next]_vars => HandshakeInv'
<1> SUFFICES ASSUME HandshakeInv, [Next]_vars
             PROVE  HandshakeInv'
  OBVIOUS
<1>1. ASSUME NEW e \in Endpoints,
             \/ BeginStep(e) \/ HandleFetched(e) \/ EndUpdate(e)
             \/ NoIdTimeout(e) \/ BreakStep(e) \/ Reconnect(e)
      PROVE  HandshakeInv'
  BY <1>1, BeginUpdateKeeps, HandleFetchedKeeps, EndUpdateKeeps, NoIdTimeoutKeeps, BreakKeeps,
     ReconnectKeeps DEF BeginStep, BreakStep
<1>2. ASSUME NEW c \in Conns,
             \/ PendingStep(c) \/ HandleJob(c) \/ EndPending(c)
             \/ PasswordTimeout(c) \/ HandleNode(c) \/ PendingTimeout(c)
      PROVE  HandshakeInv'
  BY <1>2, BeginPendingKeeps, HandleJobKeeps, EndPendingKeeps, PasswordTimeoutKeeps,
     HandleNodeKeeps, PendingTimeoutKeeps DEF PendingStep
<1>3. CASE UNCHANGED vars
  <2>1. IdsKept
    BY <1>3, SameIdsAreKept DEF vars
  <2>2. QED
    BY <1>3, <2>1, Unchanged, Together DEF vars, HandshakeInv, TypeOK, Current, NodeIds
<1>4. QED
  BY <1>1, <1>2, <1>3 DEF Next

(* The inductive invariant of the handshake: everything on its way between *)
(* endpoints and router is true, and so is what the router remembers.      *)
THEOREM HandshakeInvariantHolds == Spec => []HandshakeInv
  BY InitHandshakeInv, NextHandshakeInv, PTL DEF Spec

(* However often connections are lost and messages repeated, a connection  *)
(* is one node's at most, and it is not pending any more.                  *)
THEOREM ConnectionsAreOwned == Spec => []NodesHaveTheirOwnConnection
<1>1. HandshakeInv => NodesHaveTheirOwnConnection
  BY DEF HandshakeInv
<1>2. QED
  BY <1>1, HandshakeInvariantHolds, PTL

(* A node of the router is an endpoint that has the id of the node, or is  *)
(* configured with it.                                                     *)
THEOREM NodeIdsAgree == Spec => []NodeIdAgrees
<1>1. HandshakeInv => NodeIdAgrees
  BY DEF HandshakeInv, RouterIsRight, NodeIdAgrees, IsIdOf
<1>2. QED
  BY <1>1, HandshakeInvariantHolds, PTL

(* Where the password is required, only who knows it becomes a node.       *)
THEOREM PasswordIsKnown == Spec => []NodesKnowThePassword
<1>1. HandshakeInv => NodesKnowThePassword
  BY DEF HandshakeInv
<1>2. QED
  BY <1>1, HandshakeInvariantHolds, PTL

=============================================================================
