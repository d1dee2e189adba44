-------------------------- MODULE RouterNodes_proofs --------------------------
(***************************************************************************)
(* Proofs about the node table of a router, for every set of connections,  *)
(* endpoints, routers and message types.  RouterNodes!IInv is inductive;   *)
(* its parts are proved one by one, each from TypeOK and the parts before. *)
(***************************************************************************)
EXTENDS RouterNodes, SequenceTheorems, TLAPS

(* A sequence without its i-th element is over the same set.               *)
LEMMA RemovedIsSeq ==
  ASSUME NEW S, NEW s \in Seq(S), NEW i \in 1 .. Len(s)
  PROVE  SubSeq(s, 1, i - 1) \o SubSeq(s, i + 1, Len(s)) \in Seq(S)
<1>1. Len(s) \in Nat /\ \A j \in 1 .. Len(s) : s[j] \in S
  BY LenProperties, ElementOfSeq
<1>2. SubSeq(s, 1, i - 1) \in Seq(S)
  <2>1. \A j \in 1 .. (i - 1) : s[j] \in S
    BY <1>1
  <2>2. QED
    BY <2>1, <1>1, SubSeqProperties
<1>3. SubSeq(s, i + 1, Len(s)) \in Seq(S)
  <2>1. \A j \in (i + 1) .. Len(s) : s[j] \in S
    BY <1>1
  <2>2. QED
    BY <2>1, <1>1, SubSeqProperties
<1>4. QED
  BY <1>2, <1>3, ConcatProperties

(* Every message has a known kind; a subscription names a message type.    *)
LEMMA MessageType ==
  ASSUME NEW m \in Messages
  PROVE  /\ m.kind \in HandshakeKinds \cup InfoKinds \cup {"byeBye"}
         /\ m.src \in Ids /\ m.inst \in Insts
         /\ m.kind \in {"subscribTo", "notSubTo"} => m.msg \in Msgs
  BY DEF Messages, HandshakeKinds, InfoKinds

LEMMA InitIInv == Init => IInv
<1> SUFFICES ASSUME Init PROVE IInv
  OBVIOUS
<1> USE RouterNodesAssumption DEF Init
<1>1. TypeOK
  BY EmptySeq DEF TypeOK
<1>2. UnusedIsNowhere /\ LeftIsPending
  BY DEF UnusedIsNowhere, LeftIsPending
<1>3. OnePlace /\ NodeIsItsPeer
  BY DEF OnePlace, NodeIsItsPeer, NodeIds
<1>4. InboxesAreTrue /\ PendingIsItsPeer
  BY EmptySeq DEF InboxesAreTrue, PendingIsItsPeer
<1>5. InfoIsConsistent /\ SubscriptionsOfThisInstance
  BY DEF InfoIsConsistent, SubscriptionsOfThisInstance
<1>6. QED
  BY <1>1, <1>2, <1>3, <1>4, <1>5 DEF IInv
-----------------------------------------------------------------------------
(* Type correctness.                                                       *)

LEMMA TypeOKStep == TypeOK /\ [Next]_vars => TypeOK'
<1> SUFFICES ASSUME TypeOK, [Next]_vars PROVE TypeOK'
  OBVIOUS
<1> USE RouterNodesAssumption DEF TypeOK
<1>1. ASSUME NEW c \in Conns, Open(c) PROVE TypeOK'
  BY <1>1 DEF Open, pendVars, nodeVars, infoVars
<1>2. ASSUME NEW c \in Conns, NEW m \in Messages, Deliver(c, m)
      PROVE  inbox' \in [Conns -> Seq(Messages)]
  BY <1>2 DEF Deliver
<1>3. ASSUME NEW c \in Conns, Announce(c) PROVE TypeOK'
  <2>1. [kind |-> IF c \in Routers THEN "announceId" ELSE "annEndptId",
         src |-> IdOf[c], inst |-> InstOf[c]] \in Messages
    BY DEF Messages, HandshakeKinds, Insts
  <2>2. inbox' \in [Conns -> Seq(Messages)]
    BY <1>2, <1>3, <2>1 DEF Announce
  <2>3. QED
    BY <1>3, <2>2 DEF Announce, pendVars, nodeVars, infoVars
<1>4. ASSUME NEW c \in Conns, NEW m \in Messages, Say(c, m) PROVE TypeOK'
  <2>1. inbox' \in [Conns -> Seq(Messages)]
    BY <1>2, <1>4 DEF Say
  <2>2. told' \in [Ids \X Insts -> SUBSET Msgs]
    BY <1>4, MessageType DEF Say
  <2>3. QED
    BY <1>4, <2>1, <2>2 DEF Say, pendVars, nodeVars, infoVars
<1>5. ASSUME NEW c \in Conns, SayBye(c) PROVE TypeOK'
  <2>1. [kind |-> "byeBye", src |-> IdOf[c], inst |-> InstOf[c]] \in Messages
    BY DEF Messages, Insts
  <2>2. inbox' \in [Conns -> Seq(Messages)]
    BY <1>2, <1>5, <2>1 DEF SayBye
  <2>3. QED
    BY <1>5, <2>2 DEF SayBye, pendVars, nodeVars, infoVars
<1>6. ASSUME NEW c \in Conns, Hangup(c) PROVE TypeOK'
  BY <1>6 DEF Hangup, pendVars, nodeVars, infoVars
<1>7. CASE Timers
  BY <1>7 DEF Timers, TooOld, Outdated, RecentExpires, peerVars, pendVars, nodeVars, infoVars, Pending
<1>8. ASSUME NEW c \in Conns, PendingMessage(c) PROVE TypeOK'
  <2>1. PICK i \in 1 .. Len(inbox[c]) :
           /\ inbox' = [inbox EXCEPT ![c] = SubSeq(@, 1, i - 1) \o SubSeq(@, i + 1, Len(@))]
           /\ annId' = [annId EXCEPT ![c] = inbox[c][i].src]
           /\ maybe' = [maybe EXCEPT ![c] = @ /\ inbox[c][i].kind # "annEndptId"]
    BY <1>8 DEF PendingMessage
  <2>2. inbox[c][i] \in Messages
    BY ElementOfSeq
  <2>3. inbox' \in [Conns -> Seq(Messages)]
    BY <2>1, RemovedIsSeq
  <2>4. annId' \in [Conns -> Ids \cup {NoId}]
    BY <2>1, <2>2, MessageType
  <2>5. maybe' \in [Conns -> BOOLEAN]
    BY <2>1
  <2>6. QED
    BY <1>8, <2>3, <2>4, <2>5 DEF PendingMessage, peerVars, nodeVars, infoVars
<1>9. ASSUME NEW cs, Forget(cs)
      PROVE  /\ annId' \in [Conns -> Ids \cup {NoId}]
             /\ maybe' \in [Conns -> BOOLEAN]
             /\ tooOld' \subseteq Conns
  BY <1>9 DEF Forget
<1>10. ASSUME NEW cs PROVE Emptied(cs) \in [Conns -> Seq(Messages)]
  BY EmptySeq DEF Emptied
<1>11. ASSUME NEW c \in Conns, AdoptPending(c) PROVE TypeOK'
  <2>1. /\ annId' \in [Conns -> Ids \cup {NoId}]
        /\ maybe' \in [Conns -> BOOLEAN]
        /\ tooOld' \subseteq Conns
        /\ inbox' \in [Conns -> Seq(Messages)]
    BY <1>9, <1>10, <1>11 DEF AdoptPending
  <2>2. annId[c] \in Ids
    BY <1>11 DEF AdoptPending
  <2>3. /\ place' \in [Conns -> {"none", "accepted", "pending", "node", "closed"}]
        /\ nodeConn' \in [Ids -> Conns \cup {NoConn}]
        /\ nodeMaybe' \in [Ids -> BOOLEAN]
        /\ nodeBye' \in [Ids -> BOOLEAN]
        /\ recent' \subseteq Ids
        /\ left' \in (SUBSET Conns) \cup (SUBSET Ids)
    BY <1>11, <2>2 DEF AdoptPending
  <2>4. QED
    BY <1>11, <2>1, <2>3 DEF AdoptPending, peerVars, infoVars
<1>12. ASSUME NEW c \in Conns, KeepPending(c) PROVE TypeOK'
  BY <1>12 DEF KeepPending, peerVars, pendVars, nodeVars, infoVars
<1>13. ASSUME NEW c \in Conns, DropPending(c) PROVE TypeOK'
  <2>1. /\ annId' \in [Conns -> Ids \cup {NoId}]
        /\ maybe' \in [Conns -> BOOLEAN]
        /\ tooOld' \subseteq Conns
        /\ inbox' \in [Conns -> Seq(Messages)]
    BY <1>9, <1>10, <1>13 DEF DropPending
  <2>2. QED
    BY <1>13, <2>1 DEF DropPending, peerVars, nodeVars, infoVars
<1>14. CASE PendingDone
  BY <1>14 DEF PendingDone, peerVars, pendVars, nodeVars, infoVars
<1>15. CASE HandleAccept
  BY <1>15 DEF HandleAccept, peerVars, pendVars, nodeVars, infoVars
<1>16. CASE RemoveTimeouted
  <2>1. /\ annId' \in [Conns -> Ids \cup {NoId}]
        /\ maybe' \in [Conns -> BOOLEAN]
        /\ tooOld' \subseteq Conns
        /\ inbox' \in [Conns -> Seq(Messages)]
    BY <1>9, <1>10, <1>16 DEF RemoveTimeouted
  <2>2. /\ place' \in [Conns -> {"none", "accepted", "pending", "node", "closed"}]
        /\ infoIds' \subseteq Ids /\ outdated' \subseteq Ids /\ recent' \subseteq Ids
        /\ inst' \in [Ids -> Insts \cup {0}]
        /\ subs' \in [Ids -> SUBSET Msgs] /\ unsubs' \in [Ids -> SUBSET Msgs]
        /\ idx' \in [Ids -> Ids \cup {NoId}]
    BY <1>16 DEF RemoveTimeouted
  <2>3. QED
    BY <1>16, <2>1, <2>2 DEF RemoveTimeouted, peerVars, nodeVars
<1>17. CASE RemoveDisconnected
  <2>1. inbox' \in [Conns -> Seq(Messages)]
    BY <1>10, <1>17 DEF RemoveDisconnected
  <2>2. /\ place' \in [Conns -> {"none", "accepted", "pending", "node", "closed"}]
        /\ nodeConn' \in [Ids -> Conns \cup {NoConn}]
        /\ nodeBye' \in [Ids -> BOOLEAN]
        /\ recent' \subseteq Ids
        /\ left' \in (SUBSET Conns) \cup (SUBSET Ids)
    BY <1>17 DEF RemoveDisconnected, NodeIds
  <2>3. QED
    BY <1>17, <2>1, <2>2 DEF RemoveDisconnected, peerVars, pendVars, infoVars
<1>18. ASSUME NEW n \in Ids, RouteMessage(n) PROVE TypeOK'
  <2> DEFINE m == Head(inbox[nodeConn[n]])
  <2>1. nodeConn[n] \in Conns /\ m \in Messages /\ inbox' \in [Conns -> Seq(Messages)]
    <3>1. nodeConn[n] \in Conns /\ inbox[nodeConn[n]] # <<>>
      BY <1>18 DEF RouteMessage, NodeIds
    <3>2. m \in Messages /\ Tail(inbox[nodeConn[n]]) \in Seq(Messages)
      BY <3>1, HeadTailProperties
    <3>3. inbox' = [inbox EXCEPT ![nodeConn[n]] = Tail(@)]
      BY <1>18 DEF RouteMessage
    <3>4. QED
      BY <3>1, <3>2, <3>3
  <2>2. /\ m.kind \in HandshakeKinds \cup InfoKinds \cup {"byeBye"}
        /\ m.src \in Ids /\ m.inst \in Insts
        /\ m.kind \in {"subscribTo", "notSubTo"} => m.msg \in Msgs
    BY <2>1, MessageType
  <2> HIDE DEF m
  <2>3. Kept(subs, m) \in SUBSET Msgs /\ Kept(unsubs, m) \in SUBSET Msgs
    BY <2>2 DEF Kept
  <2>5. /\ nodeBye' \in [Ids -> BOOLEAN] /\ nodeConn' = nodeConn /\ nodeMaybe' = nodeMaybe
        /\ infoIds' \subseteq Ids /\ outdated' \subseteq Ids
        /\ inst' \in [Ids -> Insts \cup {0}]
        /\ subs' \in [Ids -> SUBSET Msgs] /\ unsubs' \in [Ids -> SUBSET Msgs]
        /\ idx' \in [Ids -> Ids \cup {NoId}]
    <3>1. CASE HandleStillAlive(n, m)
      BY <2>2, <2>3, <3>1 DEF HandleStillAlive, UpdateEndpointInfo, nodeVars
    <3>2. CASE HandleSubscribed(n, m)
      <4>1. Kept(subs, m) \cup {m.msg} \in SUBSET Msgs /\ Kept(unsubs, m) \ {m.msg} \in SUBSET Msgs
        BY <2>2, <2>3, <3>2 DEF HandleSubscribed
      <4>2. QED
        BY <2>2, <4>1, <3>2 DEF HandleSubscribed, UpdateEndpointInfo, nodeVars
    <3>3. CASE HandleNotSubscribed(n, m)
      <4>1. Kept(subs, m) \ {m.msg} \in SUBSET Msgs /\ Kept(unsubs, m) \cup {m.msg} \in SUBSET Msgs
        BY <2>2, <2>3, <3>3 DEF HandleNotSubscribed
      <4>2. QED
        BY <2>2, <4>1, <3>3 DEF HandleNotSubscribed, UpdateEndpointInfo, nodeVars
    <3>4. CASE HandleByeBye(n, m)
      BY <2>2, <3>4 DEF HandleByeBye
    <3>5. CASE HandleAnnouncement(n, m)
      BY <3>5 DEF HandleAnnouncement, nodeVars, infoVars
    <3>6. QED
      BY <1>18, <3>1, <3>2, <3>3, <3>4, <3>5 DEF RouteMessage, m
  <2>6. QED
    BY <1>18, <2>1, <2>5 DEF RouteMessage, peerVars, pendVars
<1>19. ASSUME NEW n \in Ids, NodeDone(n) PROVE TypeOK'
  BY <1>19 DEF NodeDone, peerVars, pendVars, nodeVars, infoVars
<1>20. CASE RouteAgain \/ NextUpdate
  BY <1>20 DEF RouteAgain, NextUpdate, NodeIds, Pending, peerVars, pendVars, nodeVars, infoVars
<1>21. CASE UNCHANGED vars
  BY <1>21 DEF vars, peerVars, pendVars, nodeVars, infoVars
<1>22. QED
  BY <1>1, <1>3, <1>4, <1>5, <1>6, <1>7, <1>8, <1>11, <1>12, <1>13, <1>14, <1>15, <1>16,
     <1>17, <1>18, <1>19, <1>20, <1>21
     DEF Next, Peer, Router, PendingPhase, RoutePhase
-----------------------------------------------------------------------------
(* Where the connections are.                                              *)

Places == UnusedIsNowhere /\ LeftIsPending /\ OnePlace

(* A step that leaves the connections, the nodes and the update loop where *)
(* they are, except that a connection that is in use stays in use.         *)
LEMMA PlacesKept ==
  ASSUME Places, UNCHANGED <<place, nodeConn, phase, left>>,
         \A c \in Conns : peer'[c] = "unused" => peer[c] = "unused"
  PROVE  Places'
  BY DEF Places, UnusedIsNowhere, LeftIsPending, OnePlace, NodeIds, Pending

LEMMA PlacesStep == TypeOK /\ Places /\ [Next]_vars => Places'
<1> SUFFICES ASSUME TypeOK, Places, [Next]_vars PROVE Places'
  OBVIOUS
<1> USE RouterNodesAssumption
<1>1. ASSUME NEW c \in Conns, Open(c) PROVE Places'
  <2>1. place[c] = "none" /\ place' = [place EXCEPT ![c] = "accepted"]
        /\ peer' = [peer EXCEPT ![c] = "open"] /\ UNCHANGED <<nodeConn, phase, left>>
    BY <1>1 DEF Open, nodeVars, Places, UnusedIsNowhere
  <2>2. QED
    BY <2>1 DEF TypeOK, Places, UnusedIsNowhere, LeftIsPending, OnePlace, NodeIds, Pending
<1>2. ASSUME NEW c \in Conns,
             Announce(c) \/ (\E m \in Messages : Say(c, m)) \/ SayBye(c) \/ Hangup(c)
      PROVE  Places'
  <2>1. UNCHANGED <<place, nodeConn, phase, left>>
    BY <1>2 DEF Announce, Say, SayBye, Hangup, nodeVars
  <2>2. \A d \in Conns : peer'[d] = "unused" => peer[d] = "unused"
    BY <1>2 DEF Announce, Say, SayBye, Hangup, TypeOK
  <2>3. QED
    BY <2>1, <2>2, PlacesKept
<1>3. CASE Timers \/ UNCHANGED vars
  BY <1>3, PlacesKept DEF Timers, TooOld, Outdated, RecentExpires, vars, peerVars, nodeVars
<1>4. ASSUME NEW c \in Conns, PendingMessage(c) PROVE Places'
  BY <1>4, PlacesKept DEF PendingMessage, peerVars, nodeVars
<1>5. ASSUME NEW c \in Conns, AdoptPending(c) PROVE Places'
  <2> DEFINE n == annId[c]
  <2>1. n \in Ids /\ c \in left /\ phase = "pending" /\ place[c] = "pending"
    BY <1>5 DEF AdoptPending, TypeOK, Places, LeftIsPending, Pending
  <2>2. /\ place' = [d \in Conns |-> IF d = c THEN "node"
                                     ELSE IF d = nodeConn[n] THEN "closed" ELSE place[d]]
        /\ nodeConn' = [nodeConn EXCEPT ![n] = c]
        /\ left' = left \ {c} /\ UNCHANGED <<peer, phase>>
    BY <1>5 DEF AdoptPending, peerVars
  <2>3. nodeConn[n] # NoConn => place[nodeConn[n]] = "node"
    BY <2>1 DEF Places, OnePlace, NodeIds
  <2> HIDE DEF n
  <2>4. UnusedIsNowhere'
    BY <2>1, <2>2, <2>3 DEF TypeOK, Places, UnusedIsNowhere
  <2>5. LeftIsPending'
    BY <2>1, <2>2, <2>3 DEF TypeOK, Places, LeftIsPending, Pending
  <2>6. OnePlace'
    <3>1. \A k \in Ids : nodeConn'[k] = IF k = n THEN c ELSE nodeConn[k]
      BY <2>1, <2>2 DEF TypeOK
    <3>2. \A k \in NodeIds : k # n => place'[nodeConn[k]] = "node" /\ nodeConn[k] # c
      BY <2>1, <2>2 DEF TypeOK, Places, OnePlace, NodeIds
    <3>3. place'[c] = "node"
      BY <2>2
    <3>4. \A d \in Conns : place'[d] = "node" => \E k \in Ids : nodeConn'[k] = d
      BY <2>1, <2>2, <3>1 DEF Places, OnePlace
    <3>5. \A k \in NodeIds' : k = n \/ (k # n /\ k \in NodeIds)
      BY <3>1 DEF NodeIds
    <3>6. \A k, j \in NodeIds' : nodeConn'[k] = nodeConn'[j] => k = j
      BY <3>1, <3>2, <3>5 DEF Places, OnePlace, NodeIds
    <3>7. \A k \in NodeIds' : place'[nodeConn'[k]] = "node"
      BY <3>1, <3>2, <3>3, <3>5 DEF NodeIds
    <3>8. QED
      BY <3>4, <3>6, <3>7 DEF OnePlace
  <2>7. QED
    BY <2>4, <2>5, <2>6 DEF Places
<1>6. ASSUME NEW c \in Conns, KeepPending(c) PROVE Places'
  BY <1>6 DEF KeepPending, peerVars, nodeVars, Places, UnusedIsNowhere, LeftIsPending, OnePlace, NodeIds, Pending
<1>7. ASSUME NEW c \in Conns, DropPending(c) PROVE Places'
  <2>1. /\ place[c] = "pending" /\ place' = [place EXCEPT ![c] = "closed"]
        /\ left' = left \ {c} /\ UNCHANGED <<peer, phase, nodeConn>>
    BY <1>7 DEF DropPending, peerVars, nodeVars, Places, LeftIsPending, Pending
  <2>2. QED
    BY <2>1 DEF TypeOK, Places, UnusedIsNowhere, LeftIsPending, OnePlace, NodeIds, Pending
<1>8. CASE PendingDone
  BY <1>8 DEF PendingDone, peerVars, nodeVars, Places, UnusedIsNowhere, LeftIsPending, OnePlace, NodeIds
<1>9. CASE HandleAccept
  BY <1>9 DEF HandleAccept, peerVars, nodeVars, TypeOK, Places, UnusedIsNowhere, LeftIsPending, OnePlace, NodeIds
<1>10. CASE RemoveTimeouted
  BY <1>10 DEF RemoveTimeouted, peerVars, nodeVars, TypeOK, Places, UnusedIsNowhere, LeftIsPending,
               OnePlace, NodeIds, Pending
<1>11. CASE RemoveDisconnected
  <2> DEFINE gone == {n \in NodeIds : nodeBye[n]}
  <2>1. /\ place' = [c \in Conns |-> IF \E n \in gone : nodeConn[n] = c THEN "closed" ELSE place[c]]
        /\ nodeConn' = [n \in Ids |-> IF n \in gone THEN NoConn ELSE nodeConn[n]]
        /\ phase' = "route" /\ UNCHANGED peer
    BY <1>11 DEF RemoveDisconnected, peerVars
  <2>2. \A n \in Ids : n \in NodeIds' <=> n \in NodeIds \ gone
    BY <2>1 DEF NodeIds
  <2>3. \A n \in NodeIds : n \in Ids /\ nodeConn[n] \in Conns /\ place[nodeConn[n]] = "node"
    BY DEF TypeOK, Places, OnePlace, NodeIds
  <2>4. gone \subseteq NodeIds
    OBVIOUS
  <2> HIDE DEF gone
  <2>5. UnusedIsNowhere'
    BY <2>1, <2>3, <2>4 DEF Places, UnusedIsNowhere
  <2>6. LeftIsPending'
    BY <2>1 DEF LeftIsPending
  <2>7. OnePlace'
    <3>1. NodeIds' \subseteq Ids
      BY DEF NodeIds
    <3>2. \A n \in NodeIds' : n \in NodeIds \ gone /\ nodeConn'[n] = nodeConn[n]
      BY <2>1, <2>2, <3>1
    <3>3. \A n, k \in NodeIds : nodeConn[n] = nodeConn[k] => n = k
      BY DEF Places, OnePlace
    <3>4. \A n \in NodeIds' : place'[nodeConn'[n]] = "node"
      BY <2>1, <2>3, <2>4, <3>2, <3>3
    <3>5. \A c \in Conns : place'[c] = "node" => \E n \in Ids : nodeConn'[n] = c
      BY <2>1, <2>3, <2>4 DEF Places, OnePlace
    <3>6. QED
      BY <3>2, <3>3, <3>4, <3>5 DEF OnePlace
  <2>8. QED
    BY <2>5, <2>6, <2>7 DEF Places
<1>12. ASSUME NEW n \in Ids, RouteMessage(n) PROVE Places'
  <2>1. UNCHANGED nodeConn
    BY <1>12 DEF RouteMessage, HandleStillAlive, HandleSubscribed, HandleNotSubscribed,
                 HandleByeBye, HandleAnnouncement, nodeVars
  <2>2. QED
    BY <1>12, <2>1, PlacesKept DEF RouteMessage, peerVars
<1>13. CASE RouteAgain \/ NextUpdate \/ \E n \in Ids : NodeDone(n)
  BY <1>13 DEF RouteAgain, NextUpdate, NodeDone, peerVars, nodeVars, Places, UnusedIsNowhere,
               LeftIsPending, OnePlace, NodeIds, Pending
<1>14. QED
  BY <1>1, <1>2, <1>3, <1>4, <1>5, <1>6, <1>7, <1>8, <1>9, <1>10, <1>11, <1>12, <1>13
     DEF Next, Peer, Router, PendingPhase, RoutePhase
-----------------------------------------------------------------------------
(* What has arrived is true, and the ids are those that were announced.    *)

(* The inboxes of the connections cs are emptied, others are as before.    *)
LEMMA EmptiedIsTrue ==
  ASSUME InboxesAreTrue, NEW cs, inbox' = Emptied(cs), UNCHANGED told
  PROVE  InboxesAreTrue'
<1>1. \A c \in Conns : inbox'[c] \in Seq(TrueMessages(c))
  BY EmptySeq DEF Emptied, InboxesAreTrue
<1>2. QED
  BY <1>1 DEF InboxesAreTrue, TrueMessages

(* One inbox gets a true message, and what was told is remembered.         *)
LEMMA DeliveredIsTrue ==
  ASSUME TypeOK, InboxesAreTrue, NEW c \in Conns, NEW m, Deliver(c, m), m \in TrueMessages(c)',
         \A x \in Ids \X Insts : told[x] \subseteq told'[x]
  PROVE  InboxesAreTrue'
<1>1. ASSUME NEW d \in Conns PROVE TrueMessages(d) \subseteq TrueMessages(d)'
  BY MessageType DEF TrueMessages
<1>2. ASSUME NEW d \in Conns PROVE inbox[d] \in Seq(TrueMessages(d)')
  BY <1>1, SeqMonotonic DEF InboxesAreTrue
<1>3. inbox' = inbox \/ inbox' = [inbox EXCEPT ![c] = Append(@, m)]
  BY DEF Deliver
<1>4. ASSUME NEW d \in Conns PROVE inbox'[d] \in Seq(TrueMessages(d)')
  <2>1. CASE inbox'[d] = inbox[d]
    BY <1>2, <2>1
  <2>2. CASE d = c /\ inbox'[d] = Append(inbox[d], m)
    <3> DEFINE S == TrueMessages(c)'
    <3>1. inbox[c] \in Seq(S) /\ m \in S
      BY <1>2
    <3> HIDE DEF S
    <3>2. Append(inbox[c], m) \in Seq(S)
      BY <3>1
    <3>3. QED
      BY <2>2, <3>2 DEF S
  <2>3. QED
    BY <1>3, <2>1, <2>2 DEF TypeOK
<1>5. QED
  BY <1>4 DEF InboxesAreTrue
Identities == InboxesAreTrue /\ PendingIsItsPeer /\ NodeIsItsPeer

LEMMA IdentitiesStep == TypeOK /\ Places /\ Identities /\ [Next]_vars => Identities'
<1> SUFFICES ASSUME TypeOK, Places, Identities, [Next]_vars PROVE Identities'
  OBVIOUS
<1> USE RouterNodesAssumption
<1>a. InboxesAreTrue /\ PendingIsItsPeer /\ NodeIsItsPeer
  BY DEF Identities
<1>b. ASSUME UNCHANGED <<inbox, told>> PROVE InboxesAreTrue'
  BY <1>a, <1>b DEF InboxesAreTrue, TrueMessages
<1>c. ASSUME UNCHANGED <<annId, nodeConn>> PROVE (PendingIsItsPeer /\ NodeIsItsPeer)'
  BY <1>a, <1>c DEF PendingIsItsPeer, NodeIsItsPeer, NodeIds
<1>d. ASSUME NEW cs, Forget(cs), UNCHANGED nodeConn PROVE (PendingIsItsPeer /\ NodeIsItsPeer)'
  BY <1>a, <1>d DEF Forget, PendingIsItsPeer, NodeIsItsPeer, NodeIds
<1>1. ASSUME NEW c \in Conns, Open(c) \/ Hangup(c) PROVE Identities'
  BY <1>b, <1>c, <1>1 DEF Open, Hangup, pendVars, nodeVars, Identities
<1>2. ASSUME NEW c \in Conns, Announce(c) PROVE Identities'
  <2> DEFINE m == [kind |-> IF c \in Routers THEN "announceId" ELSE "annEndptId",
                   src |-> IdOf[c], inst |-> InstOf[c]]
  <2>1. m \in TrueMessages(c)'
    BY DEF TrueMessages, Messages, HandshakeKinds, Insts
  <2>2. Deliver(c, m) /\ UNCHANGED told
    BY <1>2 DEF Announce
  <2> HIDE DEF m
  <2>3. InboxesAreTrue'
    BY <1>a, <2>1, <2>2, DeliveredIsTrue
  <2>4. QED
    BY <1>c, <1>2, <2>3 DEF Announce, pendVars, nodeVars, Identities
<1>3. ASSUME NEW c \in Conns, NEW m \in Messages, Say(c, m) PROVE Identities'
  <2>1. m.kind \notin HandshakeKinds
    BY <1>3 DEF Say, InfoKinds, HandshakeKinds
  <2>2. \A x \in Ids \X Insts : told[x] \subseteq told'[x]
    BY <1>3 DEF Say, TypeOK
  <2>3. m.kind = "subscribTo" => m.msg \in told'[<<m.src, m.inst>>]
    BY <1>3, <2>2, MessageType DEF Say, TypeOK
  <2>4. m \in TrueMessages(c)'
    BY <2>1, <2>3 DEF TrueMessages
  <2>5. InboxesAreTrue'
    BY <1>a, <1>3, <2>2, <2>4, DeliveredIsTrue DEF Say
  <2>6. QED
    BY <1>c, <1>3, <2>5 DEF Say, pendVars, nodeVars, Identities
<1>4. ASSUME NEW c \in Conns, SayBye(c) PROVE Identities'
  <2> DEFINE m == [kind |-> "byeBye", src |-> IdOf[c], inst |-> InstOf[c]]
  <2>1. m \in TrueMessages(c)'
    BY DEF TrueMessages, Messages, HandshakeKinds, Insts
  <2>2. Deliver(c, m) /\ UNCHANGED told
    BY <1>4 DEF SayBye
  <2> HIDE DEF m
  <2>3. InboxesAreTrue'
    BY <1>a, <2>1, <2>2, DeliveredIsTrue
  <2>4. QED
    BY <1>c, <1>4, <2>3 DEF SayBye, pendVars, nodeVars, Identities
<1>5. CASE Timers \/ UNCHANGED vars
  BY <1>b, <1>c, <1>5 DEF Timers, TooOld, Outdated, RecentExpires, vars, peerVars, pendVars, nodeVars, Identities
<1>6. ASSUME NEW c \in Conns, PendingMessage(c) PROVE Identities'
  <2>1. PICK i \in 1 .. Len(inbox[c]) :
           /\ inbox[c][i].kind \in HandshakeKinds
           /\ inbox' = [inbox EXCEPT ![c] = SubSeq(@, 1, i - 1) \o SubSeq(@, i + 1, Len(@))]
           /\ annId' = [annId EXCEPT ![c] = inbox[c][i].src]
    BY <1>6 DEF PendingMessage
  <2>2. UNCHANGED <<told, nodeConn>>
    BY <1>6 DEF PendingMessage, peerVars, nodeVars
  <2>3. inbox[c] \in Seq(TrueMessages(c))
    BY <1>a DEF InboxesAreTrue
  <2>4. inbox[c][i] \in TrueMessages(c)
    BY <2>3, ElementOfSeq
  <2>5. inbox[c][i].src = IdOf[c]
    BY <2>1, <2>4 DEF TrueMessages
  <2>6. PendingIsItsPeer' /\ NodeIsItsPeer'
    BY <1>a, <2>1, <2>2, <2>5 DEF PendingIsItsPeer, NodeIsItsPeer, NodeIds, TypeOK
  <2>7. \A d \in Conns : inbox'[d] \in Seq(TrueMessages(d))
    BY <1>a, <2>1, <2>3, RemovedIsSeq DEF InboxesAreTrue, TypeOK
  <2>8. QED
    BY <2>2, <2>6, <2>7 DEF Identities, InboxesAreTrue, TrueMessages
<1>7. ASSUME NEW c \in Conns, AdoptPending(c) PROVE Identities'
  <2>1. annId[c] \in Ids /\ annId[c] = IdOf[c]
    BY <1>a, <1>7 DEF AdoptPending, PendingIsItsPeer, TypeOK
  <2>2. nodeConn' = [nodeConn EXCEPT ![annId[c]] = c] /\ Forget({c}) /\ UNCHANGED told
    BY <1>7 DEF AdoptPending, peerVars
  <2>3. NodeIsItsPeer'
    BY <1>a, <2>1, <2>2 DEF NodeIsItsPeer, NodeIds, TypeOK
  <2>4. PendingIsItsPeer'
    BY <1>a, <2>2 DEF PendingIsItsPeer, Forget
  <2>5. InboxesAreTrue'
    BY <1>a, <1>7, EmptiedIsTrue DEF AdoptPending, peerVars
  <2>6. QED
    BY <2>3, <2>4, <2>5 DEF Identities
<1>8. ASSUME NEW c \in Conns, KeepPending(c) PROVE Identities'
  BY <1>b, <1>c, <1>8 DEF KeepPending, peerVars, pendVars, nodeVars, Identities
<1>9. ASSUME NEW c \in Conns, DropPending(c) PROVE Identities'
  <2>1. InboxesAreTrue'
    BY <1>a, <1>9, EmptiedIsTrue DEF DropPending, peerVars
  <2>2. QED
    BY <1>d, <1>9, <2>1 DEF DropPending, nodeVars, Identities
<1>10. CASE PendingDone \/ HandleAccept \/ RouteAgain \/ NextUpdate \/ \E n \in Ids : NodeDone(n)
  BY <1>b, <1>c, <1>10 DEF PendingDone, HandleAccept, RouteAgain, NextUpdate, NodeDone,
                         peerVars, pendVars, nodeVars, Identities
<1>11. CASE RemoveTimeouted
  <2>1. InboxesAreTrue'
    BY <1>a, <1>11, EmptiedIsTrue DEF RemoveTimeouted, peerVars
  <2>2. QED
    BY <1>d, <1>11, <2>1 DEF RemoveTimeouted, nodeVars, Identities
<1>12. CASE RemoveDisconnected
  <2>1. InboxesAreTrue'
    BY <1>a, <1>12, EmptiedIsTrue DEF RemoveDisconnected, peerVars
  <2>2. PendingIsItsPeer' /\ NodeIsItsPeer'
    BY <1>a, <1>12 DEF RemoveDisconnected, pendVars, PendingIsItsPeer, NodeIsItsPeer, NodeIds, TypeOK
  <2>3. QED
    BY <2>1, <2>2 DEF Identities
<1>13. ASSUME NEW n \in Ids, RouteMessage(n) PROVE Identities'
  <2> DEFINE c == nodeConn[n]
  <2>1. c \in Conns /\ inbox[c] # <<>> /\ inbox' = [inbox EXCEPT ![c] = Tail(@)]
    BY <1>13 DEF RouteMessage, NodeIds, TypeOK
  <2>2. UNCHANGED <<told, annId, nodeConn>>
    BY <1>13 DEF RouteMessage, HandleStillAlive, HandleSubscribed, HandleNotSubscribed,
                 HandleByeBye, HandleAnnouncement, peerVars, pendVars, nodeVars
  <2> HIDE DEF c
  <2>3. Tail(inbox[c]) \in Seq(TrueMessages(c))
    BY <1>a, <2>1, HeadTailProperties DEF InboxesAreTrue
  <2>4. \A d \in Conns : inbox'[d] \in Seq(TrueMessages(d))
    BY <1>a, <2>1, <2>3 DEF InboxesAreTrue, TypeOK
  <2>5. InboxesAreTrue'
    BY <2>2, <2>4 DEF InboxesAreTrue, TrueMessages
  <2>6. QED
    BY <1>c, <2>2, <2>5 DEF Identities
<1>14. QED
  BY <1>1, <1>2, <1>3, <1>4, <1>5, <1>6, <1>7, <1>8, <1>9, <1>10, <1>11, <1>12, <1>13
     DEF Next, Peer, Router, PendingPhase, RoutePhase
-----------------------------------------------------------------------------
(* What is known of the endpoints.                                         *)

Infos == InfoIsConsistent /\ SubscriptionsOfThisInstance

(* The information of all endpoints stays, and what was told is remembered.*)
LEMMA InfosKept ==
  ASSUME TypeOK, Infos, UNCHANGED <<infoIds, inst, subs, unsubs, idx>>,
         \A x \in Ids \X Insts : told[x] \subseteq told'[x]
  PROVE  Infos'
<1>1. ASSUME NEW e \in infoIds PROVE <<e, inst[e]>> \in Ids \X Insts
  BY DEF TypeOK, Infos, InfoIsConsistent
<1>2. \A e \in infoIds : subs[e] \subseteq told'[<<e, inst[e]>>]
  BY <1>1 DEF Infos, SubscriptionsOfThisInstance
<1>3. QED
  BY <1>2 DEF Infos, InfoIsConsistent, SubscriptionsOfThisInstance

(* The information about one endpoint is replaced.                         *)
LEMMA InfosUpdated ==
  ASSUME TypeOK, Infos, NEW n \in Ids, NEW m, m.src \in Ids, m.inst \in Insts, 0 \notin Insts,
         NEW s \in SUBSET Msgs, NEW u \in SUBSET Msgs, s \cap u = {},
         s \subseteq told[<<m.src, m.inst>>],
         UpdateEndpointInfo(n, m, s, u), UNCHANGED told
  PROVE  Infos'
<1>1. InfoIsConsistent'
  BY RouterNodesAssumption DEF TypeOK, Infos, InfoIsConsistent, UpdateEndpointInfo
<1>2. SubscriptionsOfThisInstance'
  <2>1. ASSUME NEW e \in infoIds' PROVE subs'[e] \subseteq told'[<<e, inst'[e]>>]
    <3>1. CASE e = m.src
      BY <3>1 DEF TypeOK, UpdateEndpointInfo
    <3>2. CASE e # m.src
      BY <2>1, <3>2 DEF TypeOK, UpdateEndpointInfo, Infos, SubscriptionsOfThisInstance
    <3>3. QED
      BY <3>1, <3>2
  <2>2. QED
    BY <2>1 DEF SubscriptionsOfThisInstance
<1>3. QED
  BY <1>1, <1>2 DEF Infos

LEMMA InfosStep == TypeOK /\ Identities /\ Infos /\ [Next]_vars => Infos'
<1> SUFFICES ASSUME TypeOK, Identities, Infos, [Next]_vars PROVE Infos'
  OBVIOUS
<1> USE RouterNodesAssumption
<1>1. ASSUME NEW c \in Conns, NEW m \in Messages, Say(c, m) PROVE Infos'
  <2>1. \A x \in Ids \X Insts : told[x] \subseteq told'[x]
    BY <1>1 DEF Say, TypeOK
  <2>2. QED
    BY <1>1, <2>1, InfosKept DEF Say, infoVars
<1>2. ASSUME NEW c \in Conns,
             Open(c) \/ Announce(c) \/ SayBye(c) \/ Hangup(c) \/ TooOld(c) \/ PendingMessage(c)
                \/ AdoptPending(c) \/ KeepPending(c) \/ DropPending(c)
      PROVE  Infos'
  BY <1>2, InfosKept DEF Open, Announce, SayBye, Hangup, TooOld, PendingMessage, AdoptPending,
                         KeepPending, DropPending, peerVars, infoVars
<1>3. ASSUME NEW e \in Ids, Outdated(e) \/ RecentExpires(e) \/ NodeDone(e) PROVE Infos'
  BY <1>3, InfosKept DEF Outdated, RecentExpires, NodeDone, peerVars, infoVars
<1>4. CASE PendingDone \/ HandleAccept \/ RemoveDisconnected \/ RouteAgain \/ NextUpdate \/ UNCHANGED vars
  BY <1>4, InfosKept DEF PendingDone, HandleAccept, RemoveDisconnected, RouteAgain, NextUpdate,
                         vars, peerVars, infoVars
<1>5. CASE RemoveTimeouted
  <2>1. InfoIsConsistent'
    BY <1>5 DEF RemoveTimeouted, Infos, InfoIsConsistent, TypeOK
  <2>2. SubscriptionsOfThisInstance'
    BY <1>5 DEF RemoveTimeouted, Infos, SubscriptionsOfThisInstance, TypeOK, peerVars
  <2>3. QED
    BY <2>1, <2>2 DEF Infos
<1>6. ASSUME NEW n \in Ids, RouteMessage(n) PROVE Infos'
  <2> DEFINE c == nodeConn[n]
             m == Head(inbox[c])
  <2>1. UNCHANGED told
    BY <1>6 DEF RouteMessage, peerVars
  <2>2. m \in TrueMessages(c)
    <3>1. c \in Conns /\ inbox[c] # <<>>
      BY <1>6 DEF RouteMessage, NodeIds, TypeOK
    <3>2. QED
      BY <3>1, HeadTailProperties DEF Identities, InboxesAreTrue
  <2>3. /\ m.src \in Ids /\ m.inst \in Insts
        /\ m.kind \in {"subscribTo", "notSubTo"} => m.msg \in Msgs
        /\ m.kind = "subscribTo" => m.msg \in told[<<m.src, m.inst>>]
    BY <2>2, MessageType DEF TrueMessages
  <2>4. 0 \notin Insts
    BY DEF Insts
  <2> HIDE DEF m
  <2>5. /\ Kept(subs, m) \in SUBSET Msgs /\ Kept(unsubs, m) \in SUBSET Msgs
        /\ Kept(subs, m) \cap Kept(unsubs, m) = {}
    BY <2>3 DEF Kept, TypeOK, Infos, InfoIsConsistent
  <2>6. Kept(subs, m) \subseteq told[<<m.src, m.inst>>]
    <3>1. CASE m.src \in infoIds
      BY <3>1 DEF Kept, Infos, SubscriptionsOfThisInstance
    <3>2. CASE m.src \notin infoIds
      BY <2>3, <3>2 DEF Kept, Infos, InfoIsConsistent
    <3>3. QED
      BY <3>1, <3>2
  <2>7. CASE HandleStillAlive(n, m)
    BY <2>1, <2>3, <2>4, <2>5, <2>6, <2>7, InfosUpdated DEF HandleStillAlive
  <2>8. CASE HandleSubscribed(n, m)
    <3> DEFINE s == Kept(subs, m) \cup {m.msg}
               u == Kept(unsubs, m) \ {m.msg}
    <3>1. /\ s \in SUBSET Msgs /\ u \in SUBSET Msgs /\ s \cap u = {}
          /\ s \subseteq told[<<m.src, m.inst>>]
      BY <2>3, <2>5, <2>6, <2>8 DEF HandleSubscribed
    <3>2. UpdateEndpointInfo(n, m, s, u)
      BY <2>8 DEF HandleSubscribed
    <3> HIDE DEF s, u
    <3>3. QED
      BY <2>1, <2>3, <2>4, <3>1, <3>2, InfosUpdated
  <2>9. CASE HandleNotSubscribed(n, m)
    <3> DEFINE s == Kept(subs, m) \ {m.msg}
               u == Kept(unsubs, m) \cup {m.msg}
    <3>1. /\ s \in SUBSET Msgs /\ u \in SUBSET Msgs /\ s \cap u = {}
          /\ s \subseteq told[<<m.src, m.inst>>]
      BY <2>3, <2>5, <2>6, <2>9 DEF HandleNotSubscribed
    <3>2. UpdateEndpointInfo(n, m, s, u)
      BY <2>9 DEF HandleNotSubscribed
    <3> HIDE DEF s, u
    <3>3. QED
      BY <2>1, <2>3, <2>4, <3>1, <3>2, InfosUpdated
  <2>10. CASE HandleByeBye(n, m)
    <3>1. InfoIsConsistent'
      BY <2>3, <2>10 DEF HandleByeBye, TypeOK, Infos, InfoIsConsistent
    <3>2. SubscriptionsOfThisInstance'
      BY <2>1, <2>3, <2>10 DEF HandleByeBye, TypeOK, Infos, SubscriptionsOfThisInstance
    <3>3. QED
      BY <3>1, <3>2 DEF Infos
  <2>11. CASE HandleAnnouncement(n, m)
    BY <2>1, <2>11, InfosKept DEF HandleAnnouncement, infoVars
  <2>12. QED
    BY <1>6, <2>7, <2>8, <2>9, <2>10, <2>11 DEF RouteMessage, m
<1>7. QED
  BY <1>1, <1>2, <1>3, <1>4, <1>5, <1>6 DEF Next, Peer, Timers, Router, PendingPhase, RoutePhase

-----------------------------------------------------------------------------

LEMMA NextIInv == IInv /\ [Next]_vars => IInv'
<1> SUFFICES ASSUME IInv, [Next]_vars PROVE IInv'
  OBVIOUS
<1>1. TypeOK /\ Places /\ Identities /\ Infos
  BY DEF IInv, Places, Identities, Infos
<1>2. TypeOK' /\ Places' /\ Identities' /\ Infos'
  BY <1>1, TypeOKStep, PlacesStep, IdentitiesStep, InfosStep
<1>3. QED
  BY <1>2 DEF IInv, Places, Identities, Infos

(* The inductive invariant holds throughout every run of a router.         *)
THEOREM NodeTableInvariant == Spec => []IInv
  BY InitIInv, NextIInv, PTL DEF Spec

(* The state of the router's node table keeps its type.                    *)
THEOREM NodeTableTypeOK == Spec => []TypeOK
<1>1. IInv => TypeOK
  BY DEF IInv
<1>2. QED
  BY <1>1, NodeTableInvariant, PTL

(* Whatever connections come, time out, are adopted, taken over or dropped,*)
(* each is held by one node or as one pending connection.                  *)
THEOREM EachConnectionHasOnePlace == Spec => []OnePlace
<1>1. IInv => OnePlace
  BY DEF IInv
<1>2. QED
  BY <1>1, NodeTableInvariant, PTL

(* A node has the id that the peer of its connection announced.            *)
THEOREM NodesAreTheirPeers == Spec => []NodeIsItsPeer
<1>1. IInv => NodeIsItsPeer
  BY DEF IInv
<1>2. QED
  BY <1>1, NodeTableInvariant, PTL

(* What the router knows of an endpoint is not contradictory.              *)
THEOREM EndpointInfoIsConsistent == Spec => []InfoIsConsistent
<1>1. IInv => InfoIsConsistent
  BY DEF IInv
<1>2. QED
  BY <1>1, NodeTableInvariant, PTL

(* No subscription of another instance of an endpoint is attributed to its *)
(* present one, however the messages of the two arrive.                    *)
THEOREM InstancesAreKeptApart == Spec => []SubscriptionsOfThisInstance
<1>1. IInv => SubscriptionsOfThisInstance
  BY DEF IInv
<1>2. QED
  BY <1>1, NodeTableInvariant, PTL
=============================================================================
