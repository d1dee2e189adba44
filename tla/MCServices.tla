------------------------------ MODULE MCServices ------------------------------
(***************************************************************************)
(* What is built on the endpoints, each on an instance of its own: the     *)
(* calls of clients to servers, the streams and their relays, the          *)
(* certificates that go round, the requests to shut down, and the pinger.  *)
(* A behaviour chooses one of them and keeps to it; the variables of the   *)
(* others are not used.  Two systems may use a variable of the same name.  *)
(***************************************************************************)
EXTENDS Calls, TLC

VARIABLES
    which,
    asked, blobs, ca, canPing, crossed, doShutdown, done, expired, held, hops, inbox, infos,
    interrupted, keyed, known, late, leaves, left, listed, mishaps, own, phase, pinged,
    pings, pongs, present, rcvd, relay, relays, removed, running, sent, seq, sequence,
    streams, targets, toClient, toRelay, told, tout, waited

streamVars == <<relay, hops, expired, streams, seq, toClient, toRelay, crossed, known, relays,
                listed, infos, removed, late>>
certVars == <<present, left, ca, own, held, keyed, blobs, asked, told>>
shutVars == <<inbox, doShutdown, expired, interrupted, done, phase, sent, waited>>
pingerVars == <<targets, pinged, sequence, rcvd, tout, canPing, pings, pongs, told, asked,
                running, mishaps, leaves>>

all == <<which, vars, streamVars, certVars, shutVars, pingerVars>>

(* Two clients, whose calls have the same numbers, and two servers.        *)
MCClients == {"c1", "c2"}
MCServers == {"s1", "s2"}
MCKinds == {("s1" :> "lazy" @@ "s2" :> "function"), ("s1" :> "async" @@ "s2" :> "function")}
MCMaxCalls == "c1" :> 2 @@ "c2" :> 1
MCKind == CHOOSE k \in MCKinds : TRUE

(* A client that begins with the farther of two relays, or loses one; a    *)
(* stream is replaced, or removed, or a relay is thought lost.             *)
S == INSTANCE Streams WITH
        Clients <- {1}, Relays <- {1, 2}, Hops <- <<2, 1>>, Steady <- 1,
        MaxStreamId <- 2, MaxInfo <- 2, MaxTroubles <- 1, MaxHeard <- 0, MaxPosted <- 1

(* b and c have one id, one after the other; the certificate of b is not   *)
(* signed by the authority.                                                *)
E == INSTANCE Certificates WITH
        Endpoints <- {"a", "b", "c"}, Router <- "router",
        IdOf <- [a |-> 1, b |-> 2, c |-> 2], Certified <- {"b", "c"},
        Genuine <- {"c", "router"}, Nobody <- "nobody", MaxQueries <- 2

(* A router, and a bridge that wants requests verified.                    *)
D == INSTANCE Shutdown WITH
        Programs <- {"a", "b"},
        Config <- [a |-> [ignore |-> FALSE, verify |-> FALSE, bridge |-> FALSE],
                   b |-> [ignore |-> FALSE, verify |-> TRUE, bridge |-> TRUE]],
        MaxRequests <- 2

(* A node that answers pings and one that says that it does not.           *)
P == INSTANCE Pinger WITH
        Pingables <- {1}, Silent <- {2}, PingLimit <- 3, PingMax <- 4, PingMod <- 1,
        MaxFaults <- 1, MaxLeaves <- 1, pending <- pinged, faults <- mishaps

ASSUME S!StreamsAssumption /\ E!CertificatesAssumption /\ D!ShutdownAssumption

NoStreams ==
    /\ relay = 0 /\ hops = 0 /\ streams = 0 /\ seq = 0 /\ toClient = 0 /\ toRelay = 0
    /\ crossed = 0 /\ known = 0 /\ relays = 0 /\ listed = 0 /\ infos = 0 /\ removed = 0 /\ late = 0
NoCertificates ==
    /\ present = 0 /\ left = 0 /\ ca = 0 /\ own = 0 /\ held = 0 /\ keyed = 0 /\ blobs = 0
NoShutdown ==
    /\ inbox = 0 /\ doShutdown = 0 /\ interrupted = 0 /\ done = 0 /\ phase = 0 /\ sent = 0
    /\ waited = 0
NoPinger ==
    /\ targets = 0 /\ pinged = 0 /\ sequence = 0 /\ rcvd = 0 /\ tout = 0 /\ canPing = 0
    /\ pings = 0 /\ pongs = 0 /\ running = 0 /\ mishaps = 0 /\ leaves = 0

noStreams == <<relay, hops, streams, seq, toClient, toRelay, crossed, known, relays, listed, infos,
               removed, late>>
noCertificates == <<present, left, ca, own, held, keyed, blobs>>
noShutdown == <<inbox, doShutdown, interrupted, done, phase, sent, waited>>
noPinger == <<targets, pinged, sequence, rcvd, tout, canPing, pings, pongs, running, mishaps,
              leaves>>

MCInit ==
    /\ Init
    /\ \/ /\ which = "calls"
          /\ NoStreams /\ NoCertificates /\ NoShutdown /\ NoPinger
          /\ expired = 0 /\ asked = 0 /\ told = 0
       \/ /\ which = "streams" /\ S!Init
          /\ NoCertificates /\ NoShutdown /\ NoPinger
          /\ asked = 0 /\ told = 0
       \/ /\ which = "certificates" /\ E!Init
          /\ NoStreams /\ NoShutdown /\ NoPinger
          /\ expired = 0
       \/ /\ which = "shutdown" /\ D!Init
          /\ NoStreams /\ NoCertificates /\ NoPinger
          /\ asked = 0 /\ told = 0
       \/ /\ which = "pinger" /\ P!Init
          /\ NoStreams /\ NoCertificates /\ NoShutdown
          /\ expired = 0
    /\ which # "calls" => kind = MCKind

MCNext ==
    \/ /\ which = "calls" /\ Next
       /\ UNCHANGED <<which, noStreams, noCertificates, noShutdown, noPinger, expired, asked, told>>
    \/ /\ which = "streams" /\ S!Next
       /\ UNCHANGED <<which, vars, noCertificates, noShutdown, noPinger, asked, told>>
    \/ /\ which = "certificates" /\ E!Next
       /\ UNCHANGED <<which, vars, noStreams, noShutdown, noPinger, expired>>
    \/ /\ which = "shutdown" /\ D!Next
       /\ UNCHANGED <<which, vars, noStreams, noCertificates, noPinger, asked, told>>
    \/ /\ which = "pinger" /\ P!Next
       /\ UNCHANGED <<which, vars, noStreams, noCertificates, noShutdown, expired>>

(* The fairness of the system that runs. A behaviour is of one of them, so *)
(* a fair step of one and a fair step of another can share a condition.    *)
moving == CASE which = "calls" -> vars
            [] which = "streams" -> streamVars
            [] which = "shutdown" -> shutVars
            [] which = "pinger" -> pingerVars
            [] OTHER -> certVars
MCFairness ==
    /\ \A c \in {1, 2} :
          WF_moving(UNCHANGED which /\ (
             \/ which = "calls" /\ \E m \in answers : m.to = <<"c1", "c2">>[c] /\ FulfillBy(m)
             \/ which = "streams" /\ S!Handle(c)
             \/ which = "shutdown" /\ D!Turn(<<"a", "b">>[c])
             \/ which = "pinger" /\ IF c = 1 THEN P!Update ELSE P!Work))
    /\ \A s \in {1, 2} :
          WF_moving(UNCHANGED which /\ (
             \/ which = "calls" /\ \E m \in requests : Calculate(<<"s1", "s2">>[s], m)
             \/ which = "streams" /\ S!Forget(s)
             \/ which = "shutdown" /\ D!Finish(<<"a", "b">>[s])
             \/ which = "pinger" /\ IF s = 1 THEN P!Leave ELSE P!HandlePing))
    /\ \A s \in {1, 2} :
          WF_moving(UNCHANGED which /\ (
             \/ which = "calls" /\ HandleOne(<<"s1", "s2">>[s])
             \/ which = "streams" /\ IF s = 1 THEN S!Hear(1) ELSE S!Expire(1)
             \/ which = "shutdown" /\ D!Expire(<<"a", "b">>[s])
             \/ which = "pinger" /\ s = 1 /\ P!Announce(1)))
    /\ \A s \in {1, 2}, n \in {1, 2} :
          WF_moving(UNCHANGED which /\ (
             \/ which = "calls" /\ Work(<<"s1", "s2">>[s], n)
             \/ which = "streams" /\ n = 1 /\ IF s = 1 THEN S!Update(1) ELSE S!Start(1)))

MCSpec == MCInit /\ [][MCNext]_all /\ MCFairness

(* A relay knows the streams of its clients, a key is held only for a      *)
(* certificate that was verified and replaced certificates do not come     *)
(* back, programs shut down in order, and the pinger's balance is what is  *)
(* pending (stream.cpp, context_impl.cpp, router/main.cpp,                 *)
(* pinger/main.cpp).                                                       *)
ServicesKeepOrder ==
    CASE which = "streams" -> S!RelayKnowsStreams
      [] which = "certificates" -> E!KeysAreVerified /\ E!CertificatesSettle
      [] which = "shutdown" -> D!ShutDownInOrder
      [] which = "pinger" -> P!PingsAreAccounted
      [] OTHER -> TRUE

(* In the end no skeleton keeps a call, every client has a relay that      *)
(* runs and knows its streams, a program that got a valid request to shut  *)
(* down has ended, and so has the pinger (skeleton.cpp; stream.cpp,        *)
(* update; router/main.cpp; pinger/main.cpp, is_done).                     *)
ServicesSettle ==
    <>[](CASE which = "calls" -> \A s \in Servers : pending[s] = <<>>
           [] which = "streams" -> relay[1] \in S!Running /\ S!Knows(relay[1], 1)
           [] which = "shutdown" -> \A p \in {"a", "b"} : waited[p] = "no" \/ phase[p] = "ended"
           [] which = "pinger" -> ~running
           [] OTHER -> TRUE)
=============================================================================
