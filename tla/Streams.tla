------------------------------- MODULE Streams -------------------------------
(***************************************************************************)
(* The services in stream.cpp: a client (a provider of streams) looks for  *)
(* a relay among the endpoints that subscribe to eagiStream.startFrwrd,    *)
(* prefers the nearest, drops one that it hears nothing of, and announces  *)
(* its streams to the one it has.  What arrives waits in a queue for each  *)
(* type of message, and a turn handles the types one after the other.      *)
(***************************************************************************)
EXTENDS Naturals, Sequences, FiniteSets, SequencesExt, Functions

CONSTANTS
    Clients,
    Relays,
    Hops,        (* relay: its hop_count                                    *)
    Steady,      (* a relay that starts in the end and goes on for ever     *)
    MaxStreamId, (* bound: the identifiers of streams are 1 .. MaxStreamId  *)
    MaxInfo,     (* bound: the descriptions that providers give             *)
    MaxTroubles, (* bound: the streams that are removed and the             *)
                 (* notifications of live relays that are late, together    *)
    MaxHeard,    (* bound: what waits for a client when it asks again       *)
    MaxPosted    (* bound: what waits for a relay when a client hears of it *)

StreamsAssumption ==
    /\ Hops \in [Relays -> Nat] /\ Steady \in Relays /\ 0 \notin Relays
    /\ MaxStreamId \in Nat /\ MaxInfo \in Nat /\ MaxTroubles \in Nat
    /\ MaxHeard \in Nat /\ MaxPosted \in Nat

VARIABLES
    relay,    (* client: _stream_relay_id, 0 if none                        *)
    hops,     (* client: _stream_relay_hops                                 *)
    expired,  (* client: _stream_relay_timeout                              *)
    streams,  (* client: stream_provider::_streams, id -> info, 0 if none   *)
    seq,      (* client: _stream_id_seq                                     *)
    toClient, (* client: what it has still to hear of relays                *)
    toRelay,  (* relay: what it has still to handle                         *)
    crossed,  (* <<relay, client, id>> whose last message was handled in    *)
              (* one turn with another one about this id                    *)
    known,    (* relay: stream_relay::_streams, <<client, id>> -> info or 0 *)
    relays,   (* relay: not started, running, or gone                       *)
    listed,   (* the subscribers that the router answers for                *)
    infos, removed, late

relayVars == <<relay, hops, expired>>
streamVars == <<streams, seq, infos, removed>>
relayEnd == <<known, crossed>>
vars == <<relayVars, streamVars, toClient, toRelay, relayEnd, relays, listed, late>>

Running == {r \in Relays : relays[r] = "running"}
MaxHops == 1 + CHOOSE h \in Range(Hops) : \A x \in Range(Hops) : x <= h

Init ==
    /\ relay = [c \in Clients |-> 0] /\ hops = [c \in Clients |-> MaxHops]
    /\ expired = [c \in Clients |-> TRUE]
    /\ streams = [c \in Clients |-> [s \in 1 .. MaxStreamId |-> 0]]
    /\ seq = [c \in Clients |-> 0]
    /\ toClient = [c \in Clients |-> <<>>] /\ toRelay = [r \in Relays |-> <<>>]
    /\ crossed = {}
    /\ known = [r \in Relays |-> [k \in Clients \X (1 .. MaxStreamId) |-> 0]]
    /\ relays = [r \in Relays |-> "new"] /\ listed = {}
    /\ infos = 0 /\ removed = 0 /\ late = 0

Notice(kind, r) == [kind |-> kind, relay |-> r]
Tell(kind, r) == [c \in Clients |-> Append(toClient[c], Notice(kind, r))]
Ids(c) == {s \in 1 .. MaxStreamId : streams[c][s] # 0}

(* The messages that a turn handles, in its order: all of the first type,  *)
(* the newest first, then all of the next type.                            *)
NewestFirst(messages, kind) == Reverse(SelectSeq(messages, LAMBDA m : m.kind = kind))
InTurn(messages, first, second) == NewestFirst(messages, first) \o NewestFirst(messages, second)

(* _announce_stream and _retract_stream; what is sent to a relay that is   *)
(* gone is dropped.                                                        *)
Announcement(c, s, info) == [kind |-> "announce", from |-> c, id |-> s, info |-> info]
Retraction(c, s) == [kind |-> "retract", from |-> c, id |-> s, info |-> 0]
Announcements(c) ==
    LET ids == SetToSortSeq(Ids(c), <)
    IN  [i \in DOMAIN ids |-> Announcement(c, ids[i], streams[c][ids[i]])]

AfterPost(mail, r, messages) ==
    IF relays[r] = "gone" THEN mail ELSE [mail EXCEPT ![r] = @ \o messages]
Post(c, message) ==
    toRelay' = IF relay[c] = 0 THEN toRelay ELSE AfterPost(toRelay, relay[c], <<message>>)

(* add_stream: under the identifier that the caller gives, or under the    *)
(* next one that is free, counted from the last.                           *)
Free(c) == {s \in 1 .. MaxStreamId : s >= seq[c] /\ streams[c][s] = 0}
AddStream(c) ==
    /\ infos < MaxInfo /\ infos' = infos + 1
    /\ \E s \in 1 .. MaxStreamId :
          /\ \/ UNCHANGED seq
             \/ s \in Free(c) /\ (\A x \in Free(c) : s <= x) /\ seq' = [seq EXCEPT ![c] = s]
          /\ streams' = [streams EXCEPT ![c][s] = infos']
          /\ Post(c, Announcement(c, s, infos'))
    /\ UNCHANGED <<relayVars, removed, toClient, relayEnd, relays, listed, late>>

(* remove_stream, of a stream that was added.                              *)
RemoveStream(c) ==
    /\ removed + late < MaxTroubles /\ removed' = removed + 1
    /\ \E s \in Ids(c) :
          /\ streams' = [streams EXCEPT ![c][s] = 0]
          /\ Post(c, Retraction(c, s))
    /\ UNCHANGED <<relayVars, seq, infos, toClient, relayEnd, relays, listed, late>>

(* What a client has of its relay, and the mail, in the course of a turn.  *)
Client(c) == [relay |-> relay[c], hops |-> hops[c], expired |-> expired[c],
              mail |-> toRelay]
BecomesClient(c, now) ==
    /\ relay' = [relay EXCEPT ![c] = now.relay]
    /\ hops' = [hops EXCEPT ![c] = now.hops]
    /\ expired' = [expired EXCEPT ![c] = now.expired]
    /\ toRelay' = now.mail

(* reset_stream_relay; the timeout stays as it is.                         *)
ResetRelay(now) == [now EXCEPT !.relay = 0, !.hops = MaxHops]

(* The bug of announcing streams only when they are added.                 *)
SetRelaySilently(c, now, r) ==
    [relay |-> r, hops |-> Hops[r], expired |-> FALSE, mail |-> now.mail]

(* set_stream_relay, and _handle_stream_relay_assigned in the provider.    *)
(* The relay it had before is told nothing.                                *)
SetRelay(c, now, r) ==
    [relay |-> r, hops |-> Hops[r], expired |-> FALSE,
     mail |-> AfterPost(now.mail, r, Announcements(c))]

(* _handle_stream_relay_subscribed                                         *)
IsBetter(now, r) == now.relay = 0 \/ now.hops > Hops[r]

(* The handlers of what the client hears of subscribers; a turn handles    *)
(* what has come until then.                                               *)
Heard(c, now, m) ==
    CASE m.kind = "subscribed" /\ IsBetter(now, m.relay)   -> SetRelay(c, now, m.relay)
      [] m.kind = "unsubscribed" /\ now.relay = m.relay    -> ResetRelay(now)
      [] OTHER                                             -> now

Hear(c) ==
    /\ \A r \in Relays : Len(toRelay[r]) <= MaxPosted
    /\ \E n \in DOMAIN toClient[c] :
          /\ toClient' = [toClient EXCEPT ![c] = SubSeq(@, n + 1, Len(@))]
          /\ BecomesClient(c, FoldLeft(LAMBDA now, m : Heard(c, now, m), Client(c),
                                 InTurn(SubSeq(toClient[c], 1, n), "subscribed", "unsubscribed")))
    /\ UNCHANGED <<streamVars, relayEnd, relays, listed, late>>

(* _handle_stream_relay_alive                                              *)
HearAlive(c) ==
    /\ relay[c] \in Running /\ expired[c]
    /\ expired' = [expired EXCEPT ![c] = FALSE]
    /\ UNCHANGED <<relay, hops, streamVars, toClient, toRelay, relayEnd, relays, listed, late>>

(* Two notification periods pass; a relay that runs is heard of meanwhile, *)
(* but for a few times.                                                    *)
Expire(c) ==
    /\ ~expired[c]
    /\ \/ relay[c] \notin Running /\ UNCHANGED late
       \/ relay[c] \in Running /\ removed + late < MaxTroubles /\ late' = late + 1
    /\ expired' = [expired EXCEPT ![c] = TRUE]
    /\ UNCHANGED <<relay, hops, streamVars, toClient, toRelay, relayEnd, relays, listed>>

(* update when the timeout has expired: first the relay is dropped, in the *)
(* next turn relays are searched for, and the router answers for those     *)
(* that it lists.                                                          *)
Ask(c) ==
    /\ Len(toClient[c]) <= MaxHeard
    /\ toClient' = [toClient EXCEPT ![c] =
          @ \o [i \in 1 .. Cardinality(listed) |->
                  Notice("subscribed", SetToSortSeq(listed, <)[i])]]
    /\ expired' = [expired EXCEPT ![c] = FALSE]
    /\ UNCHANGED <<relay, hops, toRelay>>

Update(c) ==
    /\ expired[c]
    /\ \/ relay[c] # 0 /\ BecomesClient(c, ResetRelay(Client(c))) /\ UNCHANGED toClient
       \/ relay[c] = 0 /\ Ask(c)
    /\ UNCHANGED <<streamVars, relayEnd, relays, listed, late>>

(* _handle_stream_announce and _handle_stream_retract in the relay: what   *)
(* is announced anew replaces what it had. The retractions of a turn are   *)
(* handled after its announcements.                                        *)
Handled(streamsKnown, m) == [streamsKnown EXCEPT ![<<m.from, m.id>>] = m.info]

About(r, m) == <<r, m.from, m.id>>
Crossed(r, messages) ==
    {About(r, messages[i]) : i \in {j \in DOMAIN messages :
        \E k \in DOMAIN messages : k # j /\ About(r, messages[k]) = About(r, messages[j])}}

Handle(r) ==
    /\ r \in Running
    /\ \E n \in DOMAIN toRelay[r] :
          LET turn == SubSeq(toRelay[r], 1, n)
          IN  /\ toRelay' = [toRelay EXCEPT ![r] = SubSeq(@, n + 1, Len(@))]
              /\ known' = [known EXCEPT ![r] =
                                FoldLeft(Handled, @, InTurn(turn, "announce", "retract"))]
              /\ crossed' = (crossed \ {About(r, m) : m \in ToSet(turn)}) \cup Crossed(r, turn)
    /\ UNCHANGED <<relayVars, streamVars, toClient, relays, listed, late>>

(* A relay starts and announces its subscriptions; it leaves in order, or  *)
(* it ends and the router forgets it some time later.                      *)
Start(r) ==
    /\ relays[r] = "new"
    /\ relays' = [relays EXCEPT ![r] = "running"]
    /\ listed' = listed \cup {r}
    /\ toClient' = Tell("subscribed", r)
    /\ UNCHANGED <<relayVars, streamVars, toRelay, relayEnd, late>>

End(r) ==
    /\ r \in Running /\ r # Steady
    /\ relays' = [relays EXCEPT ![r] = "gone"]
    /\ toRelay' = [toRelay EXCEPT ![r] = <<>>]
    /\ \/ listed' = listed \ {r} /\ toClient' = Tell("unsubscribed", r)
       \/ UNCHANGED <<listed, toClient>>
    /\ UNCHANGED <<relayVars, streamVars, relayEnd, late>>

Forget(r) ==
    /\ relays[r] = "gone" /\ r \in listed
    /\ listed' = listed \ {r}
    /\ UNCHANGED <<relayVars, streamVars, toClient, toRelay, relayEnd, relays, late>>

Next ==
    \/ \E c \in Clients :
          \/ AddStream(c) \/ RemoveStream(c) \/ Hear(c) \/ HearAlive(c)
          \/ Expire(c) \/ Update(c)
    \/ \E r \in Relays : Handle(r) \/ Start(r) \/ End(r) \/ Forget(r)

Spec == Init /\ [][Next]_vars

(* The main loops of the processes go on, time passes.                     *)
Fairness ==
    /\ \A c \in Clients : WF_vars(Hear(c)) /\ WF_vars(Expire(c)) /\ WF_vars(Update(c))
    /\ \A r \in Relays : WF_vars(Handle(r)) /\ WF_vars(Forget(r))
    /\ WF_vars(Start(Steady))

FairSpec == Spec /\ Fairness

(* Known are the streams of which a turn of the relay handled one message  *)
(* only.  Two messages about one identifier that a relay handles in one    *)
(* turn may be handled in the wrong order, and the provider says nothing   *)
(* more.                                                                   *)
Knows(r, c) ==
    \A s \in Ids(c) : <<r, c, s>> \in crossed \/ known[r][<<c, s>>] = streams[c][s]
Quiet(r, c) == \A m \in ToSet(toRelay[r]) : m.from # c

(* A relay that has handled all that a client sent knows every stream of   *)
(* the client as it is now, however often the client lost the relay, took  *)
(* another one, and gave the identifier of a stream to another stream, but *)
(* for streams of which the last message was handled in one turn with      *)
(* another one about the same identifier (stream.cpp, stream_relay).       *)
RelayKnowsStreams ==
    \A c \in Clients : relay[c] \in Running /\ Quiet(relay[c], c) => Knows(relay[c], c)

=============================================================================
