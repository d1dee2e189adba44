-------------------------- MODULE DirectConnection --------------------------
(***************************************************************************)
(* The connection inside a process in direct.cpp: a client and a server    *)
(* share a state with a double buffer for each direction. What is sent is  *)
(* pushed under a lock into the next buffer; who fetches swaps the buffers *)
(* under the lock and handles the current one outside of it.  The flags by *)
(* which the ends learn of each other's destruction are read on their own. *)
(***************************************************************************)
EXTENDS Naturals, Sequences, FiniteSets, SequencesExt

CONSTANTS
    Msgs,    (* messages; each is sent at most once                        *)
    MaxSent, (* bound: the messages each end sends                         *)
    MaxRefused (* bound: how often a handler refuses a message             *)

Ends == {"client", "server"}
Other(e) == IF e = "client" THEN "server" ELSE "client"

VARIABLES
    buffers,   (* end: the double buffer it fetches from                    *)
    accepted,  (* the state left direct_connection_address::_pending       *)
    connected, (* end: _client_connected, _server_connected                *)
    there,     (* end: its connection object exists                        *)
    usable,    (* direct_server_connection::_is_usable                     *)
    fetching,  (* end: where it is in fetch_messages                       *)
    sent,      (* end: what it sent                                        *)
    got,       (* end: what its handler took                               *)
    refused,   (* the messages that a handler refused once                 *)
    late       (* the client went while the server was fetching            *)

vars == <<buffers, accepted, connected, there, usable, fetching, sent, got, refused, late>>

Empty == [current |-> <<>>, next |-> <<>>]

(* The client's constructor: connect leaves the state with the address,    *)
(* and client_connect.                                                     *)
Init ==
    /\ buffers = [e \in Ends |-> Empty]
    /\ accepted = FALSE
    /\ connected = [e \in Ends |-> TRUE]
    /\ there = [e \in Ends |-> e = "client"]
    /\ usable = TRUE
    /\ fetching = [e \in Ends |-> "no"]
    /\ sent = [e \in Ends |-> <<>>] /\ got = [e \in Ends |-> <<>>]
    /\ refused = {} /\ late = FALSE

(* direct_acceptor::process_accepted makes the server's connection.        *)
Accept ==
    /\ ~accepted
    /\ accepted' = TRUE
    /\ there' = [there EXCEPT !["server"] = TRUE]
    /\ UNCHANGED <<buffers, connected, usable, fetching, sent, got, refused, late>>

Push(b, m) == [b EXCEPT !.next = Append(@, m)]
Swap(b) == [current |-> b.next, next |-> b.current]

(* The client sends whatever has become of the server, the server only to  *)
(* a client that is connected. An end does not send while it fetches.      *)
Send(e, m) ==
    /\ there[e] /\ fetching[e] = "no" /\ Len(sent[e]) < MaxSent
    /\ \A f \in Ends : ~Contains(sent[f], m)
    /\ e = "server" => usable /\ connected["client"]
    /\ sent' = [sent EXCEPT ![e] = Append(@, m)]
    /\ buffers' = [buffers EXCEPT ![Other(e)] = Push(@, m)]
    /\ UNCHANGED <<accepted, connected, there, usable, fetching, got, refused, late>>

BeginFetch(e) ==
    /\ there[e] /\ fetching[e] = "no" /\ (e = "server" => usable)
    /\ buffers' = [buffers EXCEPT ![e] = Swap(@)]
    /\ fetching' = [fetching EXCEPT ![e] = "swapped"]
    /\ UNCHANGED <<accepted, connected, there, usable, sent, got, refused, late>>

(* The elements of a sequence that are in a set, in their order.           *)
Only(s, S) ==
    LET pick[i \in 0 .. Len(s)] ==
            IF i = 0 THEN <<>>
            ELSE IF s[i] \in S THEN Append(pick[i - 1], s[i]) ELSE pick[i - 1]
    IN  pick[Len(s)]

(* message_storage::fetch_all on the current buffer: what the handler      *)
(* refuses stays.                                                          *)
HandleCurrent(e) ==
    /\ fetching[e] = "swapped"
    /\ \E no \in SUBSET ToSet(buffers[e].current) :
          /\ Cardinality(refused \cup no) <= MaxRefused
          /\ refused' = refused \cup no
          /\ got' = [got EXCEPT ![e] = @ \o Only(buffers[e].current, Msgs \ no)]
          /\ buffers' = [buffers EXCEPT ![e].current = Only(@, no)]
    /\ fetching' = [fetching EXCEPT ![e] = IF e = "server" THEN "handled" ELSE "no"]
    /\ UNCHANGED <<accepted, connected, there, usable, sent, late>>

(* fetch_from_client returns _client_connected as it is now.               *)
EndFetch ==
    /\ fetching["server"] = "handled"
    /\ usable' = connected["client"]
    /\ fetching' = [fetching EXCEPT !["server"] = "no"]
    /\ UNCHANGED <<buffers, accepted, connected, there, sent, got, refused, late>>

(* The destructors: server_disconnect and client_disconnect.               *)
Leave(e) ==
    /\ there[e] /\ fetching[e] = "no"
    /\ there' = [there EXCEPT ![e] = FALSE]
    /\ connected' = [connected EXCEPT ![e] = FALSE]
    /\ late' = IF e = "client" THEN fetching["server"] # "no" ELSE late
    /\ UNCHANGED <<buffers, accepted, usable, fetching, sent, got, refused>>

Next ==
    \/ Accept
    \/ \E e \in Ends, m \in Msgs : Send(e, m)
    \/ \E e \in Ends : BeginFetch(e) \/ HandleCurrent(e) \/ Leave(e)
    \/ EndFetch

Spec == Init /\ [][Next]_vars

Waiting(e) == ToSet(buffers[e].current) \cup ToSet(buffers[e].next)

(* Each message that one end sent is either handled by the other end or    *)
(* still in its buffers, never both and never twice, whatever is refused   *)
(* and sent in the meantime; what was handled was handled in the order it  *)
(* was sent, unless it was refused before: a refused message is overtaken, *)
(* since it goes back by the other buffer.                                 *)
BuffersKeepAll ==
    \A e \in Ends :
        LET d == got[e]
            s == sent[Other(e)]
        IN  /\ ToSet(s) = ToSet(d) \cup Waiting(e)
            /\ Len(s) = Len(d) + Len(buffers[e].current) + Len(buffers[e].next)
            /\ Only(d, Msgs \ refused) = Only(s, ToSet(d) \ refused)

(* The server finds the client gone only after it handled everything that  *)
(* the client had sent, its bye-bye included, unless the client went       *)
(* during the fetch that found it, or a message was refused.               *)
LastWordsAreHeard ==
    ~usable /\ ~late /\ refused = {} => got["server"] = sent["client"]

(* The inductive invariant: on its way to an end is what the other end     *)
(* sent, in the order it was sent but for what was refused; behind a fetch *)
(* only what was refused is left; and when the client has gone, the fetch  *)
(* that follows finds all that it sent.                                    *)
Line(e) == got[e] \o buffers[e].current \o buffers[e].next

KeptFor(e) ==
    LET s == sent[Other(e)]
    IN  /\ Cardinality(ToSet(s)) = Len(s)
        /\ ToSet(Line(e)) = ToSet(s) /\ Len(Line(e)) = Len(s)
        /\ Only(Line(e), Msgs \ refused) = Only(s, Msgs \ refused)
        /\ fetching[e] # "swapped" => ToSet(buffers[e].current) \subseteq refused

GoneIsFound ==
    /\ connected["client"] = there["client"]
    /\ ~usable => ~connected["client"] /\ fetching["server"] = "no"
    /\ ~connected["client"] /\ ~late /\ (usable => fetching["server"] # "no")
          => ToSet(buffers["server"].next) \subseteq refused

IInv ==
    /\ buffers \in [Ends -> [current : Seq(Msgs), next : Seq(Msgs)]]
    /\ sent \in [Ends -> Seq(Msgs)] /\ got \in [Ends -> Seq(Msgs)]
    /\ fetching \in [Ends -> {"no", "swapped", "handled"}]
    /\ connected \in [Ends -> BOOLEAN] /\ there \in [Ends -> BOOLEAN]
    /\ usable \in BOOLEAN /\ late \in BOOLEAN
    /\ \A e \in Ends : KeptFor(e)
    /\ GoneIsFound
=============================================================================
