-------------------------------- MODULE Blobs --------------------------------
(***************************************************************************)
(* The transfer of blobs in fragments: class blob_manipulator in           *)
(* blobs_impl.cpp, at the endpoint that sends a blob and at those that     *)
(* receive it.  Fragments and resend requests may be lost, delayed and     *)
(* reordered on the way.  A part of a blob is a set of offsets, the vectors*)
(* of (begin, end) pairs are the sets of the offsets that they cover.      *)
(*                                                                         *)
(* A timeout is mature when nothing that could still prevent it is on its  *)
(* way, because each is much longer than the one before it: a fragment or  *)
(* a request on the way, 250 ms until the next request, 15 s until a blob  *)
(* that was sent is forgotten, 60 s or more until an incoming one is       *)
(* cancelled.  A timeout that fires earlier is counted as a rush.          *)
(***************************************************************************)
EXTENDS Integers, FiniteSets, Sequences

CONSTANTS
    Blob,      (* the blobs that are sent                                    *)
    Target,    (* the endpoints that may receive them                        *)
    Sink,      (* the target I/O objects that receivers have prepared        *)
    SinkOf,    (* [Blob -> Sink]: where an expected blob is put              *)
    Size,      (* the number of units of a blob                              *)
    Ask,       (* the most units that one resend request asks for            *)
    Copies,    (* bound: how many copies of a fragment are on the way        *)
    Scenarios, (* a set of records: to whom a blob is sent, whether it is    *)
               (* expected, the sizes of fragments, if the sender stops at   *)
               (* its max_time, and bounds: how many messages are lost and   *)
               (* how many timeouts are rushed; a calm one has no rush and   *)
               (* no early max_time                                          *)
    None

PlanType == [to : SUBSET Target, expected : BOOLEAN, pieces : SUBSET (1 .. Size),
             expires : BOOLEAN, losses : Nat, rushes : Nat, calm : BOOLEAN]
IsPatient(p) == p.calm => ~p.expires /\ p.rushes = 0

ASSUME BlobsAssumption ==
    /\ Size \in Nat \ {0} /\ Ask \in Nat \ {0} /\ Copies \in Nat \ {0}
    /\ SinkOf \in [Blob -> Sink]
    /\ Scenarios \subseteq PlanType /\ \A p \in Scenarios : IsPatient(p)

(* What is expected is put into a target I/O object of its own.            *)
ASSUME SinksAssumption ==
    (\E p \in Scenarios : p.expected) => \A b, c \in Blob : SinkOf[b] = SinkOf[c] => b = c

Offset == 0 .. Size - 1
Span(bgn, end) == bgn .. (end - 1)
Least(S) == CHOOSE x \in S : \A y \in S : x <= y
Greatest(S) == CHOOSE x \in S : \A y \in S : x >= y

Fragment == {m \in [to : Target, blob : Blob, bgn : Offset, end : 1 .. Size,
                    copy : 1 .. Copies] : m.bgn < m.end}
Request == {r \in [blob : Blob, bgn : Offset, end : 1 .. Size] : r.bgn < r.end}
Incoming == [done : SUBSET Offset, expected : BOOLEAN]

ASSUME NoneAssumption == None \notin Incoming

VARIABLES
    outgoing,  (* blob: is it in _outgoing: "new", "sending", and why it no  *)
               (* longer is: "gone" (linger_time) or "expired" (max_time)    *)
    todo,      (* blob: its todo_parts                                       *)
    incoming,  (* target, blob: the entry of _incoming                       *)
    sink,      (* target, sink: the blob_stream_io, and what it has signalled*)
    delivered, (* target, blob: how many times it was completed              *)
    quit,      (* pairs of targets and blobs: the entry was cancelled        *)
    fragments, (* on their way to the targets                                *)
    requests,  (* resend requests on their way to the sender                 *)
    lost,      (* target, blob, offset: a fragment with it was lost          *)
    plan       (* the scenario, with what is left of its bounds              *)

senderVars == <<outgoing, todo>>
targetVars == <<incoming, sink, delivered, quit>>
netVars == <<fragments, requests, lost>>
vars == <<senderVars, targetVars, netVars, plan>>

(* The parts that are stored in a stream but not appended to it.           *)
Kept == {p \in Offset \X (1 .. Size) : p[1] < p[2]}

TypeOK ==
    /\ outgoing \in [Blob -> {"new", "sending", "gone", "expired"}]
    /\ todo \in [Blob -> SUBSET Offset]
    /\ incoming \in [Target -> [Blob -> Incoming \cup {None}]]
    /\ sink \in [Target -> [Sink -> [at : 0 .. Size, kept : SUBSET Kept,
                                     finished : 0 .. 2, cancelled : 0 .. 2]]]
    /\ delivered \in [Target -> [Blob -> 0 .. 2]]
    /\ quit \subseteq Target \X Blob
    /\ fragments \subseteq Fragment
    /\ requests \subseteq Request
    /\ lost \subseteq Target \X Blob \X Offset
    /\ plan \in PlanType /\ IsPatient(plan)

Expected == [done |-> {}, expected |-> TRUE]

Init ==
    /\ plan \in Scenarios
    /\ outgoing = [b \in Blob |-> "new"]
    /\ todo = [b \in Blob |-> {}]
    /\ incoming = [t \in Target |-> [b \in Blob |->
                        IF plan.expected /\ t \in plan.to THEN Expected ELSE None]]
    /\ sink = [t \in Target |-> [s \in Sink |->
                    [at |-> 0, kept |-> {}, finished |-> 0, cancelled |-> 0]]]
    /\ delivered = [t \in Target |-> [b \in Blob |-> 0]]
    /\ quit = {} /\ fragments = {} /\ requests = {} /\ lost = {}

-----------------------------------------------------------------------------
(* The parts of a set of offsets: its maximal runs.                        *)
Parts(S) == {p \in Kept : /\ Span(p[1], p[2]) \subseteq S
                          /\ p[1] - 1 \notin S /\ p[2] \notin S}

(* The last part.                                                          *)
Back(S) == CHOOSE p \in Parts(S) : \A q \in Parts(S) : q[1] <= p[1]

(* pending_blob::merge_fragment: what is stored of a fragment when the     *)
(* parts in S are done.  Only the first part that reaches the fragment is  *)
(* taken into account.                                                     *)
Stores(S, bgn, end) ==
    LET near == {p \in Parts(S) : p[2] >= bgn}
        first == CHOOSE p \in near : \A q \in near : p[1] <= q[1]
        head == <<bgn, IF end < first[1] THEN end ELSE first[1]>>
        tail == <<first[2], end>>
        unlessEmpty(r) == IF r[1] < r[2] THEN <<r>> ELSE <<>>
    IN  IF near = {} THEN <<<<bgn, end>>>> ELSE unlessEmpty(head) \o unlessEmpty(tail)

(* pending_blob::merge_resend_request: parts that meet become one.         *)
MergeResendRequest(S, bgn, end) == S \cup Span(bgn, end)

(* A mutant of StoreFragment: it joins what is kept whether or not it      *)
(* follows.                                                                *)
StoreFragmentHasty(s, p) ==
    IF p[1] # s.at THEN [s EXCEPT !.kept = {k \in @ : k[1] # p[1]} \cup {p}]
    ELSE [s EXCEPT !.at = Greatest({p[2]} \cup {k[2] : k \in s.kept}), !.kept = {}]

(* blob_stream_io::store_fragment: what follows the end of the stream is   *)
(* appended, with those of the kept parts, from the first one on, that     *)
(* follow it; other parts are kept by their offset.                        *)
StoreFragment(s, p) ==
    LET before(k) == {j \in s.kept : j[1] < k[1]}
        follows(k) == k[1] = Greatest({p[2]} \cup {j[2] : j \in before(k)})
        joined == {k \in s.kept : follows(k) /\ \A j \in before(k) : follows(j)}
    IN  IF p[1] # s.at THEN [s EXCEPT !.kept = {k \in @ : k[1] # p[1]} \cup {p}]
        ELSE [s EXCEPT !.at = Greatest({p[2]} \cup {k[2] : k \in joined}), !.kept = @ \ joined]

(* At most two parts of a fragment are stored.                             *)
Store(s, parts) ==
    IF parts = <<>> THEN s
    ELSE IF Len(parts) = 1 THEN StoreFragment(s, parts[1])
    ELSE StoreFragment(StoreFragment(s, parts[1]), parts[2])

(* blob_manipulator::_done_begin_end: the first gap.                       *)
FirstGap(S) ==
    LET bgn == Least(Offset \ S)
        end == Least({Size} \cup {o \in S : o > bgn})
    IN  <<bgn, IF end < bgn + Ask THEN end ELSE bgn + Ask>>

More(n) == IF n < 2 THEN n + 1 ELSE n

-----------------------------------------------------------------------------
(* The sender.                                                             *)

Push(b) ==
    /\ outgoing[b] = "new"
    /\ outgoing' = [outgoing EXCEPT ![b] = "sending"]
    /\ todo' = [todo EXCEPT ![b] = Offset]
    /\ UNCHANGED <<targetVars, netVars, plan>>

(* Copies of a fragment are told apart so that they can arrive separately. *)
Copy(t, b, bgn, end) ==
    {c \in 1 .. Copies : [to |-> t, blob |-> b, bgn |-> bgn, end |-> end, copy |-> c] \notin fragments}
Sent(b, bgn, end) ==
    {[to |-> t, blob |-> b, bgn |-> bgn, end |-> end, copy |-> Least(Copy(t, b, bgn, end))]
        : t \in plan.to}

(* A fragment takes as much as the message can hold, also from beyond the  *)
(* end of the part.                                                        *)
SendFragment(b) ==
    /\ outgoing[b] = "sending" /\ todo[b] # {}
    /\ \E n \in plan.pieces :
        LET bgn == Back(todo[b])[1]
            end == IF bgn + n < Size THEN bgn + n ELSE Size
        IN  /\ \A t \in plan.to : Copy(t, b, bgn, end) # {}
            /\ todo' = [todo EXCEPT ![b] = @ \ Span(bgn, end)]
            /\ fragments' = fragments \cup Sent(b, bgn, end)
    /\ UNCHANGED <<outgoing, targetVars, requests, lost, plan>>

ProcessResend(r) ==
    /\ r \in requests
    /\ requests' = requests \ {r}
    /\ todo' = IF outgoing[r.blob] = "sending"
               THEN [todo EXCEPT ![r.blob] = MergeResendRequest(@, r.bgn, r.end)] ELSE todo
    /\ UNCHANGED <<outgoing, targetVars, fragments, lost, plan>>

-----------------------------------------------------------------------------
(* The targets.                                                            *)

Flying(t, b) == \E m \in fragments : m.to = t /\ m.blob = b
Asking(b) == \E r \in requests : r.blob = b
Begun(t, b) == incoming[t][b] # None /\ incoming[t][b].done # {}
Complete(t, b) == incoming[t][b] # None /\ incoming[t][b].done = Offset

Rush == plan.rushes > 0 /\ plan' = [plan EXCEPT !.rushes = @ - 1]
Timely(mature) == IF mature THEN UNCHANGED plan ELSE Rush

(* push_incoming_fragment and merge_fragment.  A fragment of a blob that   *)
(* has no entry, because it is new, complete, or cancelled, makes one, with*)
(* a buffer of its own.                                                    *)
ProcessIncoming(m) ==
    LET e == incoming[m.to][m.blob]
    IN  /\ m \in fragments
        /\ fragments' = fragments \ {m}
        /\ incoming' = [incoming EXCEPT ![m.to][m.blob] =
                [done |-> Span(m.bgn, m.end) \cup (IF e = None THEN {} ELSE e.done),
                 expected |-> e # None /\ e.expected]]
        /\ sink' = IF e = None \/ ~e.expected THEN sink
                   ELSE [sink EXCEPT ![m.to][SinkOf[m.blob]] =
                            Store(@, Stores(e.done, m.bgn, m.end))]
        /\ UNCHANGED <<senderVars, delivered, quit, requests, lost, plan>>

(* A mutant of AskForGap: it asks in every round.                          *)
AskForGapAlways(t, b) ==
    LET gap == FirstGap(incoming[t][b].done)
    IN  /\ Begun(t, b) /\ ~Complete(t, b)
        /\ requests' = requests \cup {[blob |-> b, bgn |-> gap[1], end |-> gap[2]]}
        /\ UNCHANGED <<senderVars, targetVars, fragments, lost, plan>>

(* blob_manipulator::update: 250 ms without a fragment.  A complete blob   *)
(* is taken away before that, in the same round.                           *)
AskForGap(t, b) ==
    LET gap == FirstGap(incoming[t][b].done)
    IN  /\ Begun(t, b) /\ ~Complete(t, b)
        /\ Timely(todo[b] = {} /\ ~Flying(t, b) /\ ~Asking(b))
        /\ requests' = requests \cup {[blob |-> b, bgn |-> gap[1], end |-> gap[2]]}
        /\ UNCHANGED <<senderVars, targetVars, fragments, lost>>

HandleComplete(t, b) ==
    /\ Complete(t, b)
    /\ incoming' = [incoming EXCEPT ![t][b] = None]
    /\ delivered' = [delivered EXCEPT ![t][b] = More(@)]
    /\ sink' = IF incoming[t][b].expected
               THEN [sink EXCEPT ![t][SinkOf[b]].finished = More(@)] ELSE sink
    /\ UNCHANGED <<senderVars, quit, netVars, plan>>

-----------------------------------------------------------------------------
(* Both sides forget what has timed out.                                   *)

(* A mutant of LingerOut: it does not wait for resend requests.            *)
LingerOutEarly(b) ==
    /\ outgoing[b] = "sending" /\ todo[b] = {}
    /\ outgoing' = [outgoing EXCEPT ![b] = "gone"]
    /\ UNCHANGED <<todo, targetVars, netVars, plan>>

(* _cleanup_outgoing: everything was sent, 15 s ago.                       *)
LingerOut(b) ==
    /\ outgoing[b] = "sending" /\ todo[b] = {}
    /\ Timely(~Asking(b) /\ \A t \in Target : ~Flying(t, b) /\ ~Begun(t, b))
    /\ outgoing' = [outgoing EXCEPT ![b] = "gone"]
    /\ UNCHANGED <<todo, targetVars, netVars>>

(* _cleanup_outgoing: max_time has passed since the blob was pushed.       *)
Expire(b) ==
    /\ plan.expires /\ outgoing[b] = "sending"
    /\ outgoing' = [outgoing EXCEPT ![b] = "expired"]
    /\ todo' = [todo EXCEPT ![b] = {}]
    /\ UNCHANGED <<targetVars, netVars, plan>>

CancelIncoming(t, b) ==
    /\ incoming[t][b] # None
    /\ incoming' = [incoming EXCEPT ![t][b] = None]
    /\ sink' = IF incoming[t][b].expected
               THEN [sink EXCEPT ![t][SinkOf[b]].cancelled = More(@)] ELSE sink
    /\ quit' = quit \cup {<<t, b>>}
    /\ UNCHANGED <<senderVars, delivered, netVars>>

(* A mutant of TimeOut: an entry that nothing came for is kept.            *)
TimeOutBegun(t, b) ==
    /\ Begun(t, b) /\ ~Complete(t, b)
    /\ Timely(outgoing[b] \in {"gone", "expired"} /\ ~Flying(t, b))
    /\ CancelIncoming(t, b)

(* _cleanup_incoming: no fragment for max_time.                            *)
TimeOut(t, b) ==
    /\ ~Complete(t, b)
    /\ Timely(outgoing[b] \in {"gone", "expired"} /\ ~Flying(t, b))
    /\ CancelIncoming(t, b)

(* The network, and a do_send that fails: its result is not looked at.     *)
Lose ==
    /\ plan.losses > 0
    /\ plan' = [plan EXCEPT !.losses = @ - 1]
    /\ \/ \E m \in fragments :
            /\ fragments' = fragments \ {m} /\ UNCHANGED requests
            /\ lost' = lost \cup {<<m.to, m.blob, o>> : o \in Span(m.bgn, m.end)}
       \/ \E r \in requests : requests' = requests \ {r} /\ UNCHANGED <<fragments, lost>>
    /\ UNCHANGED <<senderVars, targetVars>>

-----------------------------------------------------------------------------
Next ==
    \/ \E b \in Blob : Push(b) \/ SendFragment(b) \/ LingerOut(b) \/ Expire(b)
    \/ \E t \in Target, b \in Blob : AskForGap(t, b) \/ HandleComplete(t, b) \/ TimeOut(t, b)
    \/ \E m \in fragments : ProcessIncoming(m)
    \/ \E r \in requests : ProcessResend(r)
    \/ Lose

Spec == Init /\ [][Next]_vars

(* Both sides are polled, and what was sent arrives or is lost.  Nobody is *)
(* obliged to push a blob, and no timeout has to be rushed.                *)
FairSpec ==
    /\ Spec
    /\ \A b \in Blob :
        /\ WF_vars(SendFragment(b)) /\ WF_vars(Expire(b))
        /\ WF_vars(UNCHANGED plan /\ LingerOut(b))
    /\ \A t \in Target, b \in Blob :
        /\ WF_vars(HandleComplete(t, b))
        /\ WF_vars(UNCHANGED plan /\ AskForGap(t, b))
        /\ WF_vars(UNCHANGED plan /\ TimeOut(t, b))
    /\ \A t \in Target, o \in Offset :
        WF_vars(\E m \in fragments : m.to = t /\ m.bgn = o /\ ProcessIncoming(m))
    /\ WF_vars(\E r \in requests : ProcessResend(r))

-----------------------------------------------------------------------------
(* Nothing of a blob is forgotten between the two sides: what a target     *)
(* has not got yet is still to be sent, on its way, or was lost on the way *)
(* (push_outgoing, _process_finished_outgoing, merge_resend_request and    *)
(* merge_fragment agree on the parts).                                     *)
NothingIsForgotten ==
    \A b \in Blob, t \in plan.to : \A o \in Offset :
        outgoing[b] = "sending" =>
            \/ o \in todo[b]
            \/ \E m \in fragments : m.to = t /\ m.blob = b /\ o \in Span(m.bgn, m.end)
            \/ incoming[t][b] # None /\ o \in incoming[t][b].done
            \/ delivered[t][b] > 0
            \/ <<t, b>> \in quit \/ <<t, b, o>> \in lost

(* The messages of the sender hold equally much.                           *)
OneSize == \E n \in 1 .. Size : plan.pieces = {n}

(* The bookkeeping of an incoming blob and the stream it is put into agree,*)
(* in whatever order the fragments come and come again: what is done was   *)
(* appended or is kept until what is before it has come, and a stream that *)
(* is finished is whole (merge_fragment and blob_stream_io).  It needs all *)
(* fragments to begin at multiples of one size: of one that spans what is  *)
(* done, a piece would be stored again.                                    *)
StreamIsWhole ==
    OneSize => \A t \in Target, b \in Blob :
        LET e == incoming[t][b]
            s == sink[t][SinkOf[b]]
        IN  /\ e # None /\ e.expected =>
                /\ e.done = Span(0, s.at) \cup UNION {Span(k[1], k[2]) : k \in s.kept}
                /\ \A k \in s.kept : k[1] > s.at
            /\ s.finished > 0 => s.at = Size /\ s.kept = {}

(* A stream is finished or cancelled, and only once (handle_complete and   *)
(* _cleanup_incoming, blobs.cpp:195 and 198).                              *)
StreamEndsOnce ==
    \A t \in Target, s \in Sink : sink[t][s].finished + sink[t][s].cancelled <= 1

(* The transfers as their ends see them: nothing is forgotten, and streams *)
(* are whole and end once (blobs_impl.cpp, merge_fragment and              *)
(* merge_resend_request).                                                  *)
TransfersAreWhole == NothingIsForgotten /\ StreamIsWhole /\ StreamEndsOnce

(* The scenarios without rushed timeouts and without an early max_time.    *)
Calm == plan.calm

(* A blob that is sent to one target is delivered once, unless a resend    *)
(* request overtakes a fragment: a fragment that comes after the blob was  *)
(* complete would start it anew.                                           *)
DeliveredOnce ==
    \A t \in Target, b \in Blob :
        Calm /\ (\E u \in Target : plan.to = {u}) => delivered[t][b] <= 1

(* A target that has got a fragment gets the blob: the sender keeps it     *)
(* until nobody asks any more.  (When all the fragments that were sent at  *)
(* first are lost, no request is ever made.)                               *)
Completes ==
    \A t \in Target, b \in Blob : (Calm /\ Begun(t, b)) ~> (delivered[t][b] > 0)

(* Every transfer comes to an end on both sides, and nothing is left       *)
(* behind.  For a broadcast it is the max_time of the sender that ends it: *)
(* what is sent again for one target makes the others start anew.          *)
Settles ==
    \A b \in Blob : (outgoing[b] # "new") ~>
        [](/\ outgoing[b] # "sending" /\ ~Asking(b)
           /\ \A t \in Target : ~Flying(t, b) /\ incoming[t][b] = None)

(* What begins is completed where nothing rushes, and ends in any case     *)
(* (blobs_impl.cpp, process_outgoing and _cleanup_incoming).               *)
TransfersEnd == Completes /\ Settles

-----------------------------------------------------------------------------
(* What lies behind TransfersAreWhole and DeliveredOnce.                   *)

(* An expected blob has its target I/O object for itself until it ends.    *)
Awaits(t, b) == incoming[t][b] # None /\ incoming[t][b].expected
OneUser ==
    \A t \in Target, b, c \in Blob :
        Awaits(t, b) /\ SinkOf[b] = SinkOf[c] =>
            /\ Awaits(t, c) => b = c
            /\ sink[t][SinkOf[b]].finished + sink[t][SinkOf[b]].cancelled = 0

(* The blocks that fragments of n units are.                               *)
Starts(n) == {o \in Offset : \E k \in 0 .. Size : o = k * n}
End(n, o) == IF o + n < Size THEN o + n ELSE Size
OfBlocks(n, S) ==
    \A o \in Starts(n) : Span(o, End(n, o)) \subseteq S \/ Span(o, End(n, o)) \cap S = {}

(* Where messages hold equally much, only whole blocks are sent and kept.  *)
OnlyBlocks(n) ==
    /\ \A m \in fragments : m.bgn \in Starts(n) /\ m.end = End(n, m.bgn)
    /\ \A r \in requests : r.bgn \in Starts(n)
    /\ \A b \in Blob : \A o \in todo[b] : o \in Starts(n) \/ o - 1 \in todo[b]
    /\ \A t \in Target, b \in Blob :
          incoming[t][b] # None => OfBlocks(n, incoming[t][b].done)
    /\ \A t \in Target, s \in Sink : \A k \in sink[t][s].kept :
          k[1] \in Starts(n) /\ k[2] = End(n, k[1])
BlocksAreWhole == \A n \in 1 .. Size : plan.pieces = {n} => OnlyBlocks(n)

(* A blob goes to one target: its fragments are sent in rounds, of one gap *)
(* each, in the order of their offsets, and a new round is asked for when  *)
(* nothing of the last one is under way.                                   *)
Done(t, b) == IF incoming[t][b] = None THEN {} ELSE incoming[t][b].done
FlyingTo(t, b) == {m \in fragments : m.to = t /\ m.blob = b}
GapByGap(t, b) ==
    /\ todo[b] \cap Done(t, b) = {} /\ \A i, j \in todo[b] : Span(i, j) \subseteq todo[b]
    /\ \A m \in FlyingTo(t, b) :
        /\ m.bgn \notin Done(t, b) /\ \A o \in todo[b] : m.end <= o
        /\ \A k \in FlyingTo(t, b) : m = k \/ m.end <= k.bgn \/ k.end <= m.bgn
    /\ \A r \in requests : r.blob = b =>
        /\ todo[b] = {} /\ FlyingTo(t, b) = {} /\ outgoing[b] # "new"
        /\ Span(r.bgn, r.end) \cap Done(t, b) = {}
        /\ \A q \in requests : q.blob = b => q = r
    /\ outgoing[b] # "sending" => todo[b] = {}
    /\ outgoing[b] = "new" => Done(t, b) = {} /\ FlyingTo(t, b) = {}
    /\ delivered[t][b] > 0 =>
        /\ delivered[t][b] = 1 /\ incoming[t][b] = None
        /\ outgoing[b] # "new" /\ todo[b] = {} /\ FlyingTo(t, b) = {} /\ ~Asking(b)
RoundsToOne ==
    \A t \in Target : Calm /\ plan.to = {t} =>
        \A b \in Blob : GapByGap(t, b) /\ \A u \in Target \ {t} :
            delivered[u][b] = 0 /\ FlyingTo(u, b) = {} /\ Done(u, b) = {}

IInv ==
    /\ TypeOK
    /\ NothingIsForgotten
    /\ StreamEndsOnce /\ OneUser
    /\ BlocksAreWhole /\ StreamIsWhole
    /\ RoundsToOne
=============================================================================
