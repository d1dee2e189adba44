------------------------------ MODULE MCObservers ------------------------------
(***************************************************************************)
(* What observers learn, each on an instance of its own: the subscriptions *)
(* of endpoints and the messages they handle, the answers of the           *)
(* information services, and the list and the details that the monitor     *)
(* shows.  A behaviour chooses one of them and keeps to it; the variables  *)
(* of the others are not used.                                             *)
(***************************************************************************)
EXTENDS Subscriptions, TLC

VARIABLES
    which,
    answers, bus, changes, chart, decodes, gone, history, hostKnown, instKnown, live, lost,
    moves, now, page, picks, place, queries, query, questions, reported, row, selected, sets,
    shown, since, together, told, tree, value, view

listVars == <<place, instKnown, hostKnown, together, moves, gone, tree, selected, row, shown>>
detailVars == <<value, changes, view, page, history, chart, live, sets, picks>>
infoVars == <<bus, query, decodes, queries, answers, reported, now, since, questions, lost>>

(* An observer, and an endpoint that is one of an actor and a service, and *)
(* an actor that allows only what it handles.                              *)
MCEndpoints == {"observer", "service", "actor"}
Queries == {"qrySubscrp", "qrySubscrb"}
Listens == [actor |-> FALSE, allows |-> FALSE,
            objects |-> <<{"subscribTo", "unsubFrom", "notSubTo"}>>]
MCPrograms ==
    ("observer" :> {Listens}) @@
    ("service" :> {[actor |-> FALSE, allows |-> FALSE, objects |-> <<{"x"} \cup Queries>>],
                   [actor |-> FALSE, allows |-> FALSE,
                    objects |-> <<{"y"} \cup Queries, {"x", "y"}>>]}) @@
    ("actor" :> {[actor |-> TRUE, allows |-> FALSE, objects |-> <<{"x"}>>],
                 [actor |-> TRUE, allows |-> TRUE, objects |-> <<{"x"}>>]})
Budget(s, a, p, q, w) ==
    [starts |-> "observer" :> 1 @@ "service" :> s @@ "actor" :> a,
     posts |-> p, asks |-> q, whims |-> w]
MCBudgets == {Budget(2, 0, 0, 2, 0), Budget(1, 1, 1, 0, 1), Budget(0, 1, 2, 0, 1),
              Budget(1, 0, 2, 0, 1), Budget(1, 0, 0, 1, 1)}

(* A router that is linked to an endpoint and a bridge, and an endpoint    *)
(* that provides nothing.                                                  *)
I == INSTANCE Infos WITH
        Endpoints <- {"e", "f"}, Routers <- {"r"}, Bridges <- {"b"}, Providers <- {"e"},
        Able <- {"e"}, Links <- [r |-> {"e", "b"}], Measured <- [r |-> {"b"}],
        BusSize <- 2, MaxAsks <- 2, MaxChanges <- 1, MaxTold <- 1, MaxLost <- 1,
        heard <- reported, asks <- questions

(* Two nodes that may each go to the other of two instances.               *)
L == INSTANCE NodeList WITH
        Nodes <- {1, 2}, Instances <- {1, 2}, Hosts <- {1, 2},
        InstOf <- <<<<1, 2>>, <<1, 2>>>>, HostOf <- <<1, 2>>, MaxMoves <- 1, MaxGone <- 1

(* Two hosts, so that the selection can go from one to the other.          *)
V == INSTANCE Details WITH
        Hosts <- {"h1", "h2"}, Insts <- {"i1"}, Nodes <- {"n1"}, Values <- {1, 2},
        MaxSets <- 3, MaxPicks <- 2

ASSUME L!NodeListAssumption

NoList ==
    /\ place = 0 /\ instKnown = 0 /\ hostKnown = 0 /\ together = 0 /\ moves = 0 /\ gone = 0
    /\ tree = 0 /\ selected = 0 /\ row = 0 /\ shown = 0
NoDetails ==
    /\ value = 0 /\ changes = 0 /\ view = 0 /\ page = 0 /\ history = 0 /\ chart = 0
    /\ live = 0 /\ sets = 0 /\ picks = 0
NoInfos ==
    /\ bus = 0 /\ query = 0 /\ decodes = 0 /\ queries = 0 /\ answers = 0 /\ reported = 0
    /\ now = 0 /\ since = 0 /\ questions = 0 /\ lost = 0

(* No endpoint ever runs where it is not about subscriptions.              *)
NoProcess == [e \in Endpoints |-> <<>>]
NoSubscriptions ==
    /\ ran = NoProcess /\ objects = NoProcess /\ outgoing = NoProcess /\ toRtr = NoProcess
    /\ toEp = NoProcess /\ handled = NoProcess /\ due = [e \in Endpoints |-> {}]
    /\ up = 0 /\ incoming = 0 /\ node = 0 /\ info = 0 /\ heard = 0
    /\ posts = 0 /\ asks = 0 /\ whims = 0 /\ budget = 0

MCInit ==
    \/ which = "subscriptions" /\ SubsInit /\ NoList /\ NoDetails /\ NoInfos /\ told = 0
    \/ which = "infos" /\ I!Init /\ NoSubscriptions /\ NoList /\ NoDetails
    \/ which = "list" /\ L!Init /\ NoSubscriptions /\ NoDetails /\ NoInfos
    \/ which = "details" /\ V!Init /\ NoSubscriptions /\ NoList /\ NoInfos /\ told = 0

(* Bound: what nodes tell changes, or they tell something without being    *)
(* asked, but not both in one behaviour.                                   *)
ToldOrChanged == told = {} \/ now = 0

MCNext ==
    \/ which = "subscriptions" /\ SubsNext /\ UNCHANGED <<which, listVars, detailVars, infoVars, told>>
    \/ /\ which = "infos" /\ I!Next /\ ToldOrChanged'
       /\ UNCHANGED <<which, subsVars, listVars, detailVars>>
    \/ which = "list" /\ L!Next /\ UNCHANGED <<which, subsVars, detailVars, infoVars>>
    \/ which = "details" /\ V!Next /\ UNCHANGED <<which, subsVars, listVars, infoVars, told>>

MCSpec == MCInit /\ [][MCNext]_<<which, subsVars, listVars, detailVars, infoVars, told>>

(* Objects keep their queues, and what is wanted is handled in the end;    *)
(* answers arrive and mean what is documented; the rows, the selection and *)
(* the details of the monitor follow what the tracker knows                *)
(* (endpoint_impl.cpp, unsubscribe; the information services;              *)
(* NodeListViewModel.cpp, TrackerModel.cpp).                               *)
ObserversSeeWhatIs ==
    CASE which = "subscriptions" -> QueuesStay /\ WantedIsHandled
      [] which = "infos" -> I!AnswersArrive /\ I!ReportsAreMeant
      [] which = "list" -> L!RowsShowItems /\ L!SelectionFollows /\ L!NodesSettle
      [] which = "details" -> V!PagesAreCurrent /\ V!ChartsFollow
      [] OTHER -> TRUE
=============================================================================
