------------------------------ MODULE Details -------------------------------
(***************************************************************************)
(* The detail views of the monitor (app/monitor): what the tracker stores  *)
(* of hosts, instances and nodes (remote_node_impl.cpp), the changes it    *)
(* reports, what TrackerModel makes of them, and what the views of the     *)
(* selected host, instance and node read of it, when they are told to.     *)
(***************************************************************************)
EXTENDS Integers, Sequences, SequencesExt, FiniteSets

CONSTANTS
    Hosts, Insts, Nodes,    (* the objects that can be known to the tracker *)
    Values,                 (* values a field can be set to                 *)
    MaxSets,                (* bound: how often fields are set              *)
    MaxPicks                (* bound: how often the selection changes       *)

VARIABLES
    value,      (* [object -> [field -> <<value, the one before>>]]         *)
    changes,    (* [object -> changes that have not been reported]          *)
    view,       (* the object each view shows: [kind -> object or Nobody]   *)
    page,       (* what each view has read: [kind -> [getter -> value]]     *)
    history,    (* the parameter model a view holds: [kind -> samples]      *)
    chart,      (* what its chart has read: [kind -> samples]               *)
    live,       (* the fields that change in this behaviour                 *)
    sets, picks (* bounds: what is left                                     *)

detailVars == <<value, changes, view, page, history, chart, live, sets, picks>>

Kinds == {"host", "inst", "node"}
ObjectsOf(k) == CASE k = "host" -> Hosts [] k = "inst" -> Insts [] k = "node" -> Nodes
Objects == Hosts \cup Insts \cup Nodes
KindOf(o) == CHOOSE k \in Kinds : o \in ObjectsOf(k)
Nobody == "nobody"
Unset == -1

(* The fields, each with the change that setting it reports.               *)
HostChange ==
    [hostname |-> "hostname",
     cpu |-> "hardware_config", totalRam |-> "hardware_config", totalSwap |-> "hardware_config",
     freeRam |-> "sensor_values", freeSwap |-> "sensor_values", shortLoad |-> "sensor_values",
     longLoad |-> "sensor_values", temperature |-> "sensor_values", power |-> "sensor_values"]
InstChange ==
    [hostId |-> "host_id", appName |-> "application_info", compiler |-> "build_info",
     version |-> "build_info"]
NodeChange ==
    [instanceId |-> "instance_id", hostId |-> "host_id", kind |-> "kind", name |-> "endpoint_info",
     subscription |-> "methods_added", statistics |-> "statistics", pings |-> "response_rate"]
ChangeOf(k) == CASE k = "host" -> HostChange [] k = "inst" -> InstChange [] k = "node" -> NodeChange
FieldsOf(o) == DOMAIN ChangeOf(KindOf(o))

(* These report a change only when the value is another one.               *)
OnlyIfOther == {"instanceId", "hostId", "kind", "name", "subscription"}

----------------------------------------------------------------------------
(* What the views read: remote_host, remote_instance and remote_node.      *)

New(o, f) == value[o][f][1]
Old(o, f) == value[o][f][2]
Plain(o, f) == New(o, f)
Delta(o, f) == IF Old(o, f) = Unset THEN <<>> ELSE <<New(o, f) - Old(o, f)>>
Usage(o, free, total) ==
    IF Unset \in {New(o, free), New(o, total)} THEN <<>> ELSE <<New(o, free), New(o, total)>>
(* The change of the usage is -1 whatever changed.                         *)
UsageChange(o, free, total) ==
    IF Delta(o, free) = <<>> \/ New(o, total) = Unset THEN <<>> ELSE <<-1>>

HostPage(h) ==
    [displayName |-> Plain(h, "hostname"), cpuThreads |-> Plain(h, "cpu"),
     shortLoad |-> Plain(h, "shortLoad"), shortLoadDelta |-> Delta(h, "shortLoad"),
     longLoad |-> Plain(h, "longLoad"), longLoadDelta |-> Delta(h, "longLoad"),
     ramTotal |-> Plain(h, "totalRam"), ramFree |-> Plain(h, "freeRam"),
     ramFreeDelta |-> Delta(h, "freeRam"), ramUsage |-> Usage(h, "freeRam", "totalRam"),
     ramUsageDelta |-> UsageChange(h, "freeRam", "totalRam"),
     swapTotal |-> Plain(h, "totalSwap"), swapFree |-> Plain(h, "freeSwap"),
     swapFreeDelta |-> Delta(h, "freeSwap"), swapUsage |-> Usage(h, "freeSwap", "totalSwap"),
     swapUsageDelta |-> UsageChange(h, "freeSwap", "totalSwap"),
     temperature |-> Plain(h, "temperature"), temperatureDelta |-> Delta(h, "temperature"),
     powerSupply |-> Plain(h, "power")]

InstPage(i) ==
    [displayName |-> Plain(i, "appName"), compiler |-> Plain(i, "compiler"),
     version |-> Plain(i, "version")]

(* Kind 1 is an endpoint: only it is shown under its own name.             *)
NodePage(n) ==
    [itemKind |-> Plain(n, "kind"),
     displayName |-> IF New(n, "kind") = 1 THEN Plain(n, "name") ELSE Unset,
     statistics |-> Plain(n, "statistics"), pingSuccessRate |-> Plain(n, "pings")]

(* What a view shows when it is given an object, and when it reads again.  *)
HostShown(h) == IF h = Nobody THEN <<>> ELSE HostPage(h)
InstShown(i) == IF i = Nobody THEN <<>> ELSE InstPage(i)
NodeShown(n) == IF n = Nobody THEN <<>> ELSE NodePage(n)
Page(k, o) ==
    CASE k = "host" -> HostShown(o) [] k = "inst" -> InstShown(o) [] k = "node" -> NodeShown(o)

----------------------------------------------------------------------------

Nothing(o) == [f \in FieldsOf(o) |-> <<Unset, Unset>>]

Init ==
    /\ value = [o \in Objects |-> Nothing(o)]
    /\ changes = [o \in Objects |-> {}]
    /\ view = [k \in Kinds |-> Nobody]
    /\ page = [k \in Kinds |-> <<>>]
    /\ history = [k \in Kinds |-> <<>>]
    /\ chart = [k \in Kinds |-> <<>>]
    /\ live \in {{<<k, f>> : f \in fs} : <<k, fs>> \in
          {<<k, {f}>> : k \in Kinds, f \in DOMAIN HostChange \cup DOMAIN InstChange \cup DOMAIN NodeChange}
          \cup {<<"host", {"freeRam", "totalRam"}>>, <<"host", {"freeSwap", "totalSwap"}>>,
                <<"node", {"kind", "name"}>>, <<"node", {"pings", "statistics"}>>}}
    /\ \A kf \in live : kf[2] \in DOMAIN ChangeOf(kf[1])
    /\ sets = MaxSets
    /\ picks = MaxPicks

(* An answer sets a field of what the tracker knows.                       *)
Set(o, f, v) ==
    /\ sets > 0
    /\ sets' = sets - 1
    /\ <<KindOf(o), f>> \in live
    /\ IF f \in OnlyIfOther /\ New(o, f) = v
       THEN UNCHANGED <<value, changes>>
       ELSE /\ value' = [value EXCEPT ![o][f] = <<v, @[1]>>]
            /\ changes' = [changes EXCEPT ![o] = @ \cup {ChangeOf(KindOf(o))[f]}]
    /\ UNCHANGED <<view, page, history, chart, live, picks>>

----------------------------------------------------------------------------
(* What TrackerModel emits when changes are reported to it, and what of    *)
(* that makes the views read again.                                        *)

EmittedOfHost(cs) == IF cs # {} THEN {"hostInfoChanged"} ELSE {}

EmittedOfInst(cs) ==
    (IF "host_id" \in cs THEN {"instanceRelocated"} ELSE {}) \cup
    (IF cs \cap {"statistics", "started_responding", "stopped_responding", "application_info",
                 "build_info"} # {} THEN {"instanceInfoChanged"} ELSE {})

EmittedOfNode(cs) ==
    (IF "kind" \in cs THEN {"nodeKindChanged"} ELSE {}) \cup
    (IF cs \cap {"host_id", "instance_id"} # {} THEN {"nodeRelocated"} ELSE {}) \cup
    (IF cs \cap {"endpoint_info", "response_rate", "started_responding", "stopped_responding"} # {}
     THEN {"nodeInfoChanged"} ELSE {})

Emitted(k, cs) ==
    CASE k = "host" -> EmittedOfHost(cs)
      [] k = "inst" -> EmittedOfInst(cs)
      [] k = "node" -> EmittedOfNode(cs)

HostConnects == {"hostInfoChanged"}
InstConnects == {"instanceRelocated", "instanceInfoChanged"}
NodeConnects == {"nodeKindChanged", "nodeRelocated", "nodeInfoChanged"}

Refreshes(k, cs) ==
    Emitted(k, cs) \cap (HostConnects \cup InstConnects \cup NodeConnects) # {}

(* The sample a report adds to the parameter model of the object.          *)
Samples(k, cs) ==
    CASE k = "host" -> IF "sensor_values" \in cs /\ New(view[k], "shortLoad") # Unset
                       THEN <<New(view[k], "shortLoad")>> ELSE <<>>
      [] k = "inst" -> <<>>
      [] k = "node" -> IF "response_rate" \in cs THEN <<New(view[k], "pings")>> ELSE <<>>

(* The host's views read before the sample is stored, the node's after it. *)
ReadChart(k, cs) ==
    CASE k = "host" -> history[k]
      [] k = "inst" -> <<>>
      [] k = "node" -> history[k] \o Samples(k, cs)

(* The tracker's update: every change is reported and forgotten.           *)
Update ==
    /\ changes # [o \in Objects |-> {}]
    /\ changes' = [o \in Objects |-> {}]
    /\ LET told(k) == IF view[k] = Nobody THEN {} ELSE changes[view[k]]
           again(k) == view[k] # Nobody /\ Refreshes(k, told(k))
       IN  /\ page' = [k \in Kinds |-> IF again(k) THEN Page(k, view[k]) ELSE page[k]]
           /\ chart' = [k \in Kinds |-> IF again(k) THEN ReadChart(k, told(k)) ELSE chart[k]]
           /\ history' = [k \in Kinds |->
                IF view[k] = Nobody THEN history[k] ELSE history[k] \o Samples(k, told(k))]
    /\ UNCHANGED <<value, view, live, sets, picks>>

----------------------------------------------------------------------------
(* The selection.                                                          *)

(* A view takes another object: it reads it, and its parameters begin anew.*)
Show(new) ==
    /\ view' = new
    /\ page' = [k \in Kinds |-> Page(k, new[k])]
    /\ history' = [k \in Kinds |-> IF new[k] = view[k] THEN history[k] ELSE <<>>]
    /\ chart' = [k \in Kinds |-> IF new[k] = view[k] THEN chart[k] ELSE <<>>]

(* A host, an instance on it or a node of it is picked, or nothing is.     *)
Selections ==
    {[k \in Kinds |-> CASE k = "host" -> h [] k = "inst" -> i [] k = "node" -> n] :
        h \in Hosts \cup {Nobody}, i \in Insts \cup {Nobody}, n \in Nodes \cup {Nobody}}

OnItemSelected ==
    /\ picks > 0
    /\ picks' = picks - 1
    /\ \E new \in Selections :
        /\ \E k \in Kinds : new[k] # Nobody
        /\ Show(new)
    /\ UNCHANGED <<value, changes, live, sets>>

OnItemUnselected ==
    /\ picks > 0
    /\ picks' = picks - 1
    /\ Show([k \in Kinds |-> Nobody])
    /\ UNCHANGED <<value, changes, live, sets>>

(* A node that says bye-bye is forgotten; when it was selected, another    *)
(* item is, or none.                                                       *)
NodeDisappeared(n) ==
    /\ picks > 0
    /\ picks' = picks - 1
    /\ value' = [value EXCEPT ![n] = Nothing(n)]
    /\ changes' = [changes EXCEPT ![n] = {}]
    /\ IF view["node"] = n
       THEN \E new \in Selections : new["node"] = Nobody /\ Show(new)
       ELSE UNCHANGED <<view, page, history, chart>>
    /\ UNCHANGED <<live, sets>>

Next ==
    \/ \E o \in Objects, v \in Values : \E f \in FieldsOf(o) : Set(o, f, v)
    \/ Update
    \/ OnItemSelected \/ OnItemUnselected
    \/ \E n \in Nodes : NodeDisappeared(n)

Spec == Init /\ [][Next]_detailVars

----------------------------------------------------------------------------

(* What is shown is what the tracker knows of the selected object once its *)
(* changes have been reported: nothing of what was selected before, and    *)
(* nothing that has changed since. Statistics of a node are shown only     *)
(* with the next change of another kind.                                   *)
PagesAreCurrent ==
    \A k \in Kinds :
        IF view[k] = Nobody THEN page[k] = <<>>
        ELSE /\ DOMAIN page[k] = DOMAIN Page(k, view[k])
             /\ changes[view[k]] = {} =>
                    \A g \in DOMAIN page[k] \ {"statistics"} : page[k][g] = Page(k, view[k])[g]

(* A chart shows samples of the selected object only, in order, and all of *)
(* them but the last: that of a node shows the last one too.               *)
ChartsFollow ==
    /\ chart["node"] = history["node"]
    /\ chart["host"] \in {history["host"]} \cup {Front(s) : s \in {history["host"]} \ {<<>>}}
    /\ \A k \in Kinds : view[k] = Nobody => history[k] = <<>>
    /\ \A k \in Kinds : history[k] # <<>> /\ changes[view[k]] = {} =>
            Last(history[k]) = New(view[k], IF k = "host" THEN "shortLoad" ELSE "pings")
=============================================================================
