------------------------------- MODULE Infos --------------------------------
(***************************************************************************)
(* The information services (services/*_info*.cpp, ability, topology,      *)
(* statistics, discovery): what an observer asks of the nodes of the bus,  *)
(* which node answers with which messages, and by which signal the         *)
(* observer hears of them, through its handlers or as decoded messages.    *)
(* Messages overtake each other: the observer takes those of one type      *)
(* newest first.                                                           *)
(***************************************************************************)
EXTENDS Integers, FiniteSets, Sequences, SequencesExt

CONSTANTS
    Endpoints, Routers, Bridges,    (* the nodes that can be asked                 *)
    Providers,                      (* the endpoints with the provider services    *)
    Able,                           (* the providers that can handle the type that
                                       is looked for                               *)
    Links, Measured,                (* what a router is linked to, and what of it
                                       has connection statistics: [router -> set]  *)
    BusSize,                        (* bound: the nodes on the bus in a behaviour  *)
    MaxAsks, MaxChanges, MaxTold, MaxLost   (* bounds                              *)

VARIABLES
    bus,        (* the nodes that are there                                  *)
    query,      (* what the observer asks for in this behaviour              *)
    decodes,    (* it takes decoded messages instead of having handlers      *)
    queries,    (* the queries on their way                                  *)
    answers,    (* the messages on their way to the observer                 *)
    heard,      (* what it heard by its signals, the last of each            *)
    now,        (* the version of what the nodes tell                        *)
    since,      (* its version when the questions that are open began        *)
    asks, told, (* bounds: questions left; what was told without being asked *)
    lost        (* messages lost                                             *)

infoVars == <<bus, query, decodes, queries, answers, heard, now, since, asks, told, lost>>

AllNodes == Endpoints \cup Routers \cup Bridges

----------------------------------------------------------------------------
(* The providers: what is told, by which message, in answer to which.      *)

SystemSkeletons ==
    [uptime      |-> <<"rqUptime", "uptime">>,      cpuThreads |-> <<"rqCpuThrds", "cpuThreads">>,
     shortLoad   |-> <<"rqShrtLoad", "shortLoad">>, longLoad   |-> <<"rqLongLoad", "longLoad">>,
     memPageSize |-> <<"rqMemPgSz", "memPageSz">>,  freeRam    |-> <<"rqFreRamSz", "freeRamSz">>,
     totalRam    |-> <<"rqTtlRamSz", "totalRamSz">>, freeSwap  |-> <<"rqFreSwpSz", "freeSwpSz">>,
     totalSwap   |-> <<"rqTtlSwpSz", "totalSwpSz">>,
     temperature |-> <<"rqTempMnMx", "tempMinMax">>, powerSupply |-> <<"rqPwrSuply", "powerSuply">>]
HostSkeletons == [hostId |-> <<"rqHostId", "hostId">>, hostname |-> <<"rqHostname", "hostname">>]
ApplicationSkeleton  == [appName |-> <<"rqAppName", "appName">>]
EndpointInfoSkeleton == [endpointInfo |-> <<"eagiEptInf.request", "eagiEptInf.response">>]
BuildInfoSkeleton    == [buildVersion |-> <<"eagiBldInf.request", "eagiBldInf.response">>]
CompilerInfoSkeleton == [compiler |-> <<"eagiCplInf.request", "eagiCplInf.response">>]
Skeletons == SystemSkeletons @@ HostSkeletons @@ ApplicationSkeleton @@ EndpointInfoSkeleton
             @@ BuildInfoSkeleton @@ CompilerInfoSkeleton

HandleStatsQuery == {"cpuThreads", "memPageSize", "totalRam", "totalSwap"}
HandleSensorQuery ==
    {"shortLoad", "longLoad", "freeRam", "freeSwap", "temperature", "powerSupply"}

Told(n, type, what, about, number) ==
    [from |-> n, type |-> type, what |-> what, about |-> about, version |-> now, number |-> number]

\* invoke_by: the skeletons the query is mapped to respond
Invoked(n, q) ==
    LET called == {f \in DOMAIN Skeletons : Skeletons[f][1] = q.type} \cup
                  (IF q.type = "qryStats" THEN HandleStatsQuery
                   ELSE IF q.type = "qrySensors" THEN HandleSensorQuery ELSE {})
    IN  {Told(n, Skeletons[f][2], f, n, q.number) : f \in called}

HandleAbilityQuery(n, q) ==
    IF q.type = "query" /\ n \in Able THEN {Told(n, "response", "ability", n, q.number)} ELSE {}

\* Every node answers these, whatever its services are
HandleTopologyQuery(n, q) ==
    IF q.type # "topoQuery" THEN {}
    ELSE IF n \in Routers THEN {Told(n, "topoRutrCn", "router", l, q.number) : l \in Links[n]}
    ELSE IF n \in Bridges THEN {Told(n, "topoBrdgCn", "bridge", n, q.number)}
    ELSE {Told(n, "topoEndpt", "endpoint", n, q.number)}
HandleStatisticsQuery(n, q) ==
    IF q.type # "statsQuery" THEN {}
    ELSE IF n \in Routers
         THEN {Told(n, "statsRutr", "routerStats", n, q.number)} \cup
              {Told(n, "statsConn", "connectionStats", l, q.number) : l \in Measured[n]}
    ELSE IF n \in Bridges THEN {Told(n, "statsBrdg", "bridgeStats", n, q.number)}
    ELSE {Told(n, "statsEndpt", "endpointStats", n, q.number)}

AnswersOf(n, q) ==
    (IF n \in Providers THEN Invoked(n, q) \cup HandleAbilityQuery(n, q) ELSE {})
    \cup HandleTopologyQuery(n, q) \cup HandleStatisticsQuery(n, q)

----------------------------------------------------------------------------
(* The consumers: what a message is announced as, and how it is asked for. *)

SystemSignals ==
    [uptime |-> "uptime", cpuThreads |-> "cpuThreads", shortLoad |-> "shortLoad", longLoad |-> "longLoad",
     memPageSz |-> "memPageSize", freeRamSz |-> "freeRam", totalRamSz |-> "totalRam", freeSwpSz |-> "freeSwap",
     totalSwpSz |-> "totalSwap", tempMinMax |-> "temperature", powerSuply |-> "powerSupply"]
HostSignals        == [hostId |-> "hostId", hostname |-> "hostname"]
ApplicationSignals == [appName |-> "appName"]
EndpointInfoSignals == "eagiEptInf.response" :> "endpointInfo"
BuildInfoSignals    == "eagiBldInf.response" :> "buildVersion"
CompilerInfoSignals == "eagiCplInf.response" :> "compiler"
AbilitySignals      == "response" :> "ability"
TopologySignals ==
    [topoRutrCn |-> "router", topoBrdgCn |-> "bridge", topoEndpt |-> "endpoint",
     byeByeRutr |-> "routerGone", byeByeBrdg |-> "bridgeGone", byeByeEndp |-> "endpointGone"]
StatisticsSignals ==
    [statsRutr |-> "routerStats", statsBrdg |-> "bridgeStats", statsEndpt |-> "endpointStats",
     statsConn |-> "connectionStats"]
DiscoverySignals ==
    [stillAlive |-> "alive", subscribTo |-> "subscribed", unsubFrom |-> "unsubscribed",
     notSubTo |-> "notSubscribed"]

HandlerOf == SystemSignals @@ HostSignals @@ ApplicationSignals @@ EndpointInfoSignals @@ BuildInfoSignals
             @@ CompilerInfoSignals @@ AbilitySignals @@ TopologySignals @@ StatisticsSignals @@ DiscoverySignals

(* What each decoder makes something of, and the order they are tried in.  *)
TopologyDecoders ==
    [router |-> "topoRutrCn", bridge |-> "topoBrdgCn", endpoint |-> "topoEndpt",
     routerGone |-> "byeByeRutr", bridgeGone |-> "byeByeBrdg", endpointGone |-> "byeByeEndp"]
TopologyChain == <<"router", "bridge", "endpoint", "routerGone", "bridgeGone", "endpointGone">>
StatisticsDecoders ==
    [routerStats |-> "statsRutr", bridgeStats |-> "statsBrdg", endpointStats |-> "statsEndpt",
     connectionStats |-> "statsConn"]
StatisticsChain == <<"routerStats", "bridgeStats", "endpointStats", "connectionStats">>
DiscoveryDecoders ==
    [alive |-> "stillAlive", subscribed |-> "subscribTo", unsubscribed |-> "unsubFrom",
     notSubscribed |-> "notSubTo"]
DiscoveryChain == <<"alive", "subscribed", "unsubscribed", "notSubscribed">>
AbilityDecoders == [ability |-> "response"]
DecoderOf == TopologyDecoders @@ StatisticsDecoders @@ DiscoveryDecoders @@ AbilityDecoders
DecodeChain == TopologyChain \o StatisticsChain \o DiscoveryChain \o <<"ability">>

\* decode_chain: the first decoder that makes something of the message
SignalsOf(type) ==
    IF decodes
    THEN LET able == SelectInSeq(DecodeChain, LAMBDA d : DecoderOf[d] = type)
         IN  IF able = 0 THEN {} ELSE {DecodeChain[able]}
    ELSE IF type \in DOMAIN HandlerOf THEN {HandlerOf[type]} ELSE {}

SystemQueries ==
    [uptime |-> "rqUptime", cpuThreads |-> "rqCpuThrds", shortLoad |-> "rqShrtLoad", longLoad |-> "rqLongLoad",
     memPageSize |-> "rqMemPgSz", freeRam |-> "rqFreRamSz", totalRam |-> "rqTtlRamSz",
     freeSwap |-> "rqFreSwpSz", totalSwap |-> "rqTtlSwpSz", temperature |-> "rqTempMnMx",
     powerSupply |-> "rqPwrSuply", stats |-> "qryStats", sensors |-> "qrySensors"]
HostQueries         == [hostId |-> "rqHostId", hostname |-> "rqHostname"]
ApplicationQueries  == [appName |-> "rqAppName"]
EndpointInfoQueries == [endpointInfo |-> "eagiEptInf.request"]
BuildInfoQueries    == [buildVersion |-> "eagiBldInf.request"]
CompilerInfoQueries == [compiler |-> "eagiCplInf.request"]
QueryToOne == SystemQueries @@ HostQueries @@ ApplicationQueries @@ EndpointInfoQueries
              @@ BuildInfoQueries @@ CompilerInfoQueries
FindHandler        == [ability |-> "query"]
DiscoverTopology   == [topology |-> "topoQuery"]
DiscoverStatistics == [statistics |-> "statsQuery"]
QueryToAll == FindHandler @@ DiscoverTopology @@ DiscoverStatistics

Init ==
    /\ bus \in {S \in SUBSET AllNodes : Cardinality(S) = BusSize}
    /\ query \in DOMAIN QueryToOne \cup DOMAIN QueryToAll
    /\ decodes \in (IF query \in DOMAIN QueryToAll THEN BOOLEAN ELSE {FALSE})
    /\ queries = {} /\ answers = {} /\ heard = {}
    /\ now = 0 /\ since = 0 /\ asks = MaxAsks /\ told = {} /\ lost = 0

----------------------------------------------------------------------------
(* The observer asks, the nodes answer, announce themselves and change.    *)

Addressed == IF query \in DOMAIN QueryToAll THEN bus ELSE bus \cap Endpoints

Ask ==
    /\ asks > 0
    /\ asks' = asks - 1
    /\ queries' = queries \cup
                  {[to |-> n, type |-> (QueryToOne @@ QueryToAll)[query], number |-> asks] : n \in Addressed}
    /\ since' = IF queries = {} /\ answers = {} THEN now ELSE since
    /\ UNCHANGED <<bus, query, decodes, answers, heard, now, told, lost>>

Answer(q) ==
    /\ queries' = queries \ {q}
    /\ answers' = answers \cup AnswersOf(q.to, q)
    /\ UNCHANGED <<bus, query, decodes, heard, now, since, asks, told, lost>>

\* What nodes tell without being asked
Announcements == {"stillAlive", "subscribTo", "unsubFrom", "notSubTo"}
ByeOf(n) == IF n \in Routers THEN "byeByeRutr" ELSE IF n \in Bridges THEN "byeByeBrdg" ELSE "byeByeEndp"
Tell(n) ==
    /\ Cardinality(told) < MaxTold
    /\ \E type \in {ByeOf(n)} \cup (IF n \in Endpoints THEN Announcements ELSE {}) :
          /\ <<n, type>> \notin told
          /\ told' = told \cup {<<n, type>>}
          /\ answers' = answers \cup {Told(n, type, type, n, 0)}
    /\ UNCHANGED <<bus, query, decodes, queries, heard, now, since, asks, lost>>

Change ==
    /\ now < MaxChanges
    /\ now' = now + 1
    /\ UNCHANGED <<bus, query, decodes, queries, answers, heard, since, asks, told, lost>>

Reports(m) ==
    {[from |-> m.from, about |-> m.about, signal |-> s, what |-> m.what, version |-> m.version] :
        s \in SignalsOf(m.type)}

\* What a node tells in answer to one query is handled in the same turn
Hear(n, number) ==
    LET turn == {m \in answers : m.from = n /\ m.number = number}
        news == UNION {Reports(m) : m \in turn}
    IN  /\ turn # {}
        /\ answers' = answers \ turn
        /\ heard' = {h \in heard : \A r \in news : <<h.from, h.about, h.signal>> # <<r.from, r.about, r.signal>>}
                    \cup news
        /\ UNCHANGED <<bus, query, decodes, queries, now, since, asks, told, lost>>

Lose ==
    /\ lost < MaxLost
    /\ lost' = lost + 1
    /\ \/ \E q \in queries : queries' = queries \ {q} /\ UNCHANGED answers
       \/ \E m \in answers : answers' = answers \ {m} /\ UNCHANGED queries
    /\ UNCHANGED <<bus, query, decodes, heard, now, since, asks, told>>

Next ==
    \/ Ask \/ Change \/ Lose
    \/ \E n \in bus : Tell(n)
    \/ \E q \in queries : Answer(q)
    \/ \E n \in bus, number \in 0..MaxAsks : Hear(n, number)

Spec == Init /\ [][Next]_infoVars

----------------------------------------------------------------------------
(* What the services promise.                                              *)

(* What the documentation of a query says will be received of a node: the  *)
(* signals, each with whom it is about.                                    *)
Promised(n) ==
    CASE query \in DOMAIN QueryToOne ->
            IF n \notin Providers THEN {}
            ELSE {<<s, n>> : s \in CASE query = "stats" -> {"cpuThreads", "memPageSize", "totalRam", "totalSwap"}
                                     [] query = "sensors" -> {"shortLoad", "longLoad", "freeRam", "freeSwap",
                                                              "powerSupply"}
                                     [] OTHER -> {query}}
      [] query = "ability"  -> IF n \in Able THEN {<<"ability", n>>} ELSE {}
      [] query = "topology" -> IF n \in Routers THEN {<<"router", l>> : l \in Links[n]}
                               ELSE {<<IF n \in Bridges THEN "bridge" ELSE "endpoint", n>>}
      [] OTHER -> IF n \in Routers
                  THEN {<<"routerStats", n>>} \cup {<<"connectionStats", l>> : l \in Measured[n]}
                  ELSE {<<IF n \in Bridges THEN "bridgeStats" ELSE "endpointStats", n>>}

Quiet == queries = {} /\ answers = {}

(* Everything that was asked of a node that provides it is received in the *)
(* end, by the signal that is documented for it, and with a value that is  *)
(* not older than the first of the questions that were open together;      *)
(* every announcement and bye-bye is reported, by the signal of its kind;  *)
(* unless a message was lost.                                              *)
AnswersArrive ==
    (Quiet /\ lost = 0) =>
    /\ asks < MaxAsks =>
         \A n \in Addressed : \A p \in Promised(n) :
             \E h \in heard : h.from = n /\ <<h.signal, h.about>> = p /\ h.version >= since
    /\ \A t \in told : \E h \in heard : h.from = t[1] /\ h.what = t[2]

\* The signals announcements and bye-byes are documented to be reported by
Meant(n, type) ==
    CASE type = "stillAlive" -> "alive"
      [] type = "subscribTo" -> "subscribed"
      [] type = "unsubFrom"  -> "unsubscribed"
      [] type = "notSubTo"   -> "notSubscribed"
      [] OTHER -> IF n \in Routers THEN "routerGone" ELSE IF n \in Bridges THEN "bridgeGone" ELSE "endpointGone"

(* Nothing is reported that is not so, lost messages or not: a value is    *)
(* announced as what it was read as, only of nodes that provide it, and an *)
(* announcement or a bye-bye by the signal of its kind and of the kind of  *)
(* the node, only when the node made it.                                   *)
ReportsAreMeant ==
    \A h \in heard :
        IF <<h.from, h.what>> \in told THEN h.signal = Meant(h.from, h.what)
        ELSE h.signal = h.what /\ (h.what \in DOMAIN Skeletons => h.from \in Providers)
=============================================================================
