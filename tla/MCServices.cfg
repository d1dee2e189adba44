CONSTANTS
    Clients <- MCClients
    Servers <- MCServers
    Kinds <- MCKinds
    MaxCalls <- MCMaxCalls
    MaxFaults = 1
SPECIFICATION MCSpec
INVARIANTS CallEndsOnce ResultIsOfItsCall ServicesKeepOrder
PROPERTIES OverdueAreEnded ServicesSettle
CHECK_DEADLOCK FALSE
