CONSTANTS
    Ids <- MCIds
    Routers <- MCRouters
    Links <- MCLinks
    HostOf <- MCHostOf
    InstanceInfo <- MCInstanceInfo
    HostInfo <- MCHostInfo
    PingStates = 2
    MaxEvents = 3
SPECIFICATION TrackerSpec
INVARIANTS ShownIsOfProcess
PROPERTY NodesBecomeKnown
CHECK_DEADLOCK FALSE
