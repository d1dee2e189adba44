CONSTANTS
    h1 = h1
    h2 = h2
    Helpers <- MCHelpers
    Root = "start"
    Alternatives <- MCAlternatives
    Solved <- MCSolved
    MaxRecursion = 0
    MaxBacklog = 1
    AliveBelow = 1
    BatchSize = 8
    Side = 2
    MinCell <- MCMin
    MaxCell <- MCMax
    MaxFaults = 2
SPECIFICATION Spec
INVARIANTS PlaneIsRight
CHECK_DEADLOCK FALSE
PROPERTIES Completes
