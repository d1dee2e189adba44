\* A stream connection that is lost once, and a datagram socket of two
\* peers; and connectors.
CONSTANTS
    a = a
    b = b
    c = c
    d = d
    Msgs = {a, b, c, d}
    Size <- MCSize
    Priority <- MCPriority
    Block = 3
    MaxBits = 3
    Groups = {1, 2}
    MaxSent <- MCMaxSent
    MaxLost = 1
    Scenarios <- MCScenarios
SPECIFICATION MCSpec
INVARIANTS NothingIsForgotten ConnectionsHaveOnePlace
PROPERTIES MessagesArrive IsChannel ConnectorsGetThrough
CHECK_DEADLOCK FALSE
