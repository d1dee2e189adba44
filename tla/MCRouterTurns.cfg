\* Three ids in the range (2 .. 4), three past its end; two workers, three nodes.
CONSTANTS
    IdBase = 1
    IdEnd = 5
    MaxId = 7
    Workers = {"first worker", "second worker"}
    Main = "main"
    Own = 9
    Endpoints = {1, 2, 3, 7, 9}
    Scripts <- MCScripts
    FirstNodes = {1, 3}
    Count = 1
    MaxFlows = 1
SPECIFICATION MCSpec
INVARIANTS ZeroMeansExhausted TurnsAreSound
PROPERTIES FreeIdIsFound TurnsEnd
