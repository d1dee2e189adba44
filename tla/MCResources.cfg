CONSTANTS
    s1 = s1  s2 = s2  b1 = b1  b2 = b2
    consumer = consumer  stream = stream
    None = None
    Server = {s1, s2}
    Blob = {b1, b2}
    Target = {consumer}
    Sink = {stream}
    SinkOf <- MCSinkOf
    Size = 2
    Ask = 1
    Copies = 1
    Scenarios <- MCScenarios
    Setups <- MCSetups
SPECIFICATION FairResourcesSpec
CHECK_DEADLOCK FALSE
INVARIANTS RequestKeepsItsServer
PROPERTIES RequestEnds
