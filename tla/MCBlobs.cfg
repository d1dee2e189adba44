CONSTANTS
    t1 = t1  t2 = t2  b1 = b1
    None = None
    Blob = {b1}
    Target = {t1, t2}
    Sink = {b1}
    SinkOf <- MCSinkOf
    Size = 5
    Ask = 3
    Copies = 2
    Scenarios <- MCScenarios
SPECIFICATION FairSpec
CHECK_DEADLOCK FALSE
INVARIANTS TransfersAreWhole DeliveredOnce
PROPERTIES TransfersEnd
