\* With and without a password, which a knows and p does not.
CONSTANTS
    a = a
    p = p
    Endpoints = {a, p}
    PreId <- MCPreId
    KnowsPwd = {a}
    IdBase = 1
    IdEnd = 9
    MaxConns <- MCMaxConns
    MaxEarly <- MCMaxEarly
SPECIFICATION FairSpec
INVARIANTS NodeIdAgrees NodesHaveTheirOwnConnection NodesKnowThePassword
PROPERTIES EventuallyRegistered
CHECK_DEADLOCK FALSE
