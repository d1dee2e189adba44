\* Two of three connections, of two instances of an endpoint and of a router.
CONSTANTS
    c1 = c1
    c2 = c2
    c3 = c3
    e1 = e1
    e2 = e2
    m1 = m1
    Conns = {c1, c2, c3}
    Ids = {e1, e2}
    Msgs = {m1}
    IdOf <- MCIdOf
    InstOf <- MCInstOf
    Routers = {c3}
    Behind <- FirstBehind
    MaxInbox = 1
    NoConn = NoConn
    NoId = NoId
SPECIFICATION MCSpec
INVARIANTS OnePlace InfoIsConsistent SubscriptionsOfThisInstance
PROPERTIES PendingSettles
CHECK_DEADLOCK FALSE
