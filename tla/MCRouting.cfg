CONSTANTS
    top = top  mid = mid  low = low  e = e  f = f  one = one  all = all
    All = All  None = None
    Routers = {top, mid, low}
    Endpoints = {e, f}
    Parent <- MCParent
    Homes <- MCHomes
    Data = {one, all}
    Src <- MCSrc
    Dst <- MCDst
    Movers = {f}
    Budgets <- MCBudgets
    MaxHops = 5
SPECIFICATION FairSpec
CHECK_DEADLOCK FALSE
INVARIANTS BroadcastOnce TargetedOnce
PROPERTIES NetworkSettles
