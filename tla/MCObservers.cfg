CONSTANTS
    Endpoints <- MCEndpoints
    Observer = "observer"
    Types = {"x", "y"}
    Programs <- MCPrograms
    Priorities = {0}
    Budgets <- MCBudgets
SPECIFICATION MCSpec
INVARIANTS HandledOnce ReportsAreTrue ObserversSeeWhatIs
CHECK_DEADLOCK FALSE
