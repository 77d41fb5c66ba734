CONSTANTS
    MaxCalls = 3
    MaxCards = 2
    Budgets <- MCBudgets
SPECIFICATION FairSpec
CHECK_DEADLOCK FALSE
INVARIANTS EngineOpen StopArmed NewestInstalled
PROPERTIES EventuallyApplied
