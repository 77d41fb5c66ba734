SPECIFICATION FairSpec
CONSTANTS
    Workers = {w1, w2}
    Savers = {m1}
    Link = link1
    Clients = {c1, c2, c3}
    MaxRotations = 1
    Budgets <- MCBudgets
INVARIANTS StoredKeyLives SavedIsLive NoLinkStranded
PROPERTIES EventuallyRestored
