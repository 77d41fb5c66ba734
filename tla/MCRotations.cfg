SPECIFICATION Spec
CONSTANTS
    Workers = {w1, w2}
    Savers = {m1}
    Link = link1
    Clients = {c1, c2, c3}
    MaxRotations = 2
    Budgets <- TwoRotations
INVARIANTS RestartsOnIt
CHECK_DEADLOCK FALSE
