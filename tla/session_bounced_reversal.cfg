CONSTANTS
    s1 = s1
    w1 = w1
    w2 = w2
    Sessions = {s1}
    Workers = {w1, w2}
    StrayOrders = {}
    NoSession = NoSession
    Faults = FALSE
SPECIFICATION Spec
INVARIANT ReversalCompensates
