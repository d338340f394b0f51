CONSTANTS
    s1 = s1
    w1 = w1
    w2 = w2
    w3 = w3
    Sessions = {s1}
    Workers = {w1, w2, w3}
    StrayOrders = {s1}
    NoSession = NoSession
    Faults = TRUE
SPECIFICATION Spec
SYMMETRY Symmetry
INVARIANTS TypeOK OneTransferPerSession GateBeforeMoney NoDoublePost EventsOnce CollectedHasOrder
PROPERTY ContractHolds
