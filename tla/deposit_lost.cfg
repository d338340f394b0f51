CONSTANTS
    Deposits = {d1}
    Workers = {w1, w2}
    NoDeposit = NoDeposit
    MaxFaults = 1
SPECIFICATION Spec
INVARIANT ClaimCarriesEntry
CHECK_DEADLOCK FALSE
