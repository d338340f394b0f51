CONSTANTS
    Accounts = {a1, a2}
    Workers = {w1, w2, w3}
    NoAccount = NoAccount
    MaxFaults = 1
SPECIFICATION Spec
INVARIANTS TypeOK RowIsReal OutcomeIsReal
PROPERTY StatusSettles
CHECK_DEADLOCK FALSE
