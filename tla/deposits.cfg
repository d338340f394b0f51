CONSTANTS
    d1 = d1
    Deposits = {d1}
    Sessions = {s1}
    Workers = {w1, w2}
    NoDeposit = NoDeposit
    MaxFaults = 2
    AmountOf <- MCAmountOf
SPECIFICATION DepositLedgerSpec
INVARIANTS DepositLedgerTypeOK CreditedOnce CreditEarned ClaimedIsPosted BalanceIsHistory
PROPERTY SettledIsPosted
CHECK_DEADLOCK FALSE
