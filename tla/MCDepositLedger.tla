--------------------------- MODULE MCDepositLedger ---------------------------
EXTENDS DepositLedger

CONSTANT d1

MCAmountOf == [x \in Deposits \union Sessions |-> IF x = d1 THEN 2 ELSE 3]
=============================================================================
