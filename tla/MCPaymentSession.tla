-------------------------- MODULE MCPaymentSession --------------------------
EXTENDS PaymentSession, TLC

Symmetry == Permutations(Workers)
=============================================================================
