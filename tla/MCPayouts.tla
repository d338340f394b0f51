------------------------------ MODULE MCPayouts ------------------------------
EXTENDS Payouts, TLC

CONSTANT p1

\* A session that pays for each of the payouts alone, and not for both.
MCAmount == [x \in Payouts \union Sessions |->
                CASE x \in Sessions -> 4 [] x = p1 -> 2 [] OTHER -> 3]

Symmetry == Permutations(Workers)
=============================================================================
