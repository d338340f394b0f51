---------------------------- MODULE PayoutContract ----------------------------
(***************************************************************************)
(* What payouts promise the merchant, without handlers, races or crashes:  *)
(* who may set a payout in motion, that a rejection is the end of it, and  *)
(* that its money moves along one path at most once.                       *)
(*                                                                         *)
(*   phase   absent, requested, executing, failed, rejected                *)
(*   money   none, debited from the ledger, requested at the provider,     *)
(*           refunded to the ledger                                        *)
(***************************************************************************)
CONSTANTS Payouts, Owners, Admins, Members, NoUser

VARIABLES
    phase,      \* where each payout stands
    maker,      \* who requested it
    checker,    \* who set it in motion, or rejected it
    money       \* how far its money has gone

contractVars == <<phase, maker, checker, money>>

Init ==
    /\ phase = [p \in Payouts |-> "absent"]
    /\ maker = [p \in Payouts |-> NoUser]
    /\ checker = [p \in Payouts |-> NoUser]
    /\ money = [p \in Payouts |-> "none"]

Move(p, from, to) ==
    /\ phase[p] = from
    /\ phase' = [phase EXCEPT ![p] = to]

Request(p, u) ==
    /\ Move(p, "absent", "requested")
    /\ maker' = [maker EXCEPT ![p] = u]
    /\ UNCHANGED <<checker, money>>

\* Owners act alone; everybody else needs a second pair of eyes.
MayStart(p, u) ==
    \/ u \in Owners /\ u = maker[p]
    \/ u \in Owners \union Admins /\ u # maker[p]

Start(p, u) ==
    /\ MayStart(p, u)
    /\ Move(p, "requested", "executing")
    /\ checker' = [checker EXCEPT ![p] = u]
    /\ UNCHANGED <<maker, money>>

Reject(p, u) ==
    /\ u \in Owners \union Admins
    /\ Move(p, "requested", "rejected")
    /\ checker' = [checker EXCEPT ![p] = u]
    /\ UNCHANGED <<maker, money>>

\* Lack of funds, found out before anything was debited.
PutBack(p) ==
    /\ money[p] = "none"
    /\ Move(p, "executing", "requested")
    /\ UNCHANGED <<maker, checker, money>>

Fail(p) ==
    /\ money[p] \in {"requested", "refunded"}
    /\ Move(p, "executing", "failed")
    /\ UNCHANGED <<maker, checker, money>>

Pay(p, from, to) ==
    /\ phase[p] = "executing"
    /\ money[p] = from
    /\ money' = [money EXCEPT ![p] = to]
    /\ UNCHANGED <<phase, maker, checker>>

Debit(p)  == Pay(p, "none", "debited")
Send(p)   == Pay(p, "debited", "requested")
Refund(p) == Pay(p, "requested", "refunded")

Next ==
    \E p \in Payouts :
        \/ \E u \in Owners \union Admins \union Members :
               Request(p, u) \/ Start(p, u) \/ Reject(p, u)
        \/ PutBack(p) \/ Fail(p)
        \/ Debit(p) \/ Send(p) \/ Refund(p)

Spec == Init /\ [][Next]_contractVars
=============================================================================
