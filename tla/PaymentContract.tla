--------------------------- MODULE PaymentContract ---------------------------
(***************************************************************************)
(* What the payment core promises about one customer payment, without any  *)
(* handler, webhook or poller in sight: where the money of a session is,   *)
(* and which journal entries may exist because of it.                      *)
(*                                                                         *)
(*   open        no order has been sent for it                             *)
(*   in_flight   an initiate call or the provider owns the outcome         *)
(*   collected   the session was completed                                 *)
(*   clawed_back returned or reversed after it had been completed          *)
(*   bounced     returned or reversed without ever having been completed   *)
(*   dead        failed                                                    *)
(***************************************************************************)
CONSTANT Sessions

VARIABLES phase, posted

contractVars == <<phase, posted>>

Phases == {"open", "in_flight", "collected", "clawed_back", "bounced", "dead"}

Init == /\ phase = [s \in Sessions |-> "open"]
        /\ posted = {}

Move(s, from, to) == /\ phase[s] \in from
                     /\ phase' = [phase EXCEPT ![s] = to]
                     /\ UNCHANGED posted

Submit(s)   == Move(s, {"open"}, "in_flight")
Collect(s)  == Move(s, {"open", "in_flight"}, "collected")
ClawBack(s) == Move(s, {"collected"}, "clawed_back")
Bounce(s)   == Move(s, {"in_flight"}, "bounced")
Die(s)      == Move(s, {"open", "in_flight"}, "dead")

\* A journal entry is posted once, and only for a session whose phase has earned it.
Post(s, entry, earned) == /\ phase[s] \in earned
                          /\ <<s, entry>> \notin posted
                          /\ posted' = posted \union {<<s, entry>>}
                          /\ UNCHANGED phase

PostSettlement(s) == Post(s, "settlement", {"collected", "clawed_back"})
PostReversal(s)   == Post(s, "reversal", {"clawed_back", "bounced"})

Next == \E s \in Sessions :
            \/ Submit(s) \/ Collect(s) \/ ClawBack(s) \/ Bounce(s) \/ Die(s)
            \/ PostSettlement(s) \/ PostReversal(s)

Spec == Init /\ [][Next]_contractVars
=============================================================================
