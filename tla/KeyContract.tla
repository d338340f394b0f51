----------------------------- MODULE KeyContract -----------------------------
(***************************************************************************)
(* What an idempotency key promises, without requests that race or die: it *)
(* stands for the body that took it, the work for that body is done once   *)
(* at most, and nobody is told of it before its result is kept.            *)
(***************************************************************************)
EXTENDS Naturals

CONSTANTS Keys, Bodies, NoBody

VARIABLES
    claim,      \* the body that a key stands for
    made,       \* the bodies for which sessions were made under a key
    kept,       \* keys whose result is stored
    told        \* <<key, body, session>> that was answered

contractVars == <<claim, made, kept, told>>

Init ==
    /\ claim = [k \in Keys |-> NoBody]
    /\ made = [k \in Keys |-> <<>>]
    /\ kept = {}
    /\ told = {}

Take(k, b) ==
    /\ claim[k] = NoBody
    /\ claim' = [claim EXCEPT ![k] = b]
    /\ UNCHANGED <<made, kept, told>>

Make(k) ==
    /\ claim[k] \in Bodies
    /\ made[k] = <<>>
    /\ made' = [made EXCEPT ![k] = <<claim[k]>>]
    /\ UNCHANGED <<claim, kept, told>>

Result(k) == <<k, claim[k], 1>>

\* The one who did the work keeps its result and may hear of it at once.
Keep(k) ==
    /\ made[k] # <<>>
    /\ k \notin kept
    /\ kept' = kept \union {k}
    /\ told' \in {told, told \union {Result(k)}}
    /\ UNCHANGED <<claim, made>>

Tell(k) ==
    /\ k \in kept
    /\ told' = told \union {Result(k)}
    /\ UNCHANGED <<claim, made, kept>>

\* A day later, done or not.
Forget(k) ==
    /\ claim[k] \in Bodies
    /\ claim' = [claim EXCEPT ![k] = NoBody]
    /\ made' = [made EXCEPT ![k] = <<>>]
    /\ kept' = kept \ {k}
    /\ told' = {t \in told : t[1] # k}

Next ==
    \E k \in Keys :
        \/ \E b \in Bodies : Take(k, b)
        \/ Make(k) \/ Keep(k) \/ Tell(k) \/ Forget(k)

Spec == Init /\ [][Next]_contractVars
=============================================================================
