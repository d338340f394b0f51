--------------------------- MODULE ProviderClient ---------------------------
(***************************************************************************)
(* What the clients of the payment providers make of the reply to a        *)
(* request that moves money.  An error that a client calls definitive lets *)
(* its caller give the money back; an unknown outcome must wait.           *)
(***************************************************************************)

Providers == {"modern_treasury", "column"}

\* The reply to a request, given whether the provider created the order: a 2xx that
\* parses or does not, a 4xx, a 5xx or 429, or none (timeout, dropped connection).
Replies(created) ==
    {"overloaded", "none"} \union IF created THEN {"ok", "unreadable"} ELSE {"rejected"}

\* create_transfer of the two clients: an order may exist behind "overloaded" and "none".
\* (It does behind "unreadable" too, which both report as a definitive error.)
ModernTreasuryVerdict(reply) ==
    CASE reply = "ok" -> "accepted"
      [] reply \in {"rejected", "unreadable"} -> "refused"
      [] OTHER -> "unknown"

ColumnVerdict(reply) ==
    CASE reply \in {"overloaded", "none"} -> "unknown"
      [] reply = "ok" -> "accepted"
      [] OTHER -> "refused"

TransferVerdict(provider, reply) ==
    IF provider = "column" THEN ColumnVerdict(reply) ELSE ModernTreasuryVerdict(reply)

\* create_payout and pull_funds: every failure is definitive.
PayoutVerdict(reply) == IF reply = "ok" THEN "accepted" ELSE "refused"

PullVerdict(reply) == IF reply = "ok" THEN "accepted" ELSE "refused"
=============================================================================
