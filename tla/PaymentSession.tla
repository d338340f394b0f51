--------------------------- MODULE PaymentSession ---------------------------
(***************************************************************************)
(* The life of a payment session: the customer's confirm, the operator's   *)
(* initiate, the provider's webhooks and the reconciliation poller, all    *)
(* racing on one row of payment_sessions.  A step is one database          *)
(* statement (or one provider call) and the code between two awaits; other *)
(* handlers run between any two steps of a handler, and a handler may stop *)
(* for good after any of its steps (crash, dropped connection, a database  *)
(* error passed up by the question mark operator).                         *)
(***************************************************************************)
EXTENDS Naturals, ProviderClient

CONSTANTS
    Sessions,       \* ids of payment sessions
    Workers,        \* the handlers that can be in flight at the same time
    StrayOrders,    \* sessions that an order entered at the provider by hand may name
    NoSession,      \* the session of an idle worker
    Faults          \* may handlers stop half way and side effects be lost?

ASSUME StrayOrdersAssumption == StrayOrders \subseteq Sessions
ASSUME NoSessionAssumption == NoSession \notin Sessions
ASSUME FaultsAssumption == Faults \in BOOLEAN

VARIABLES
    status,         \* payment_sessions.status
    columnRef,      \* sessions with payment_sessions.column_ref set
    counterparty,   \* sessions with payment_sessions.column_counterparty_id set
    expired,        \* sessions with now() > payment_sessions.expires_at
    transactions,   \* sessions with a row in transactions
    journal,        \* (session, entry_type) of the rows in journal_entries
    outbox,         \* how often each event of a session was enqueued
    kycVerified,    \* merchants.kyc_status = 'verified'
    order,          \* the statuses the provider's order has gone through
    pc, on, arg,    \* step, session and status argument of each worker
    submitted,      \* observation: transfer requests sent for a session
    strayed,        \* observation: sessions a stray order has named
    gated,          \* observation: sessions that some confirm passed through the gate
    collected       \* observation: sessions that were Completed at some time

rowVars == <<status, columnRef, counterparty, expired>>
bookVars == <<transactions, journal, outbox>>
workerVars == <<pc, on, arg>>
seenVars == <<submitted, strayed, gated, collected>>
vars == <<rowVars, bookVars, kycVerified, order, workerVars, seenVars>>

Status == {"pending", "authorized", "processing", "completed", "expired",
           "failed", "returned", "reversed"}

\* Statuses of an order at the provider; a session with no order has gone through none.
OrderStatus == {"submitted", "settled", "failed", "cancelled", "returned", "reversed"}

Entries == {"settlement", "reversal"}

Steps == {"idle",
          "gate", "claim_confirm", "create_counterparty", "store_counterparty",
          "fail_confirm", "tell_authorized",
          "claim_initiate", "send", "accepted", "refused",
          "insert_transaction", "settle_initiate", "tell_completed",
          "tell_change", "settle", "reverse", "resolve"}

TypeOK ==
    /\ status \in [Sessions -> Status]
    /\ columnRef \in SUBSET Sessions
    /\ counterparty \in SUBSET Sessions
    /\ expired \in SUBSET Sessions
    /\ transactions \in SUBSET Sessions
    /\ journal \in SUBSET (Sessions \X Entries)
    /\ outbox \in [Sessions \X Status -> Nat]
    /\ kycVerified \in BOOLEAN
    /\ order \in [Sessions -> SUBSET OrderStatus]
    /\ pc \in [Workers -> Steps]
    /\ on \in [Workers -> Sessions \union {NoSession}]
    /\ arg \in [Workers -> Status]
    /\ submitted \in [Sessions -> Nat]
    /\ strayed \in SUBSET StrayOrders
    /\ gated \in SUBSET Sessions
    /\ collected \in SUBSET Sessions

\* Sessions are inserted as pending rows; workers have nothing to do.
Init ==
    /\ status = [s \in Sessions |-> "pending"]
    /\ columnRef = {}
    /\ counterparty = {}
    /\ expired = {}
    /\ transactions = {}
    /\ journal = {}
    /\ outbox = [e \in Sessions \X Status |-> 0]
    /\ kycVerified = TRUE
    /\ order = [s \in Sessions |-> {}]
    /\ pc = [w \in Workers |-> "idle"]
    /\ on = [w \in Workers |-> NoSession]
    /\ arg = [w \in Workers |-> "pending"]
    /\ submitted = [s \in Sessions |-> 0]
    /\ strayed = {}
    /\ gated = {}
    /\ collected = {}

-----------------------------------------------------------------------------
(* Worker bookkeeping *)

Start(w, s, step, a) ==
    /\ pc' = [pc EXCEPT ![w] = step]
    /\ on' = [on EXCEPT ![w] = s]
    /\ arg' = [arg EXCEPT ![w] = a]

Goto(w, step) ==
    /\ pc' = [pc EXCEPT ![w] = step]
    /\ UNCHANGED <<on, arg>>

Finish(w) == Start(w, NoSession, "idle", "pending")

(* The database statements the handlers share *)

\* try_transition: the compare-and-swap; the row changes only from a status of `from`.
\* `ref` is {s} when the call carries the provider's reference, {} when it carries none.
Transition(s, from, to, ref) ==
    /\ status[s] \in from
    /\ status' = [status EXCEPT ![s] = to]
    /\ columnRef' = columnRef \union ref
    /\ collected' = IF to = "completed" THEN collected \union {s} ELSE collected
    /\ UNCHANGED <<counterparty, expired>>

\* The compare-and-swap finds another status: no row changes.
TransitionLost(s, from) ==
    /\ status[s] \notin from
    /\ UNCHANGED <<rowVars, collected>>

\* enqueue: the error of the INSERT is dropped by every caller.
Enqueue(s, event) ==
    \/ outbox' = [outbox EXCEPT ![<<s, event>>] = @ + 1]
    \/ Faults /\ UNCHANGED outbox

\* record_settlement and record_reversal: one transaction, refused by the unique index
\* on (session_id, entry_type); callers log an error and go on.
PostEntry(s, entry) ==
    \/ journal' = journal \union {<<s, entry>>}
    \/ Faults /\ UNCHANGED journal

-----------------------------------------------------------------------------
(* confirm_payment *)

\* Reads the row: expired and completed sessions go no further.
ConfirmRead(w, s) ==
    /\ pc[w] = "idle"
    /\ s \notin expired
    /\ status[s] \notin {"expired", "completed"}
    /\ Start(w, s, "gate", "pending")
    /\ UNCHANGED <<rowVars, bookVars, kycVerified, order, seenVars>>

\* The merchant row is read, then the customer is screened; any error denies.
GatePassedUnverified(cleared) == cleared   \* mutant: the KYC check is dropped

GatePassed(cleared) == kycVerified /\ cleared

Gate(w, cleared) ==
    /\ pc[w] = "gate"
    /\ gated' = IF kycVerified /\ cleared THEN gated \union {on[w]} ELSE gated
    /\ IF GatePassed(cleared) THEN Goto(w, "claim_confirm") ELSE Finish(w)
    /\ UNCHANGED <<rowVars, bookVars, kycVerified, order, submitted, strayed, collected>>

\* Pending -> Authorized.  The loser answers with the current status and changes nothing.
ConfirmFrom == {"pending"}

ConfirmClaim(w) ==
    /\ pc[w] = "claim_confirm"
    /\ \/ /\ Transition(on[w], ConfirmFrom, "authorized", {})
          /\ Goto(w, "create_counterparty")
       \/ /\ TransitionLost(on[w], ConfirmFrom)
          /\ Finish(w)
    /\ UNCHANGED <<bookVars, kycVerified, order, submitted, strayed, gated>>

\* Customer details are stored, then the provider is asked for a counterparty.
CreateCounterparty(w, ok) ==
    /\ pc[w] = "create_counterparty"
    /\ Goto(w, IF ok THEN "store_counterparty" ELSE "fail_confirm")
    /\ UNCHANGED <<rowVars, bookVars, kycVerified, order, seenVars>>

StoreCounterparty(w) ==
    /\ pc[w] = "store_counterparty"
    /\ counterparty' = counterparty \union {on[w]}
    /\ Goto(w, "tell_authorized")
    /\ UNCHANGED <<status, columnRef, expired, bookVars, kycVerified, order, seenVars>>

ConfirmFail(w) ==
    /\ pc[w] = "fail_confirm"
    /\ \/ Transition(on[w], {"authorized"}, "failed", {})
       \/ TransitionLost(on[w], {"authorized"})
    /\ Finish(w)
    /\ UNCHANGED <<bookVars, kycVerified, order, submitted, strayed, gated>>

TellAuthorized(w) ==
    /\ pc[w] = "tell_authorized"
    /\ Enqueue(on[w], "authorized")
    /\ Finish(w)
    /\ UNCHANGED <<rowVars, transactions, journal, kycVerified, order, seenVars>>

-----------------------------------------------------------------------------
(* initiate_session and initiate_payment: two routes, one protocol *)

\* The route under /payments/initiate answers at once when the session is completed.
InitiateSessionRead(w, s) ==
    /\ pc[w] = "idle"
    /\ s \notin expired
    /\ status[s] \notin {"expired", "completed"}
    /\ s \in counterparty
    /\ Start(w, s, "claim_initiate", "pending")
    /\ UNCHANGED <<rowVars, bookVars, kycVerified, order, seenVars>>

\* The route under /sessions/{id} leaves a completed session to the compare-and-swap.
InitiatePaymentRead(w, s) ==
    /\ pc[w] = "idle"
    /\ s \notin expired
    /\ status[s] # "expired"
    /\ s \in counterparty
    /\ Start(w, s, "claim_initiate", "pending")
    /\ UNCHANGED <<rowVars, bookVars, kycVerified, order, seenVars>>

InitiateFromReopened == {"authorized", "processing"}   \* mutant: a retry may claim again

InitiateFrom == {"authorized"}

InitiateClaim(w) ==
    /\ pc[w] = "claim_initiate"
    /\ \/ /\ Transition(on[w], InitiateFrom, "processing", {})
          /\ Goto(w, "send")
       \/ /\ TransitionLost(on[w], InitiateFrom)
          /\ Finish(w)
    /\ UNCHANGED <<bookVars, kycVerified, order, submitted, strayed, gated>>

\* Mutant: a timeout counts as success.
AnswersHopeful(created) == {"accepted", "refused"}

\* What the caller is told: the provider that is configured may be either.
Answers(created) ==
    {TransferVerdict(provider, reply) : provider \in Providers, reply \in Replies(created)}

\* The provider creates the order (once: the idempotency key is the session's) or not.
InitiateTransfer(w, created) ==
    /\ pc[w] = "send"
    /\ submitted' = [submitted EXCEPT ![on[w]] = @ + 1]
    /\ order' = [order EXCEPT ![on[w]] = IF created THEN @ \union {"submitted"} ELSE @]
    /\ \E answer \in Answers(created) :
           IF answer = "unknown" THEN Finish(w) ELSE Goto(w, answer)
    /\ UNCHANGED <<rowVars, bookVars, kycVerified, strayed, gated, collected>>

\* Mutant: the `if won` around the bookkeeping is missing.
InitiateCompleteUnguarded(w) ==
    /\ pc[w] = "accepted"
    /\ \/ Transition(on[w], {"processing"}, "completed", {on[w]})
       \/ TransitionLost(on[w], {"processing"})
    /\ Goto(w, "insert_transaction")
    /\ UNCHANGED <<bookVars, kycVerified, order, submitted, strayed, gated>>

\* Only the winner of Processing -> Completed records anything.
InitiateComplete(w) ==
    /\ pc[w] = "accepted"
    /\ \/ /\ Transition(on[w], {"processing"}, "completed", {on[w]})
          /\ Goto(w, "insert_transaction")
       \/ /\ TransitionLost(on[w], {"processing"})
          /\ Finish(w)
    /\ UNCHANGED <<bookVars, kycVerified, order, submitted, strayed, gated>>

\* A failing INSERT ends the handler before the ledger is touched (see Stop).
InsertTransaction(w) ==
    /\ pc[w] = "insert_transaction"
    /\ on[w] \notin transactions
    /\ transactions' = transactions \union {on[w]}
    /\ Goto(w, "settle_initiate")
    /\ UNCHANGED <<rowVars, journal, outbox, kycVerified, order, seenVars>>

SettleInitiate(w) ==
    /\ pc[w] = "settle_initiate"
    /\ PostEntry(on[w], "settlement")
    /\ Goto(w, "tell_completed")
    /\ UNCHANGED <<rowVars, transactions, outbox, kycVerified, order, seenVars>>

TellCompleted(w) ==
    /\ pc[w] = "tell_completed"
    /\ Enqueue(on[w], "completed")
    /\ Finish(w)
    /\ UNCHANGED <<rowVars, transactions, journal, kycVerified, order, seenVars>>

InitiateFail(w) ==
    /\ pc[w] = "refused"
    /\ \/ Transition(on[w], {"processing"}, "failed", {})
       \/ TransitionLost(on[w], {"processing"})
    /\ Finish(w)
    /\ UNCHANGED <<bookVars, kycVerified, order, submitted, strayed, gated>>
-----------------------------------------------------------------------------
(* column_webhook and moderntreasury_webhook: apply_webhook_status *)

\* map_status: cancelled is not among the statuses it knows.
MapStatus(st) ==
    CASE st = "submitted" -> {"processing"}
      [] st = "settled"   -> {"completed"}
      [] st \in {"failed", "returned", "reversed"} -> {st}
      [] OTHER -> {}

\* Mutant: a replayed in-flight webhook matches the status it set itself.
WebhookFromReplayed(to) ==
    IF to \in {"returned", "reversed"} THEN {"completed", "processing"}
                                       ELSE {"pending", "authorized", "processing"}

\* Mutant: a late settled webhook may leave the statuses that undo a settlement.
WebhookFromRevived(to) ==
    IF to \in {"returned", "reversed"} THEN {"completed", "processing"}
                                       ELSE {"pending", "authorized", "processing", "returned"}

\* The statuses apply_webhook_status may leave for each new one.
WebhookFrom(to) ==
    CASE to \in {"completed", "failed"}    -> {"pending", "authorized", "processing"}
      [] to = "processing"                 -> {"pending", "authorized"}
      [] to \in {"returned", "reversed"}   -> {"completed", "processing"}
      [] OTHER -> {}

\* A webhook reports any status the order has gone through, late, again or never.
\* Lost compare-and-swaps change nothing and are not steps.
ApplyWebhookStatus(w, s, st) ==
    /\ pc[w] = "idle"
    /\ st \in order[s]
    /\ \E new \in MapStatus(st) :
           /\ Transition(s, WebhookFrom(new), new, {s})
           /\ Start(w, s, "tell_change", new)
    /\ UNCHANGED <<bookVars, kycVerified, order, submitted, strayed, gated>>

\* Mutant: only a return is compensated.
LedgerStepReturnedOnly(new) == CASE new = "completed" -> "settle"
                                 [] new = "returned" -> "reverse"
                                 [] OTHER -> "idle"

\* The ledger step that a new status calls for.
LedgerStep(new) == CASE new = "completed" -> "settle"
                     [] new \in {"returned", "reversed"} -> "reverse"
                     [] OTHER -> "idle"

TellChange(w) ==
    /\ pc[w] = "tell_change"
    /\ Enqueue(on[w], arg[w])
    /\ IF LedgerStep(arg[w]) = "idle" THEN Finish(w) ELSE Goto(w, LedgerStep(arg[w]))
    /\ UNCHANGED <<rowVars, transactions, journal, kycVerified, order, seenVars>>

Settle(w) ==
    /\ pc[w] = "settle"
    /\ PostEntry(on[w], "settlement")
    /\ Finish(w)
    /\ UNCHANGED <<rowVars, transactions, outbox, kycVerified, order, seenVars>>

Reverse(w) ==
    /\ pc[w] = "reverse"
    /\ PostEntry(on[w], "reversal")
    /\ Finish(w)
    /\ UNCHANGED <<rowVars, transactions, outbox, kycVerified, order, seenVars>>

-----------------------------------------------------------------------------
(* The reconciliation poller (tick, second half) *)

\* Mutant: the provider's word is taken for the new status as it is.
MapProviderStatusRaw(st) == {st}

\* Mutant: the poller does not know a cancellation, as the webhook handler does not.
MapProviderStatusUncancelled(st) ==
    CASE st = "settled" -> {"completed"}
      [] st \in {"failed", "returned", "reversed"} -> {st}
      [] OTHER -> {}

\* map_provider_status: anything still in flight is left alone.
MapProviderStatus(st) ==
    CASE st = "settled" -> {"completed"}
      [] st \in {"failed", "cancelled"} -> {"failed"}
      [] st \in {"returned", "reversed"} -> {st}
      [] OTHER -> {}

\* What the provider answers about an order now: settled only while not undone.
Reported(s) == {st \in order[s] :
                   st = "settled" => order[s] \intersect {"returned", "reversed"} = {}}

\* A stuck session without a provider reference is logged and skipped.
ReconcilePoll(w, s) ==
    /\ pc[w] = "idle"
    /\ status[s] = "processing"
    /\ s \in columnRef
    /\ \E st \in Reported(s) : \E new \in MapProviderStatus(st) :
           Start(w, s, "resolve", new)
    /\ UNCHANGED <<rowVars, bookVars, kycVerified, order, seenVars>>

ReconcileResolve(w) ==
    /\ pc[w] = "resolve"
    /\ \/ /\ Transition(on[w], {"processing"}, arg[w],
                         IF arg[w] = "failed" THEN {} ELSE {on[w]})
          /\ IF LedgerStep(arg[w]) = "idle"
             THEN Finish(w)
             ELSE Goto(w, LedgerStep(arg[w]))
       \/ /\ TransitionLost(on[w], {"processing"})
          /\ Finish(w)
    /\ UNCHANGED <<bookVars, kycVerified, order, submitted, strayed, gated>>

-----------------------------------------------------------------------------
(* The environment *)

\* A handler stops after any step: a crash, a hang-up, an error returned early.
Stop(w) ==
    /\ Faults
    /\ pc[w] # "idle"
    /\ Finish(w)
    /\ UNCHANGED <<rowVars, bookVars, kycVerified, order, seenVars>>

Expire(s) ==
    /\ s \notin expired
    /\ expired' = expired \union {s}
    /\ UNCHANGED <<status, columnRef, counterparty, bookVars, kycVerified, order,
                   workerVars, seenVars>>

\* An administrator changes the merchant's KYC status.
SetKyc ==
    /\ kycVerified' = ~kycVerified
    /\ UNCHANGED <<rowVars, bookVars, order, workerVars, seenVars>>

OrderMoves(s, st) ==
    /\ \/ /\ order[s] = {"submitted"}
          /\ st \in OrderStatus \ {"submitted"}
       \/ /\ order[s] = {"submitted", "settled"}
          /\ st \in {"returned", "reversed"}
    /\ order' = [order EXCEPT ![s] = @ \union {st}]
    /\ UNCHANGED <<rowVars, bookVars, kycVerified, workerVars, seenVars>>

\* An order naming the session is entered at the provider by other means.
StrayOrder(s) ==
    /\ s \in StrayOrders
    /\ order[s] = {}
    /\ order' = [order EXCEPT ![s] = {"submitted"}]
    /\ strayed' = strayed \union {s}
    /\ UNCHANGED <<rowVars, bookVars, kycVerified, workerVars, submitted, gated, collected>>

-----------------------------------------------------------------------------
ConfirmNext(w) ==
    \/ \E s \in Sessions : ConfirmRead(w, s)
    \/ \E cleared \in BOOLEAN : Gate(w, cleared)
    \/ ConfirmClaim(w)
    \/ \E ok \in BOOLEAN : CreateCounterparty(w, ok)
    \/ StoreCounterparty(w)
    \/ ConfirmFail(w)
    \/ TellAuthorized(w)

InitiateNext(w) ==
    \/ \E s \in Sessions : InitiateSessionRead(w, s) \/ InitiatePaymentRead(w, s)
    \/ InitiateClaim(w)
    \/ \E created \in BOOLEAN : InitiateTransfer(w, created)
    \/ InitiateComplete(w)
    \/ InsertTransaction(w)
    \/ SettleInitiate(w)
    \/ TellCompleted(w)
    \/ InitiateFail(w)

WebhookNext(w) ==
    \/ \E s \in Sessions, st \in OrderStatus : ApplyWebhookStatus(w, s, st)
    \/ TellChange(w)
    \/ Settle(w)
    \/ Reverse(w)

ReconcileNext(w) ==
    \/ \E s \in Sessions : ReconcilePoll(w, s)
    \/ ReconcileResolve(w)

EnvironmentNext ==
    \/ SetKyc
    \/ \E s \in Sessions : Expire(s) \/ StrayOrder(s)
    \/ \E s \in Sessions, st \in OrderStatus : OrderMoves(s, st)

Next ==
    \/ \E w \in Workers :
           ConfirmNext(w) \/ InitiateNext(w) \/ WebhookNext(w) \/ ReconcileNext(w) \/ Stop(w)
    \/ EnvironmentNext

Spec == Init /\ [][Next]_vars

\* A handler that has started is driven to its end unless it stops.
HandlerStep(w) ==
    /\ pc[w] # "idle"
    /\ ConfirmNext(w) \/ InitiateNext(w) \/ WebhookNext(w) \/ ReconcileNext(w)

HandlersFair == \A w \in Workers : WF_vars(HandlerStep(w))

\* The provider repeats its reports until one is taken.  Strong fairness, because the
\* bound on Workers is the model's: the server always has room for one more request.
WebhooksFair == \A s \in Sessions :
                    SF_vars(\E w \in Workers, st \in OrderStatus : ApplyWebhookStatus(w, s, st))

\* The poller runs every minute.
PollerFair == \A s \in Sessions : SF_vars(\E w \in Workers : ReconcilePoll(w, s))

DeliveryFair == HandlersFair /\ WebhooksFair /\ PollerFair

-----------------------------------------------------------------------------
(* Properties *)

\* A session's transfer request goes to the provider at most once, whatever number of
\* initiate calls race or are retried (initiate.rs: only the winner of the claim sends).
OneTransferPerSession == \A s \in Sessions : submitted[s] <= 1

\* No transfer request without a verified merchant, a cleared customer and a stored
\* counterparty; and no session leaves pending ungated unless a stray order names it.
GateBeforeMoney ==
    \A s \in Sessions :
        /\ submitted[s] > 0 => s \in counterparty
        /\ submitted[s] > 0 \/ (s \notin strayed /\ status[s] # "pending") => s \in gated

\* Worker w is on its way to post the settlement (the reversal) of session s.
OwesSettlement(w, s) ==
    /\ on[w] = s
    /\ \/ pc[w] \in {"insert_transaction", "settle_initiate", "settle"}
       \/ pc[w] = "tell_change" /\ arg[w] = "completed"

OwesReversal(w, s) ==
    /\ on[w] = s
    /\ \/ pc[w] = "reverse"
       \/ pc[w] = "tell_change" /\ arg[w] \in {"returned", "reversed"}

\* Webhook, poller and initiate never meet at the ledger: at most one of them is on its
\* way to post an entry, and none is once the entry exists.  The unique indexes on the
\* journal and on transactions are never what prevents a double posting.
NoDoublePost ==
    \A s \in Sessions, w \in Workers :
        /\ OwesSettlement(w, s) =>
               /\ <<s, "settlement">> \notin journal
               /\ \A v \in Workers : OwesSettlement(v, s) => v = w
        /\ OwesReversal(w, s) =>
               /\ <<s, "reversal">> \notin journal
               /\ \A v \in Workers : OwesReversal(v, s) => v = w
        /\ on[w] = s /\ pc[w] = "insert_transaction" => s \notin transactions

\* A merchant is told of each status of a session at most once, replayed webhooks and
\* concurrent handlers included.
EventsOnce == \A e \in Sessions \X Status : outbox[e] <= 1

\* A session is completed, returned or reversed only if the provider holds an order for it.
CollectedHasOrder ==
    \A s \in Sessions :
        status[s] \in {"completed", "returned", "reversed"} => order[s] # {}

\* Where the money of a session is, in the terms of PaymentContract.
PhaseOf(s) ==
    CASE status[s] \in {"pending", "authorized", "expired"} -> "open"
      [] status[s] = "processing" -> "in_flight"
      [] status[s] = "completed" -> "collected"
      [] status[s] = "failed" -> "dead"
      [] OTHER -> IF s \in collected THEN "clawed_back" ELSE "bounced"

Contract == INSTANCE PaymentContract
                WITH phase <- [s \in Sessions |-> PhaseOf(s)], posted <- journal

\* The handlers implement the payment contract: statuses only move forward, each journal
\* entry is posted once and only after the session earned it.
ContractHolds == Contract!Spec

\* The ledger has the settlement of a completed session and the reversal of one that was
\* returned or reversed.
BooksUpToDate(s) ==
    /\ s \in collected => <<s, "settlement">> \in journal
    /\ status[s] \in {"returned", "reversed"} => <<s, "reversal">> \in journal

\* A ledger that lags behind the status of a session catches up with it, as long as no
\* handler stops half way.
BooksFollow == \A s \in Sessions : ~BooksUpToDate(s) ~> BooksUpToDate(s)

\* What the provider can decide about an order.
Verdicts == OrderStatus \ {"submitted"}

\* The verdicts that somebody acts upon: the webhook handler does not know cancelled, and
\* the poller, which does, asks only for sessions with a reference.
HeardVerdicts(s) == IF s \in columnRef THEN Verdicts ELSE Verdicts \ {"cancelled"}

\* A session left processing, by an unknown outcome or by an early webhook, does not stay
\* so once the provider has decided about its order: the webhooks bring every verdict but
\* a cancellation, and the poller that one too where the session has a reference.
VerdictReachesSession ==
    \A s \in Sessions :
        (status[s] = "processing" /\ order[s] \intersect HeardVerdicts(s) # {})
            ~> status[s] # "processing"

\* ledger_repo.rs calls a reversal the compensation of a prior settlement: it is posted
\* only for a session that was completed.
ReversalCompensates ==
    \A s \in Sessions : <<s, "reversal">> \in journal => s \in collected
=============================================================================
