# A verification project for Noor

TLA+ specifications of Noor's payment back end (`src/crates`), the TLC runs that
check them on small instances, and the theorems about them that TLAPS proves for
every size. The specifications are written from the Rust code and the SQL
migrations. `PROJECT.json` maps every definition to the lines it stands for.

Paths below are abbreviated: `api/` is `src/crates/paybank-api/src/`, `db/` is
`src/crates/paybank-db/src/`, `payments/` is `src/crates/paybank-payments/src/`,
`migrations/` is `src/migrations/`.

## 1. The system

Noor is an axum server on Postgres in front of a payment provider (Modern Treasury,
or Column). Several instances may run at once. Every request handler and every
background loop is a task that awaits between its database statements and its
provider calls, and there is almost no transaction that spans two statements. Two
handlers meet only in the rows they share, so what keeps them apart is one of

* a compare-and-swap, `UPDATE ... WHERE status IN (...)` with a look at the number of rows,
* a unique index (`migrations/006_hardening.sql`, the key of `idempotency_keys`),
* `FOR UPDATE SKIP LOCKED` with a lease (the outbox), or
* nothing: a read, an await, and a write that trusts the read.

| Component | State | Operations | Talks to | What is hard | What makes it correct |
|---|---|---|---|---|---|
| Payment session (`api/routes/confirm.rs`, `initiate.rs`, `sessions.rs`, `db/session_repo.rs`) | `payment_sessions.status`, `column_ref`, counterparty; `transactions` | create, confirm, two initiate routes | gate, provider, ledger, outbox | two routes that send the same transfer; ambiguous provider answers; a crash between two statements | one transfer; gate before money; statuses only move forward |
| Provider webhooks (`api/routes/webhooks.rs`) | none of its own | `apply_webhook_status` | session, ledger, outbox | repeated, late and reordered reports | one event and one ledger entry per status |
| Reconciliation poller (`api/reconcile.rs`) | none of its own | `tick`: reap keys, poll top-ups, resolve stuck sessions | all three | races with webhooks; sessions without a reference | a verdict that somebody acts upon reaches its session |
| Ledger (`db/ledger_repo.rs`) | `ledger_accounts`, `journal_entries`, `ledger_postings` | settlement, reversal, payout, payout reversal, deposit; each provisions the accounts, looks them up and posts | called by all handlers | posted twice, never, or for nothing; accounts created twice by calls that race, entries spread over the duplicates | each entry once, whole and earned; the balance is what was posted |
| Event stream of a session (`api/routes/sessions.rs` 186-229) | one loop per open page | read the row, send its status | session | a status that changes under the loop, loops that end on some final statuses only | who stays is told, and let go at the end |
| Provider clients (`payments/`) | none | transfers, payouts, debits, invoices, accounts | the provider | what a lost or unreadable reply is taken for | a failure is called final only if it is (payouts and debits do not keep to it) |
| Payouts (`api/routes/merchant_api.rs` 598-657, 968-1345) | `payouts` | create, withdraw, approve, reject, execute | ledger, provider | check-then-debit; approve against reject; a bounced payout approved again | executes once, under dual control; a rejection is final |
| Top-ups (`merchant_api.rs` 472-571, `reconcile.rs` 61-118) | `deposits` | `add_funds`, the poller | ledger, provider | several pollers see one settlement; a fault between the claim and the entry | credited once, and only when settled |
| Idempotency keys (`api/idempotency.rs`, `db/idempotency_repo.rs`) | `idempotency_keys` | begin, complete, reap | wraps handlers | a handler that dies with the key; a key reaped while somebody looks it up | work done once, answers agree |
| Webhook outbox (`api/webhook_worker.rs`, `db/webhook_repo.rs`) | `webhook_events`, `webhook_delivery_logs` | enqueue, claim, deliver, mark, retry | merchant endpoints | leases that run out under a slow worker; late marks | attempts told apart, final states are true, the queue drains |
| Invoices (`api/recurring.rs`, `merchant_api.rs` 1426-1738) | `invoices`, `recurring_invoices` | create, open, create and cancel a template, the recurring worker | provider | overlapping passes; a backlog; refreshes that overtake each other | a cycle is billed once, none is skipped |
| Merchant bank account (`merchant_api.rs` 1753-1853) | four columns of `merchants` | add (or replace), get with refresh | provider | a refresh of the account that was just replaced | the status shown is real and settles |
| Operators, merchant users, login throttle (`api/auth.rs`, `api/routes/admin.rs`) | `operators`, `merchant_users`, `login_attempts` | login, manage users | everything | two owners deactivating each other | not modelled |
| Banks, payees, customers, listings, reports | their tables | inserts and reads | provider | nothing concurrent | not modelled |
| PII encryption, secrets, router, notifications, audit log, e-mail, edge worker, front ends | none, or append only | | | best effort, or no state | not modelled |

## 2. The modules

| Module | Models | Theorems in |
|---|---|---|
| `PaymentContract` | what the payment core promises: the phases of a session's money and the entries each phase may have posted | |
| `ProviderClient` | what the two clients make of a provider's reply; extended by the three modules that move money | |
| `PaymentSession` | confirm, initiate, webhooks and poller racing on sessions; implements `PaymentContract` | `PaymentSessionProofs` |
| `SessionStream` | the event stream of the payment page, composed with `PaymentSession` | |
| `PayoutContract` | what payouts promise: who may start one, that a rejection ends it, the path its money takes | |
| `Payouts` | payouts under dual control; implements `PayoutContract` | `PayoutsProofs` |
| `Deposits` | wallet top-ups, `record_deposit` as one step | `DepositLedgerProofs` |
| `Ledger` | accounts, look-ups and entries of one merchant, statement by statement | |
| `DepositLedger` | `Deposits` and the postings of sessions over one `Ledger`; implements `Deposits` | `DepositLedgerProofs` |
| `WebhookOutbox` | delivery of the outbox to merchants | `WebhookOutboxProofs` |
| `KeyContract` | what an idempotency key promises: one body, one piece of work, answers from what was kept | |
| `IdempotencyKeys` | the key store around a handler; implements `KeyContract` | `IdempotencyKeysProofs` |
| `Invoices` | one-off and recurring invoices | `InvoicesProofs` |
| `BankAccount` | onboarding and status of the merchant's account | `BankAccountProofs` |
| `SumTheorems` | no code: facts about the community modules' sum over a finite set, for the proofs about balances | itself |
| `MCPaymentSession`, `MCPayouts`, `MCDepositLedger`, `MCInvoices` | symmetry, amounts and intervals for TLC | |

All modules are built alike. A set `Workers` bounds how many handlers and loop passes
are in flight; each worker has a step `pc`, the row it works on (`on`) and what it has
read and still carries (`arg`, `word`, `seen`). **One action is one database statement
or one provider call with the code up to the next await.** Between any two steps of a
handler all the others may run, which is what the async runtime and several instances
allow. A handler that ends early is `Finish`; a worker that is idle may start any
handler the code has. The branches of the code are the disjuncts of the action. A statement
whose error the code drops (`let _ =`, `if let Err`) may fail and the handler goes on; one
whose error goes up with `?` is covered by `Stop`, which ends a handler after any of
its steps, as a crash does. Variables marked "observation" record history for the
properties and guard nothing.

Data that no property tells apart is left out: amounts (except in `Payouts` and the ledger), names,
addresses, rails, timestamps, the merchant's id. Time that the code compares (the 300
seconds of a stuck session, the lease of 60 seconds, back-off, expiry) is
nondeterminism: the clock may pass the threshold at any moment.

### PaymentSession

`ConfirmRead`, `Gate`, `ConfirmClaim`, `CreateCounterparty`, `StoreCounterparty`,
`ConfirmFail`, `TellAuthorized` are `confirm_payment`. `InitiateSessionRead` and
`InitiatePaymentRead` are the heads of the two initiate routes; from `InitiateClaim`
on the routes run the same protocol and share the actions up to `TellCompleted` and
`InitiateFail`. `ApplyWebhookStatus`, `TellChange`, `Settle` and `Reverse` are the webhook
handler, with its compare-and-swap table in `WebhookFrom`. `ReconcilePoll` and
`ReconcileResolve` are the poller; the selection of the batch and the call to the provider
are one step, because nothing but the compare-and-swap uses what was selected and a
session never becomes processing again. `Transition` and `TransitionLost` are the two outcomes
of `try_transition`.

`Answers` says what the caller makes of a provider call, for either provider (see
`ProviderClient`). An order may exist although the call looks failed: a timeout, a 5xx and
a 429 are "unknown" and leave the session processing; a 2xx whose body does not parse is
reported as a definitive error and fails the session. The order at the provider is the set of statuses it has gone through, and
a webhook may report any of them, in any order and again and again. An order may also be
entered at the provider by hand with a session's id (`StrayOrder`), which is how a webhook
can reach a session that is still pending. KYC is set by code outside this repository
(`SetKyc`). Nothing in the code writes the status `expired`; `expires_at` is read.

### ProviderClient

`Replies` is what may come back, given whether the provider created the order. The verdict
operators are the error handling of `create_transfer` in both clients, and of `create_payout`
and `pull_funds`, where every failure is definitive: the first tell a lost answer from a
rejection, the other two do not.

### SessionStream

`Watch` opens a stream of a session and sends the status that was read on the way in, `Tick`
is one turn of the loop, `Close` the end by the server or the client (a failed read ends the
stream too). `EndsStream` is the loop's condition: the streams of failed and returned
sessions go on until the client leaves.

### Payouts

A created payout waits, or is executed at once for an owner. `ApproveRead` reads the
row, `Claim` is the compare-and-swap on the status, `CheckBalance` and `Debit` are separate,
as in the code, and `SendPayout` is the provider call. `Available` is the balance query, over
what sessions and top-ups have brought in (`Income`) and what payouts have taken out; `Held` sums the payouts
that wait, as the second query of `merchant_spendable` does. `PostSession` is the environment: settlements and
reversals of sessions post to the same account at any time, so the balance may fall between a payout's
check and its debit, or after it. The observation `late` adds up what was reversed since a check last passed, which tells
that from what the payouts do to each other. The onboarding of a payee between the two queries and the
insertion is left out; its errors are in `Stop`. Roles are
disjoint sets of users. The code forbids an owner to approve their own pending payout,
although `migrations/009_merchant_users.sql` says they may; the model follows the code.

`PayoutContract` knows neither handlers nor a balance. `Phase` reads its phase off the row's status, `Money` how
far the money has gone off the counts of debits, requests and refunds; any combination the contract
has no name for is `wrong`, and no step of the contract leads there.

### Deposits

`AddFunds`, `PullFunds`, `StoreReference`, `Poll` are the request, `Select` and `Check`
the poller; both go on to `Credit` (the compare-and-swap on `credited`) and `Record`, or mark
the deposit failed, the poller with a guard on `credited` and the request without. The error of
`record_deposit` is dropped by both callers (`RecordFails`). The observation `lost` holds the deposits whose claim was
followed by a fault: an error of the UPDATE that was carried out all the same, of the posting, or a crash in between.

### Ledger and DepositLedger

A `record_` call goes through `EnsureAccounts` (one `INSERT ... WHERE NOT EXISTS` per account: two
that overlap do not see each other's row, so the look and the insertion are two steps),
and `Commit`, the transaction that inserts the entry with its lines after `verify_balance`. The accounts it posts to are
any of the rows of their names (the query has no order); the look-ups are part of this step, since rows of
`ledger_accounts` never change and one found before is one that may be found now. `Abandon` is a failure or a crash between
any two of them. `accounts` counts the rows of each name; `Cash` and `Settlement` are modelled, the
other two accounts are provisioned likewise and never posted to. `Available` is the balance query, which sums
over every account of type liability.

`DepositLedger` puts these steps in place of `Record` and `RecordFails`, and lets sessions post through the same ledger from
its first account on. The settlement and the reversal of a session are two calls (`Calls`), made by different
handlers or not at all, in any order and side by side: a webhook that won the return may post while the handler that won
the completion is still on its way, and a session that never settled may be reversed (`session_bounced_reversal`). A call that
fails is not made again (`SessionCallFails`), as the status has moved before it. Payouts and their reversals have
entries of the same shape, but need a balance, hence
accounts that exist, so they cannot take part in the race; `Payouts` takes them as one step.

### WebhookOutbox

`ClaimDue` claims any non-empty set of at most `Batch` due events, since rows locked by
another worker are skipped, and counts the attempt. A row that is `sending` is claimable
again when its lease has run out (`BecomesDue`), whether its worker lives or not. `MarkDelivered` and `MarkFailed`
are the code's unguarded updates. `RetryNow` is the operator's retry.

### IdempotencyKeys

`Begin` is the insert that takes the key or conflicts, `Lookup` the select that follows a
conflict, `Work` and `Complete` the owner's. `Reap` takes keys that are a day old: it
assumes that no request which took a key is still running then, and nothing else.

### Invoices

A cycle is named by its template and the day it was due. `Claim` is the one UPDATE that
advances `next_run` of all due templates; the cycles it claims wait in `batch`.
`Issue`, `Insert` and `Link` are shared by the worker and `create_invoice`. A refresh is
`OpenInvoice`, `AskStatus`, `StoreStatus`. The customer row and the notification that
`create_invoice` writes on the way are left out. The provider's final statuses are merged into `paid`.

### BankAccount

One merchant. `AddBankAccount` to `StoreAccount` onboard an account and its prenote and
replace the stored one; `GetBankAccount`, `AskStatus`, `StoreStatus` refresh the status,
which is written for the merchant and not for the account that was asked about.

## 3. What is checked

Deadlock is checked only where the model has no bound that stops it; the others end when
their ids, days or faults are used up, and say `CHECK_DEADLOCK FALSE`.

### Runs that pass

**`session_safety`** (one session, three workers, crashes, dropped side effects, stray
order; 336,640 states up to symmetry of the workers).
`OneTransferPerSession`: one transfer request per session. `GateBeforeMoney`: none without
KYC, a cleared customer and a counterparty. `NoDoublePost`: no two of initiate, webhook
and poller are ever both on their way to post the same entry, so the unique index is
a second line of defence and never the first. `EventsOnce`: a merchant hears of each status at most
once. `CollectedHasOrder`: no session is completed, returned or reversed without an order
at the provider. `ContractHolds`: every step is a step of `PaymentContract` or a stutter,
under the mapping `PhaseOf` and the journal. One session suffices because sessions share
nothing but the merchant's KYC flag and the workers; three workers are initiate,
webhook and poller (or two of a kind and a third) at the same time.

**`session_delivery`** (one session, two workers, one page with a stream, a stray order, no faults, `StreamSpec`; 181,188
states). `BooksFollow`: a ledger that lags behind the status catches up, with the settlement after every completion
and the reversal after every return. `VerdictReachesSession`: a processing session whose order has a verdict that somebody
acts upon does not stay processing. What nobody acts upon is a cancellation of an order whose session has no reference: the webhook
handler does not know the status (`api/routes/webhooks.rs` 34-43), and the poller, which takes it for a failure
(`api/reconcile.rs` 43), skips the session. Such a session stays processing for ever; the property leaves it out
(`HeardVerdicts`) and section 5 names it. The stray order is how a session gets a reference while it is processing, so that
the poller's part of the property is exercised. `StreamKeepsUp`: a page that stays on its stream is told of each change that
lasts, failures and returns included, and is let go once the session is completed.

**`payout_safety`** (two payouts of 2 and 3 and a session of 4 that settles and is reversed at any time, an owner, an admin
and a member, two workers, faults; 181,315 states). `ExecutesOnce`: at most one debit, one request and one
refund over the payout's whole life, bounces included. `DualControl`. `OverdraftBounded`: executions that
passed the check together overdraw the balance by at most one payout for each handler but one, besides what sessions have
reversed since the last check that passed; refunds, bounces, crashes and earlier reversals never
add to that. Without the check the two payouts, which start from an empty balance, go 5 below zero; the bound is 3. `ContractHolds`:
the refinement, which includes that a rejected payout was never debited and that nothing under way revives it.
The session pays for each payout alone and not for both, so that payouts do bounce.

**`deposits`** (`DepositLedger`: one top-up worked on by two workers and a session whose settlement and reversal are posted
side by side, on a ledger without accounts, two faults in the top-up's handlers and one in each call of the session; 509,220
states). `CreditedOnce`, `CreditEarned`, `ClaimedIsPosted` (a claimed credit is posted or about to be, unless a fault fell
between its claim and its entry, faults elsewhere included), `SettledIsPosted` (liveness: a settled top-up whose reference was stored reaches
the ledger, with the same exception), all of them over the ledger's single
statements. `BalanceIsHistory`: the balance is the sum of what was posted,
whichever duplicates the race creates, in whatever order a session's entries come and wherever a call is cut off.

**`outbox_delivery`** (one event, two workers, three attempts, one fault, one retry; 147,876 states).
`AttemptsApart`: overlapping workers never carry the same attempt and the log has no
duplicate. `DeliveredWasAccepted`, `ExhaustedWasTried`: final states are true whoever
marked last. `QueueDrains`: every event ends, in spite of marks that reopen it. Two events
share only the order in which a worker takes them.

**`idempotency`** (two keys, two bodies, three requests; 16,005 states). `ContractHolds`, `AnswersAgree`,
`KeyReleased`. Three requests are needed for the owner, the one that conflicted with it and the
one that takes the reaped key in between.

**`invoices`** (a template due daily that may start on any day, a one-off invoice, two
workers, two days, one fault; 53,944 states). `CycleBilledOnce`, `NoCycleSkipped` (while nothing fails),
`BooksAreReal`, `BacklogClears`, `StatusCatchesUp`. Two passes overlap, and two cycles of
one template are under way at once when it starts on the first day.

**`bank_account`** (two accounts, three workers, one fault; 108,538 states). `RowIsReal`, `OutcomeIsReal`,
`StatusSettles`: a stale status of a replaced account may be shown, but does not stay.

Each property has a mutant, a definition of the module with a plausible bug in it, which
breaks the property under the same configuration. The definitions are marked `mutant` and no
specification uses them.

### Runs that find a violation

Each contradicts a sentence of the repository; `PROJECT.json` quotes it.

* **`session_bounced_reversal`**: a return reported while the session is processing posts a reversal
  of a settlement that was never posted, and debits the merchant for it.
* **`deposit_lost`**: a fault between the claim on `credited` and the journal entry leaves a settled top-up
  credited and never posted, against the "exactly once" of `settle_deposit`.
* **`payout_overdraft`**: two executions pass the balance check before either has debited.
* **`payout_refund`**: `create_payout` takes a timeout for a definitive failure, and a payout whose
  order exists is refunded.

### Bounds

| Bound | Where | Why it is enough |
|---|---|---|
| `Workers` | all | the largest number of handlers that meet on one row in a scenario of the hazards |
| `Faults` | `PaymentSession`, `Payouts` | on or off; safety runs have no limit on the number of faults |
| `MaxFaults` = 1 or 2 | the other modules | one fault at each place; a second one would hit a row that is already left behind. Two in `deposits`, so that both workers may fail |
| `Clients` = 1 | `SessionStream` | streams share nothing |
| `Deposits`, `Sessions` = 1 each | `DepositLedger` | two to four calls race for the first accounts; what one top-up's handlers do to another's is nothing but the ledger |
| `StrayOrders` | `PaymentSession` | a stray order for the session in the passing runs; none in `session_bounced_reversal`, which needs no such order |
| `MaxAttempts` = 3 | `WebhookOutbox` | a first, a middle and a last attempt; the code makes six, with the same three roles |
| `MaxRetries` = 1 | `WebhookOutbox` | an operator who retries for ever keeps an event alive for ever |
| `Batch` = 1 | `WebhookOutbox` | one event in TLC; the theorems cover every batch |
| `LastDay` = 1 | `Invoices` | a missed day and the next one; a third day was tried with the same result |
| `Followed` | `Invoices` | which invoices are opened and paid; a cycle's invoice behaves like a one-off |

### Fairness, and why the code justifies it

* A handler in flight is driven to its end: the runtime polls it and each client call has a
  timeout (`WF` on its next step). It may still take `Stop`, within the bound on faults.
* The poller ticks every minute (`api/reconcile.rs`), the outbox worker every few seconds
  (`api/webhook_worker.rs`), the recurring worker every hour (`api/recurring.rs`), or the cron
  endpoint runs all three; a pass takes every due row in the end. `SF`, because the bound on
  `Workers` is the model's and not the server's: a pass must not starve because the
  workers of the model happen to be busy whenever it is due.
* The provider repeats its reports on an order until one is taken (`WebhooksFair`, `SF`, same reason); which of them, it chooses.
* The loop of an open stream goes on (`WF` on `Tick`): it sleeps two seconds and reads. That it is driven
  to the end says nothing about the client, who may leave at any time.
* A lease runs out (`WF` on `BecomesDue`); a key gets a day old (`SF` on `Reap`).
* `StatusCatchesUp` and `StatusSettles` assume that the merchant keeps opening the invoice or the
  account page: no background job refreshes them.

Nothing is assumed about customers, operators, the provider's verdicts, or the
merchant's endpoint.

## 4. What is proved

For any sets of rows, workers and users, any amounts and any bounds, under the
named assumptions on the constants in each module:

| Theorem | Statement |
|---|---|
| `PaymentSessionProofs!TypeCorrect` | `Spec => [](TypeOK /\ BusyOnSession /\ ArgFitsStep)`, the last two as part of the invariant |
| `PaymentSessionProofs!TransfersOnce`, `NoDoublePosting`, `NoEventTwice`, `CollectedHasAnOrder`, `MoneyAfterGate` | `OneTransferPerSession`, `NoDoublePost`, `EventsOnce`, `CollectedHasOrder`, `GateBeforeMoney` always hold |
| `PaymentSessionProofs!ImplementsContract` | `Spec => ContractHolds`: the handlers implement `PaymentContract` |
| `PaymentSessionProofs!PagesGoForward` | `StreamSpec => PageNeverGoesBack`: no page sees its session go back |
| `PayoutsProofs!TypeCorrect`, `PaidOutOnce`, `DualControlHolds`, `RejectionCostsNothing` | `TypeOK`, `ExecutesOnce`, `DualControl`, `RejectedUntouched` always hold |
| `PayoutsProofs!RejectionIsFinal` | `Spec => RejectionFinal` |
| `PayoutsProofs!ImplementsContract` | `Spec => ContractHolds`: the handlers implement `PayoutContract` |
| `PayoutsProofs!OverdraftIsBounded` | `Spec => []OverdraftBounded`, for a finite set of handlers |
| `PayoutsProofs!SerialNeverOverdraws` | `Spec => []NeverOverdrawn`, for a single handler: what is missing was reversed by sessions since its last check passed |
| `DepositLedgerProofs!TypeCorrect`, `CreditsOnce`, `CreditsAreEarned`, `ClaimsArePosted` | `TypeOK`, `CreditedOnce`, `CreditEarned`, `ClaimedIsPosted` |
| `DepositLedgerProofs!ImplementsDeposits` | `DepositLedgerSpec => Init /\ [][Next]_vars`, with `Init` and `Next` of `Deposits` |
| `DepositLedgerProofs!LedgerTypeCorrect`, `LedgerCreditsOnce`, `LedgerCreditsAreEarned`, `LedgerClaimsArePosted` | the invariants of `Deposits` over the composition |
| `DepositLedgerProofs!BalanceTellsHistory` | `BalanceIsHistory`: the balance query returns the sum of the top-ups and settlements posted less the reversals |
| `DepositLedgerProofs!BalanceStaysEarned` | `BalanceIsEarned`: the balance counts top-ups for no more than what has settled at the provider |
| `DepositLedgerProofs!BooksAreWhole` | every entry has exactly its two lines, on its sides, booked to accounts that exist |
| `WebhookOutboxProofs!TypeCorrect`, `AttemptsKeepApart`, `DeliveredIsTrue`, `ExhaustedIsTrue` | `TypeOK`, `AttemptsApart`, `DeliveredWasAccepted`, `ExhaustedWasTried` |
| `IdempotencyKeysProofs!TypeCorrect`, `WorksOnce`, `AnswersAlwaysAgree` | `TypeOK`, `WorkDoneOnce`, `AnswersAgree` |
| `IdempotencyKeysProofs!ImplementsContract` | `Spec => ContractHolds`: the requests implement `KeyContract` |
| `InvoicesProofs!TypeCorrect`, `BilledOnce`, `BooksStayReal`, `NoneSkipped` | `TypeOK`, `CycleBilledOnce`, `BooksAreReal`, `NoCycleSkipped` |
| `BankAccountProofs!TypeCorrect`, `StoredIsReal`, `ShownIsReal` | `TypeOK`, `RowIsReal`, `OutcomeIsReal` |

The arguments, each by an inductive invariant with one step per action:

* **Types.** `TypeOK` alone is not inductive: a busy worker must be on a row (else it would update
  a function outside its domain) and must carry a verdict that its next step can write.
* **One transfer** (`TransferInv`). A session that is pending or authorized has sent nothing; a worker
  at `send` has a session that is processing or beyond, that has sent nothing, and that no other
  worker is about to send. The claim takes the session out of `authorized`, and no
  compare-and-swap leads back, so the right to send is handed out once.
* **Duties** (`DutyInv`). A change of status brings duties: a ledger entry, an event, a row of transactions.
  `Owes(w, s, d)` says that a worker stands at, or before, the step that does it, `Done` that it was done,
  `Passed` that the session has been through the status that brings it. The invariant: a duty is owed by
  one worker at most, never once it is done, and neither before the session has passed the point. It is kept because every
  step is one of two: a worker `Wins` a compare-and-swap and owes what the new status brings, which
  nobody has owed before since no status is reached twice; or it `Discharges` a duty or drops it.
  `NoDoublePost` and `EventsOnce` are parts of it.
* **The contract.** A win is a move of `PaymentContract` or a stutter, by the two statuses; a discharge is a
  `Post` or a stutter: the entry is new to the journal, since it was owed, and its phase allows it, since the session has passed.
* **Streams** (`ToldInv`). Only a win changes a status, and each leads further from pending (`Rank`). What an open stream has told
  is the status of its session or one behind it, so the next turn of the loop can only go forward.
* **Orders** (`OrderInv`). A worker that is about to complete a session, and a session that was
  completed, has an order at the provider, and orders never disappear.
* **The gate** (`GateInv`). From the gate to the counterparty the worker's session is in `gated`; a session
  with a counterparty has passed the gate; whoever asks for money has read the counterparty. KYC
  may be withdrawn after the gate: the property is about its verdict, as the code is.
* **Payouts** (`Inv`). `HoldInv`: whoever creates a payout is alone with it, whoever executes it holds the
  status `processing` alone. `MoneyInv`: for each status and each step of the executor, how
  much has been debited, sent and refunded. `EntitledInv`: whoever is about to claim, and whoever has
  executed, was an owner who made the payout or somebody else with the right to approve. The
  balance is not needed: a payout may pass the check or not.
* **The payout contract** (`ContractInv`). Whoever is about to claim either made the payout as an owner or may approve it
  without having made it; whoever is past the request has debited and asked once. With `MoneyInv` each action is one
  step of `PayoutContract` or a stutter. The bounce, the only way back, is allowed since `MoneyInv` says that nothing was debited
  by then; storing the reference writes the status that the row already has.
* **The overdraft** (`FundsInv(M)`). `PendingSum`, the amounts of the handlers that have passed the check and not yet
  debited, is at most the balance plus `late` plus `M` for each handler but one, where `M` is the largest amount. The check adds
  an amount that the balance covers at that moment, without `late`, so that earlier reversals need not be remembered; the others pending are at
  most `M` each. A debit takes the same amount off both sides; a reversal moves its amount from the balance to `late`; a settlement and a
  refund, which `MoneyInv` says follows a debit, only add to the balance. With a single handler there is no slack, which is
  `SerialNeverOverdraws`: what payouts do to each other, as in `payout_overdraft`, comes from the concurrency alone, and the rest
  from reversals that no check has seen.
* **Sums.** The sum of the community modules is a fold, defined by recursion over the subsets. That its
  recursive equation has a solution is shown once (`TableExists`), by the argument that there is no smallest cardinality without a table, and
  that the choice of the element that is taken off first does not matter (`SumRemove`) by the one that there is no
  smallest counterexample; `FS_WFInduction` and its like, which take an operator, are not needed. All else follows from
  `SumRemove`.
* **Ledger** (`LinesHaveAccounts`, `EntriesAreWhole`). A call commits only where both accounts exist, and
  accounts are never deleted; a `Commit` adds the two lines of an entry that had none, because a worker posts
  what it alone has claimed (from `Deposits`, by the refinement) and each call of a session is made once.
* **The balance** (`BalanceInv`). The books are finite, and the balance is the sum over the posted top-ups and settlements
  less the reversals. A `Commit` adds one liability line, whatever account it is booked to, hence its amount to the balance, and the
  same amount to one of the three sums, as nothing was recorded for that entry before; the two calls of a session touch different
  sums, which is why their order does not matter. That the query sums over every liability account,
  duplicates included, is why the race for the first accounts does no harm. With `CreditEarned` and the monotony of sums,
  `BalanceIsEarned` follows.
* **Top-ups** (`CreditInv`). The claim of `credited` is a compare-and-swap that is never undone, so there
  is one worker to post; a worker on its way to claim has seen its order settled. Whoever leaves the post without an entry
  has met a fault, and `lost` says so.
* **Outbox** (`NumbersInv`, `MarksInv`). The attempt number is incremented by each claim and never reset, so
  numbers a worker carries are at most the row's and no two workers carry the same; a worker at `mark`
  carries an answer the endpoint gave.
* **Keys** (`OwnerInv`, `RowInv`, `AnswerInv`). A key in progress has one owner; work is done by the owner for
  the body that took the key; a stored answer is the one of the work. That the reaper waits for
  the owner is used here and nowhere else. The contract follows action by action: `Begin` is `Take`, a successful `Work` is `Make`,
  `Complete` is `Keep`, the replay in `Lookup` is `Tell`, `Reap` is `Forget`, and all else is a stutter.

* **Invoices.** `IssueInv`: a bill under way is claimed by one worker and not issued yet, and a cycle that
  is claimed or issued lies before its template's next run, which only grows. `BookInv`: statuses at the
  provider only move up in `Rank`, so what a worker carries and what a row holds has been seen.
  `SkipInv`: the next run is a whole number of intervals after the first, so the next cycle is the next day that
  counts; two lemmas about the modulus say that there is none in between.
* **Bank account** (`BankInv`). `Past(now, st)` says which statuses an account has had, from the one it has now;
  words that workers carry and the status stored are past ones of an account that exists, and an account in the
  making belongs to one worker.

Assumptions. Each module names those on its constants; what the code justifies is all they say. `PayoutsAssumption`
takes the payouts to be finite, since their ids are uuids. The handlers of `Payouts` need to be finite for the bound on the overdraft only,
which is a hypothesis of that theorem.

Left to TLC, because the prover cannot do it: liveness under fairness (`BooksFollow`, `VerdictReachesSession`, `StreamKeepsUp`,
`SettledIsPosted`, `QueueDrains`, `KeyReleased`, `BacklogClears`, `StatusCatchesUp`, `StatusSettles`). Every safety property of a passing run is
a theorem. `RejectedUntouched`, `RejectionFinal` and `WorkDoneOnce` have theorems and no run of their own: TLC checks them as parts of
the contracts that imply them. `PageNeverGoesBack` and `BalanceIsEarned` are stated beside their proofs.

## 5. What is not modelled, and why

* The batch of fifty of the two polling queries. Rows that no tick resolves (stuck sessions without a reference, top-ups
  whose debit was reversed after it had been sent) are selected again at every tick; with fifty of them the others may
  starve. Liveness is stated for a pass that can take the row.
* Banks, payees and customers (`merchant_api.rs`, `api/routes/banks.rs`): one insert or delete around one
  provider call. A payee whose row could not be written leaves an account at the provider that nobody uses.
* Operators, merchant users and the login throttle (`api/auth.rs`, `api/routes/admin.rs`, `db/attempt_repo.rs`): single statements
  behind role checks, apart from the right to approve (`Payouts`) and the webhook retry (`WebhookOutbox`).
  `update_operator` keeps an owner from deactivating the own account; two owners may deactivate each other.
* API keys, listings, reports and the choice of a rail: reads, or one update that meets no other.
* Cryptography, secrets, signatures (a webhook is taken as genuine), request building, formatting, e-mail, notifications, the
  audit log, the router, the edge worker and the front ends: no state that another step depends on.

Behaviour that was noticed and has no property, because the code gives no guarantee to state:

* After a crash between the status and the ledger nobody posts the settlement; `BooksFollow` is therefore checked
  without faults. The same holds for a top-up after its claim (`deposit_lost`), and there an error is enough.
* A session without a reference whose order is cancelled stays processing for ever, see `session_delivery`. The head of
  `api/reconcile.rs` and `docs/SCORECARD.md` 105 say that sessions without a reference are left to a manual
  reconciliation; that the webhooks resolve them unless the order is cancelled is what `VerdictReachesSession` shows.
* A transfer request whose 2xx reply cannot be read fails its session although the order exists and may settle.
* Both initiate routes complete the session and post the settlement when the provider has
  accepted the order, before it settles; a later `failed` report is dropped.
* A payout that the provider returns is never credited back: no webhook or poller looks at payouts. A payout whose handler
  stops after the claim stays processing, debited or not.
* A reversed session may leave the balance below zero, before or after a payout has used it; no code prevents it.
* `add_funds` marks a deposit failed without looking at `credited`; a deposit whose reference was not
  stored is never polled.
* A recurring invoice whose call fails is lost for its cycle; an invoice whose row could not be inserted exists at
  the provider only; no webhook marks an invoice paid.

## 6. Plan

The modules of section 2 cover the components that have a protocol. What is left, most important first:

1. `Operators`: owners who deactivate each other, and the login throttle, whose count is read before the
   failure is recorded.
2. The two batches as queues by age, with the starvation of section 5.
3. `Payouts` over `Ledger`: with the lines in place of the sum, the overdraft run would show the accounts it is about.
4. Session creation under an idempotency key: `IdempotencyKeys` takes the work as one step.

## 7. Running it

    tlc -config session_safety.cfg MCPaymentSession.tla
    tlapm PaymentSessionProofs.tla

`PROJECT.json` lists the module of each configuration. The longest run takes two to three minutes,
and so does the longest proof module.
