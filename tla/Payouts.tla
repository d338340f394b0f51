------------------------------- MODULE Payouts -------------------------------
(***************************************************************************)
(* Payouts of one merchant under dual control: create and withdraw,        *)
(* approve, reject, and the execution they share, which claims the payout, *)
(* checks the ledger balance, debits it and calls the provider.  A step is *)
(* one database statement or one provider call; handlers interleave        *)
(* between any two steps and may stop for good after any of them.          *)
(***************************************************************************)
EXTENDS Integers, FiniteSets, Functions, ProviderClient

CONSTANTS
    Payouts,        \* ids of payouts
    Owners, Admins, Members,  \* the merchant's users, by role
    Workers,        \* the handlers that can be in flight at the same time
    NoUser, NoPayout,
    Sessions,       \* the merchant's sessions and top-ups, the source of its balance
    Amount,         \* amount_cents of each payout and session
    Faults          \* may handlers stop half way and ignored statements fail?

Users == Owners \union Admins \union Members

\* Ids are uuids, of which there are finitely many.
ASSUME PayoutsAssumption == IsFiniteSet(Payouts)
ASSUME SessionsAssumption == IsFiniteSet(Sessions)
ASSUME AmountAssumption == Amount \in [Payouts \union Sessions -> Nat \ {0}]
ASSUME RolesAssumption == /\ Owners \intersect (Admins \union Members) = {}
                          /\ Admins \intersect Members = {}
                          /\ NoUser \notin Users
ASSUME NoPayoutAssumption == NoPayout \notin Payouts
ASSUME FaultsAssumption == Faults \in BOOLEAN

VARIABLES
    status,         \* payouts.status, "none" before the row is inserted
    initiatedBy,    \* payouts.initiated_by
    approvedBy,     \* payouts.approved_by
    reference,      \* payouts with mt_payment_order_id set
    posted,         \* how many journal entries of each type a payout has
    sessionPosted,  \* the journal entries of sessions and top-ups
    late,           \* observation: reversed by sessions since a balance check last passed
    order,          \* the provider's payment order for the payout
    sent,           \* observation: payout requests sent to the provider
    pc, on, by,     \* step, payout and acting user of each worker
    seen            \* the balance a worker has read

rowVars == <<status, initiatedBy, approvedBy, reference>>
sessionVars == <<sessionPosted, late>>
journalVars == <<posted, sessionVars>>
workerVars == <<pc, on, by, seen>>
vars == <<rowVars, journalVars, order, sent, workerVars>>

\* What the handlers write; approved, completed and returned stand in the schema only.
Status == {"none", "pending_approval", "processing", "failed", "rejected"}

Entries == {"payout", "payout_reversal"}

SessionEntries == {"settlement", "reversal"}

Steps == {"idle", "read_held", "insert", "claim", "check", "bounce",
          "debit", "send", "store_reference", "refund", "mark_failed"}

TypeOK ==
    /\ status \in [Payouts -> Status]
    /\ initiatedBy \in [Payouts -> Users \union {NoUser}]
    /\ approvedBy \in [Payouts -> Users \union {NoUser}]
    /\ reference \in SUBSET Payouts
    /\ posted \in [Payouts \X Entries -> Nat]
    /\ sessionPosted \subseteq Sessions \X SessionEntries
    /\ late \in Nat
    /\ order \in [Payouts -> {"none", "accepted", "returned"}]
    /\ sent \in [Payouts -> Nat]
    /\ pc \in [Workers -> Steps]
    /\ on \in [Workers -> Payouts \union {NoPayout}]
    /\ by \in [Workers -> Users \union {NoUser}]
    /\ seen \in [Workers -> Int]

Init ==
    /\ status = [p \in Payouts |-> "none"]
    /\ initiatedBy = [p \in Payouts |-> NoUser]
    /\ approvedBy = [p \in Payouts |-> NoUser]
    /\ reference = {}
    /\ posted = [e \in Payouts \X Entries |-> 0]
    /\ sessionPosted = {}
    /\ late = 0
    /\ order = [p \in Payouts |-> "none"]
    /\ sent = [p \in Payouts |-> 0]
    /\ pc = [w \in Workers |-> "idle"]
    /\ on = [w \in Workers |-> NoPayout]
    /\ by = [w \in Workers |-> NoUser]
    /\ seen = [w \in Workers |-> 0]

-----------------------------------------------------------------------------
(* Balances and the shared ways to move a worker and to change a row *)

\* What sessions have brought in: a reversal may come without a settlement, or before it.
Income ==
    SumFunction([s \in Sessions |->
        (IF <<s, "settlement">> \in sessionPosted THEN Amount[s] ELSE 0)
        - (IF <<s, "reversal">> \in sessionPosted THEN Amount[s] ELSE 0)])

\* merchant_available_cents: the net credit on the Settlement account.
Available ==
    Income + SumFunction(
        [p \in Payouts |->
            Amount[p] * (posted[<<p, "payout_reversal">>] - posted[<<p, "payout">>])])

\* Funds of payouts still awaiting approval.
Held == SumFunction([p \in Payouts |->
                        IF status[p] = "pending_approval" THEN Amount[p] ELSE 0])

Start(w, p, u, step) ==
    /\ pc' = [pc EXCEPT ![w] = step]
    /\ on' = [on EXCEPT ![w] = p]
    /\ by' = [by EXCEPT ![w] = u]

Goto(w, step) ==
    /\ pc' = [pc EXCEPT ![w] = step]
    /\ UNCHANGED <<on, by, seen>>

Finish(w) ==
    /\ Start(w, NoPayout, NoUser, "idle")
    /\ seen' = [seen EXCEPT ![w] = 0]

SetStatus(p, new) ==
    /\ status' = [status EXCEPT ![p] = new]
    /\ UNCHANGED <<initiatedBy, approvedBy, reference>>

Post(p, entry) == posted' = [posted EXCEPT ![<<p, entry>>] = @ + 1]

\* can_approve
CanApprove(u) == u \in Owners \union Admins

-----------------------------------------------------------------------------
(* create_payout and withdraw *)

\* merchant_spendable, first query: the ledger balance.  The id is fresh.
CreateReadBalance(w, p, u) ==
    /\ pc[w] = "idle"
    /\ status[p] = "none"
    /\ \A v \in Workers : on[v] # p
    /\ Start(w, p, u, "read_held")
    /\ seen' = [seen EXCEPT ![w] = Available]
    /\ UNCHANGED <<rowVars, journalVars, order, sent>>

\* Second query: the holds.  More than the spendable amount is refused.
CreateReadHeld(w) ==
    /\ pc[w] = "read_held"
    /\ IF Amount[on[w]] > seen[w] - Held THEN Finish(w) ELSE Goto(w, "insert")
    /\ UNCHANGED <<rowVars, journalVars, order, sent>>

\* The payee is onboarded at the provider in between (see Stop for its errors).  An
\* owner's payout is executed at once.
CreateInsert(w) ==
    /\ pc[w] = "insert"
    /\ status' = [status EXCEPT ![on[w]] = "pending_approval"]
    /\ initiatedBy' = [initiatedBy EXCEPT ![on[w]] = by[w]]
    /\ IF by[w] \in Owners THEN Goto(w, "claim") ELSE Finish(w)
    /\ UNCHANGED <<approvedBy, reference, journalVars, order, sent>>

-----------------------------------------------------------------------------
(* approve_payout and reject_payout *)

ApproveRightsSelf(p, u) == CanApprove(u)   \* mutant: maker and checker may be one

\* Maker and checker differ, owners included.
ApproveRights(p, u) == CanApprove(u) /\ initiatedBy[p] # u

ApproveRead(w, p, u) ==
    /\ pc[w] = "idle"
    /\ status[p] = "pending_approval"
    /\ ApproveRights(p, u)
    /\ Start(w, p, u, "claim")
    /\ UNCHANGED <<rowVars, journalVars, order, sent, seen>>

\* Mutant: the UPDATE does not look at the status.
RejectUnguarded(p, u) ==
    /\ CanApprove(u)
    /\ status[p] \in {"pending_approval", "processing"}
    /\ status' = [status EXCEPT ![p] = "rejected"]
    /\ approvedBy' = [approvedBy EXCEPT ![p] = u]
    /\ UNCHANGED <<initiatedBy, reference, journalVars, order, sent, workerVars>>

\* One guarded UPDATE.
Reject(p, u) ==
    /\ CanApprove(u)
    /\ status[p] = "pending_approval"
    /\ status' = [status EXCEPT ![p] = "rejected"]
    /\ approvedBy' = [approvedBy EXCEPT ![p] = u]
    /\ UNCHANGED <<initiatedBy, reference, journalVars, order, sent, workerVars>>

-----------------------------------------------------------------------------
(* execute_payout *)

\* Mutant: the claim trusts the status that approve_payout read.
ClaimFromRead == {"pending_approval", "approved", "rejected"}

ClaimFrom == {"pending_approval", "approved"}

Claim(w) ==
    /\ pc[w] = "claim"
    /\ IF status[on[w]] \in ClaimFrom
       THEN /\ status' = [status EXCEPT ![on[w]] = "processing"]
            /\ approvedBy' = [approvedBy EXCEPT ![on[w]] = by[w]]
            /\ UNCHANGED <<initiatedBy, reference>>
            /\ Goto(w, "check")
       ELSE Finish(w) /\ UNCHANGED rowVars
    /\ UNCHANGED <<journalVars, order, sent>>

\* Mutant: the balance seen when the payout was created is good enough.
CheckDropped(w) ==
    /\ pc[w] = "check"
    /\ Goto(w, "debit")
    /\ late' = 0
    /\ UNCHANGED <<rowVars, posted, sessionPosted, order, sent>>

\* The balance may have moved since the payout was created.
CheckBalance(w) ==
    /\ pc[w] = "check"
    /\ \/ Amount[on[w]] > Available  /\ Goto(w, "bounce") /\ UNCHANGED late
       \/ Amount[on[w]] <= Available /\ Goto(w, "debit")  /\ late' = 0
    /\ UNCHANGED <<rowVars, posted, sessionPosted, order, sent>>

\* Back to awaiting approval, whatever the row says; the statement's error is ignored.
Bounce(w) ==
    /\ pc[w] = "bounce"
    /\ \/ SetStatus(on[w], "pending_approval")
       \/ Faults /\ UNCHANGED rowVars
    /\ Finish(w)
    /\ UNCHANGED <<journalVars, order, sent>>

\* record_payout; its failure ends the handler (see Stop).
Debit(w) ==
    /\ pc[w] = "debit"
    /\ Post(on[w], "payout")
    /\ Goto(w, "send")
    /\ UNCHANGED <<rowVars, sessionVars, order, sent>>

SendPayout(w, created) ==
    /\ pc[w] = "send"
    /\ sent' = [sent EXCEPT ![on[w]] = @ + 1]
    /\ order' = [order EXCEPT ![on[w]] = IF created THEN "accepted" ELSE @]
    /\ \E reply \in Replies(created) :
           Goto(w, IF PayoutVerdict(reply) = "accepted" THEN "store_reference" ELSE "refund")
    /\ UNCHANGED <<rowVars, journalVars>>

StoreReference(w) ==
    /\ pc[w] = "store_reference"
    /\ \/ /\ status' = [status EXCEPT ![on[w]] = "processing"]
          /\ reference' = reference \union {on[w]}
          /\ UNCHANGED <<initiatedBy, approvedBy>>
       \/ Faults /\ UNCHANGED rowVars
    /\ Finish(w)
    /\ UNCHANGED <<journalVars, order, sent>>

\* record_payout_reversal; its error is ignored.
Refund(w) ==
    /\ pc[w] = "refund"
    /\ \/ Post(on[w], "payout_reversal")
       \/ Faults /\ UNCHANGED posted
    /\ Goto(w, "mark_failed")
    /\ UNCHANGED <<rowVars, sessionVars, order, sent>>

\* Mutant: the row takes a status that only the schema knows.
MarkFailedReturned(w) ==
    /\ pc[w] = "mark_failed"
    /\ SetStatus(on[w], "returned")
    /\ Finish(w)
    /\ UNCHANGED <<journalVars, order, sent>>

\* Mutant: a refused payout goes back to its approvers.
MarkFailedReopens(w) ==
    /\ pc[w] = "mark_failed"
    /\ SetStatus(on[w], "pending_approval")
    /\ Finish(w)
    /\ UNCHANGED <<journalVars, order, sent>>

MarkFailed(w) ==
    /\ pc[w] = "mark_failed"
    /\ \/ SetStatus(on[w], "failed")
       \/ Faults /\ UNCHANGED rowVars
    /\ Finish(w)
    /\ UNCHANGED <<journalVars, order, sent>>

-----------------------------------------------------------------------------
(* The environment *)

\* A handler stops after any step: a crash, or an error returned early.
Stop(w) ==
    /\ Faults
    /\ pc[w] # "idle"
    /\ Finish(w)
    /\ UNCHANGED <<rowVars, journalVars, order, sent>>

\* The provider returns an order it accepted.  No handler takes notice of it: the
\* webhook handler knows sessions only and the poller sessions and deposits.
OrderReturned(p) ==
    /\ order[p] = "accepted"
    /\ order' = [order EXCEPT ![p] = "returned"]
    /\ UNCHANGED <<rowVars, journalVars, sent, workerVars>>

\* record_settlement, record_deposit and record_reversal, each posted at most once, at any
\* time (PaymentSession, DepositLedger).
PostSession(s, entry) ==
    /\ <<s, entry>> \notin sessionPosted
    /\ sessionPosted' = sessionPosted \union {<<s, entry>>}
    /\ late' = IF entry = "reversal" THEN late + Amount[s] ELSE late
    /\ UNCHANGED <<rowVars, posted, order, sent, workerVars>>

ExecuteNext(w) ==
    \/ Claim(w)
    \/ CheckBalance(w)
    \/ Bounce(w)
    \/ Debit(w)
    \/ \E created \in BOOLEAN : SendPayout(w, created)
    \/ StoreReference(w)
    \/ Refund(w)
    \/ MarkFailed(w)

Next ==
    \/ \E w \in Workers :
           \/ \E p \in Payouts, u \in Users : CreateReadBalance(w, p, u) \/ ApproveRead(w, p, u)
           \/ CreateReadHeld(w)
           \/ CreateInsert(w)
           \/ ExecuteNext(w)
           \/ Stop(w)
    \/ \E p \in Payouts, u \in Users : Reject(p, u)
    \/ \E p \in Payouts : OrderReturned(p)
    \/ \E s \in Sessions, entry \in SessionEntries : PostSession(s, entry)

Spec == Init /\ [][Next]_vars

-----------------------------------------------------------------------------
(* Properties *)

\* A payout executes once, however its creation, its approvals and its bounces for lack
\* of funds interleave: one debit, one request, at most one refund, of a debit made.
ExecutesOnce ==
    \A p \in Payouts :
        /\ sent[p] <= posted[<<p, "payout">>]
        /\ posted[<<p, "payout_reversal">>] <= posted[<<p, "payout">>]
        /\ posted[<<p, "payout">>] <= 1

\* Money leaves only for a payout an owner made or that another admin or owner approved.
DualControl ==
    \A p \in Payouts :
        sent[p] > 0 => \/ initiatedBy[p] \in Owners
                       \/ CanApprove(approvedBy[p]) /\ approvedBy[p] # initiatedBy[p]

\* A rejected payout was never debited nor sent, even when the rejection raced with an
\* approval that had already read the payout as pending.
RejectedUntouched ==
    \A p \in Payouts :
        status[p] = "rejected" => posted[<<p, "payout">>] = 0 /\ sent[p] = 0

\* The contract, read off the rows, the journal and the requests.
PhaseOf(p) == CASE status[p] = "none" -> "absent"
                [] status[p] = "pending_approval" -> "requested"
                [] status[p] = "processing" -> "executing"
                [] OTHER -> status[p]

\* The debit, the requests and the refund of a payout; any other count breaks the contract.
MoneyOf(p) ==
    LET counts == <<posted[<<p, "payout">>], sent[p], posted[<<p, "payout_reversal">>]>>
    IN CASE counts = <<0, 0, 0>> -> "none"
         [] counts = <<1, 0, 0>> -> "debited"
         [] counts = <<1, 1, 0>> -> "requested"
         [] counts = <<1, 1, 1>> -> "refunded"
         [] OTHER -> "wrong"

Phase == [p \in Payouts |-> PhaseOf(p)]

Money == [p \in Payouts |-> MoneyOf(p)]

Contract == INSTANCE PayoutContract WITH
    phase <- Phase, maker <- initiatedBy, checker <- approvedBy, money <- Money

\* The handlers, with all their races, bounces and crashes, do nothing that the contract
\* does not allow.
ContractHolds == Contract!Spec

\* A rejection is final: nothing that was under way revives the payout afterwards.
RejectionFinal ==
    [][\A p \in Payouts :
           status[p] = "rejected" => /\ status'[p] = "rejected"
                                     /\ sent'[p] = sent[p]
                                     /\ approvedBy'[p] = approvedBy[p]]_vars

\* execute_payout checks the balance again before it debits: payouts never overdraw it.
\* What sessions have reversed since a check passed is not the payouts' doing.
NeverOverdrawn == Available + late >= 0

\* Executions that passed the check together overdraw the balance by no more than one
\* payout for each handler but one, on top of what sessions have reversed since the last
\* of them passed: bounces, refunds, crashes and earlier reversals never add to that.
OverdraftBounded ==
    \/ NeverOverdrawn
    \/ \E p \in Payouts : Available + late >= -((Cardinality(Workers) - 1) * Amount[p])

\* moderntreasury.rs: an order may exist after a transport error, which is never to be
\* treated as a definitive failure.  A refunded payout has no order at the provider.
RefundedHasNoOrder ==
    \A p \in Payouts : posted[<<p, "payout_reversal">>] > 0 => order[p] = "none"
=============================================================================
