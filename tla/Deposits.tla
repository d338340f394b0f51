------------------------------ MODULE Deposits ------------------------------
(***************************************************************************)
(* Wallet top-ups: add_funds pulls money from the merchant's bank and      *)
(* polls the provider for a few seconds; the reconciliation poller, in     *)
(* process or called by cron, credits what settles later.  A step is one   *)
(* database statement or one provider call.                                *)
(***************************************************************************)
EXTENDS Naturals, ProviderClient

CONSTANTS
    Deposits,       \* ids of top-ups
    Workers,        \* the add_funds calls and poller passes in flight at the same time
    NoDeposit,      \* the deposit of an idle worker
    MaxFaults       \* bound on crashes and on failing statements

ASSUME NoDepositAssumption == NoDeposit \notin Deposits
ASSUME MaxFaultsAssumption == MaxFaults \in Nat

VARIABLES
    status,         \* deposits.status, "none" before the row is inserted
    reference,      \* deposits with mt_payment_order_id set
    credited,       \* deposits with credited = true
    posted,         \* how many journal entries a deposit has
    order,          \* the provider's order, as it would report it now
    settledOnce,    \* observation: deposits whose order settled at some time
    lost,           \* observation: deposits that were claimed and will not be posted
    pc, on,         \* step and deposit of each worker
    faults          \* faults so far

rowVars == <<status, reference, credited>>
entryVars == <<posted, lost>>
orderVars == <<order, settledOnce>>
workerVars == <<pc, on>>
vars == <<rowVars, entryVars, orderVars, workerVars, faults>>

Status == {"none", "pending", "completed", "failed"}

OrderStatus == {"none", "submitted", "settled", "failed", "cancelled", "returned", "reversed"}

Steps == {"idle", "pull", "store_reference", "poll", "mark_failed",
          "check", "mark_failed_guarded", "credit", "post"}

TypeOK ==
    /\ status \in [Deposits -> Status]
    /\ reference \in SUBSET Deposits
    /\ credited \in SUBSET Deposits
    /\ posted \in [Deposits -> Nat]
    /\ order \in [Deposits -> OrderStatus]
    /\ settledOnce \in SUBSET Deposits
    /\ lost \in SUBSET Deposits
    /\ pc \in [Workers -> Steps]
    /\ on \in [Workers -> Deposits \union {NoDeposit}]
    /\ faults \in 0 .. MaxFaults

Init ==
    /\ status = [d \in Deposits |-> "none"]
    /\ reference = {}
    /\ credited = {}
    /\ posted = [d \in Deposits |-> 0]
    /\ order = [d \in Deposits |-> "none"]
    /\ settledOnce = {}
    /\ lost = {}
    /\ pc = [w \in Workers |-> "idle"]
    /\ on = [w \in Workers |-> NoDeposit]
    /\ faults = 0

-----------------------------------------------------------------------------
Start(w, d, step) == /\ pc' = [pc EXCEPT ![w] = step]
                     /\ on' = [on EXCEPT ![w] = d]

Goto(w, step) == Start(w, on[w], step)

Finish(w) == Start(w, NoDeposit, "idle")

Fault == faults < MaxFaults /\ faults' = faults + 1

(* What both callers make of the provider's answer *)

\* Mutant: an order that was merely accepted counts as settled.
IsSettledEarly(st) == st \in {"submitted", "settled"}

IsSettled(st) == st = "settled"

\* A reversed order is none of these: it is left alone.
IsFailed(st) == st \in {"failed", "returned", "cancelled"}

-----------------------------------------------------------------------------
(* add_funds *)

AddFunds(w, d) ==
    /\ pc[w] = "idle"
    /\ status[d] = "none"
    /\ status' = [status EXCEPT ![d] = "pending"]
    /\ Start(w, d, "pull")
    /\ UNCHANGED <<reference, credited, entryVars, orderVars, faults>>

\* An error is passed up and the row stays as it is.
PullFunds(w, created) ==
    /\ pc[w] = "pull"
    /\ order' = [order EXCEPT ![on[w]] = IF created THEN "submitted" ELSE @]
    /\ \E reply \in Replies(created) :
           IF PullVerdict(reply) = "accepted" THEN Goto(w, "store_reference") ELSE Finish(w)
    /\ UNCHANGED <<rowVars, entryVars, settledOnce, faults>>

\* The statement's error is dropped; the polls below use the reference at hand.
StoreReference(w) ==
    /\ pc[w] = "store_reference"
    /\ \/ reference' = reference \union {on[w]} /\ UNCHANGED faults
       \/ Fault /\ UNCHANGED reference
    /\ Goto(w, "poll")
    /\ UNCHANGED <<status, credited, entryVars, orderVars>>

\* One of three polls; the last one, or a failing one, gives up.
Poll(w) ==
    /\ pc[w] = "poll"
    /\ \/ IsSettled(order[on[w]]) /\ Goto(w, "credit")
       \/ IsFailed(order[on[w]]) /\ Goto(w, "mark_failed")
       \/ Finish(w)
    /\ UNCHANGED <<rowVars, entryVars, orderVars, faults>>

\* Mutant: the row takes the provider's word for its status.
MarkFailedVerbatim(w) ==
    /\ pc[w] = "mark_failed"
    /\ status' = [status EXCEPT ![on[w]] = order[on[w]]]
    /\ Finish(w)
    /\ UNCHANGED <<reference, credited, entryVars, orderVars, faults>>

\* The UPDATE looks at neither the status nor credited.
MarkFailed(w) ==
    /\ pc[w] = "mark_failed"
    /\ \/ status' = [status EXCEPT ![on[w]] = "failed"] /\ UNCHANGED faults
       \/ Fault /\ UNCHANGED status
    /\ Finish(w)
    /\ UNCHANGED <<reference, credited, entryVars, orderVars>>

-----------------------------------------------------------------------------
(* The poller (tick, first half) *)

\* Mutant: the poller looks for a status that only sessions and payouts take.
SelectableProcessing(d) == status[d] = "processing" /\ d \in reference

Selectable(d) == status[d] = "pending" /\ d \in reference

\* The row is one of a batch: it may have moved on when its turn comes.
Select(w, d) ==
    /\ pc[w] = "idle"
    /\ Selectable(d)
    /\ Start(w, d, "check")
    /\ UNCHANGED <<rowVars, entryVars, orderVars, faults>>

\* An order still under way, or a failing call, is left to the next pass.
Check(w) ==
    /\ pc[w] = "check"
    /\ LET st == order[on[w]] IN
           \/ IsSettled(st) /\ Goto(w, "credit")
           \/ IsFailed(st) /\ Goto(w, "mark_failed_guarded")
           \/ ~IsSettled(st) /\ ~IsFailed(st) /\ Finish(w)
    /\ UNCHANGED <<rowVars, entryVars, orderVars, faults>>

MarkFailedGuarded(w) ==
    /\ pc[w] = "mark_failed_guarded"
    /\ \/ /\ status' = [status EXCEPT ![on[w]] =
                            IF on[w] \notin credited THEN "failed" ELSE @]
          /\ UNCHANGED faults
       \/ Fault /\ UNCHANGED status
    /\ Finish(w)
    /\ UNCHANGED <<reference, credited, entryVars, orderVars>>

-----------------------------------------------------------------------------
(* The credit, the same in settle_deposit and in the poller *)

\* Mutant: the UPDATE claims by status, which a failed mark may have changed.
MayClaimByStatus(d) == status[d] # "none"

MayClaim(d) == d \notin credited

\* Nobody claims the deposit again, so nobody posts it.
Loses(d) == lost' = lost \union {d}

\* An error of the UPDATE counts as a claim lost, also when it has been carried out.
Credit(w) ==
    LET d == on[w]
        Claimed == /\ MayClaim(d)
                   /\ status' = [status EXCEPT ![d] = "completed"]
                   /\ credited' = credited \union {d}
    IN /\ pc[w] = "credit"
       /\ \/ Claimed /\ Goto(w, "post") /\ UNCHANGED <<lost, faults>>
          \/ ~MayClaim(d) /\ Finish(w) /\ UNCHANGED <<status, credited, lost, faults>>
          \/ /\ Fault /\ Finish(w)
             /\ \/ Claimed /\ Loses(d)
                \/ UNCHANGED <<status, credited, lost>>
       /\ UNCHANGED <<reference, posted, orderVars>>

\* Mutant: the row is read again, and a failed one is not posted.
PostIfCompleted(w) ==
    /\ pc[w] = "post"
    /\ posted' = [posted EXCEPT ![on[w]] = IF status[on[w]] = "completed" THEN @ + 1 ELSE @]
    /\ Finish(w)
    /\ UNCHANGED <<rowVars, lost, orderVars, faults>>

\* record_deposit
Record(w) ==
    /\ pc[w] = "post"
    /\ posted' = [posted EXCEPT ![on[w]] = @ + 1]
    /\ Finish(w)
    /\ UNCHANGED <<rowVars, lost, orderVars, faults>>

\* Its error is dropped.
RecordFails(w) ==
    /\ pc[w] = "post"
    /\ Fault
    /\ Loses(on[w])
    /\ Finish(w)
    /\ UNCHANGED <<rowVars, posted, orderVars>>

-----------------------------------------------------------------------------
(* The environment *)

Stop(w) ==
    /\ pc[w] # "idle"
    /\ Fault
    /\ IF pc[w] = "post" THEN Loses(on[w]) ELSE UNCHANGED lost
    /\ Finish(w)
    /\ UNCHANGED <<rowVars, posted, orderVars>>

OrderMoves(d, st) ==
    /\ \/ order[d] = "submitted" /\ st \in OrderStatus \ {"none", "submitted"}
       \/ order[d] = "settled" /\ st \in {"returned", "reversed"}
    /\ order' = [order EXCEPT ![d] = st]
    /\ settledOnce' = IF st = "settled" THEN settledOnce \union {d} ELSE settledOnce
    /\ UNCHANGED <<rowVars, entryVars, workerVars, faults>>

\* What a handler does before the ledger is called.
TopUpStep(w) ==
    \/ \E created \in BOOLEAN : PullFunds(w, created)
    \/ StoreReference(w)
    \/ Poll(w)
    \/ MarkFailed(w)
    \/ Check(w)
    \/ MarkFailedGuarded(w)
    \/ Credit(w)

HandlerStep(w) == TopUpStep(w) \/ Record(w) \/ RecordFails(w)

Next ==
    \/ \E w \in Workers :
           \/ \E d \in Deposits : AddFunds(w, d) \/ Select(w, d)
           \/ HandlerStep(w)
           \/ Stop(w)
    \/ \E d \in Deposits, st \in OrderStatus : OrderMoves(d, st)

\* Handlers run to their end unless they stop, and the poller comes back to every
\* pending deposit: strongly fair because the bound on Workers is the model's.
Fairness ==
    /\ \A w \in Workers : WF_vars(HandlerStep(w))
    /\ \A d \in Deposits : SF_vars(\E w \in Workers : Select(w, d))

Spec == Init /\ [][Next]_vars /\ Fairness

-----------------------------------------------------------------------------
(* Properties *)

\* add_funds and any number of poller passes credit a deposit at most once, and only one
\* of them at a time is on its way to post it.
CreditedOnce ==
    \A d \in Deposits :
        /\ posted[d] <= 1
        /\ \A w \in Workers :
               on[w] = d /\ pc[w] = "post" =>
                   /\ d \in credited /\ posted[d] = 0
                   /\ \A v \in Workers : on[v] = d /\ pc[v] = "post" => v = w

\* Nothing is credited before the bank debit has settled at the provider.
CreditEarned == credited \subseteq settledOnce

\* A claimed deposit is in the ledger, or on its way there, or its claim was followed by
\* a fault: no order of polls, failed marks and claims drops a posting by itself.
ClaimedIsPosted ==
    \A d \in credited :
        \/ posted[d] = 1
        \/ \E w \in Workers : on[w] = d /\ pc[w] = "post"
        \/ d \in lost

\* What the comment of settle_deposit says of a crash or an error too: the claim comes
\* with the entry.  It does not, for the claim is made first and is never taken back.
ClaimCarriesEntry ==
    \A d \in credited : posted[d] = 1 \/ \E w \in Workers : on[w] = d /\ pc[w] = "post"

\* A top-up with a reference whose debit settles reaches the ledger, whatever else stops
\* on the way, unless the debit is undone before anybody looks or a fault falls between
\* the claim and the entry (ClaimCarriesEntry).
SettledIsPosted ==
    \A d \in Deposits :
        (d \in reference /\ order[d] = "settled")
            ~> (posted[d] = 1 \/ d \in lost \/ order[d] # "settled")
=============================================================================
