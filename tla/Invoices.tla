------------------------------ MODULE Invoices ------------------------------
(***************************************************************************)
(* Invoices: the merchant issues one at a time, recurring templates issue  *)
(* one per cycle, and opening an invoice refreshes its status from the     *)
(* provider.  Passes of the recurring worker overlap: every instance runs  *)
(* one each hour and the cron endpoint runs another.  A step is one        *)
(* database statement or one provider call.                                *)
(***************************************************************************)
EXTENDS Naturals

CONSTANTS
    Templates,      \* ids of recurring_invoices
    OneOffs,        \* invoices that the merchant issues by hand
    Interval,       \* interval_days of each template
    LastDay,        \* bound on the calendar
    Workers,        \* the requests and passes in flight at the same time
    NoBill,         \* the invoice of an idle worker
    Followed,       \* bound: the invoices that are opened and that move at the provider
    MaxFaults       \* bound on crashes, failing statements and failing provider calls

ASSUME IntervalAssumption == Interval \in [Templates -> Nat \ {0}]
ASSUME LastDayAssumption == LastDay \in Nat
ASSUME MaxFaultsAssumption == MaxFaults \in Nat

Days == 0 .. LastDay

\* An invoice is the one of a template's cycle, named by the day it was due, or by hand.
Cycles == Templates \X Days
Bills == Cycles \union OneOffs

ASSUME BillsAssumption == OneOffs \intersect Cycles = {} /\ NoBill \notin Bills

ASSUME FollowedAssumption == Followed \subseteq Bills

VARIABLES
    template,       \* "none", "active" or "cancelled"
    nextRun,        \* recurring_invoices.next_run
    last,           \* recurring_invoices.last_invoice_id
    first,          \* observation: the day a template started
    day,            \* CURRENT_DATE
    row,            \* invoices.status, "none" without a row
    bill,           \* the invoice's status at the provider, "none" before it exists
    issued,         \* observation: how many invoices the provider has made of a bill
    pc, on, word,   \* step of each worker, its invoice and the status it holds
    batch,          \* the claimed cycles a pass has still to issue
    faults          \* faults so far

templateVars == <<template, nextRun, last, first>>
billVars == <<bill, issued>>
workerVars == <<pc, on, word, batch>>
vars == <<templateVars, day, row, billVars, workerVars, faults>>

\* The provider's statuses: paid stands for all that are final.
BillStatus == {"none", "draft", "unpaid", "paid"}

Steps == {"idle", "next", "issue", "insert", "link", "ask", "store"}

TypeOK ==
    /\ template \in [Templates -> {"none", "active", "cancelled"}]
    /\ nextRun \in [Templates -> Nat]
    /\ last \in [Templates -> Cycles \union {NoBill}]
    /\ first \in [Templates -> Days]
    /\ day \in Days
    /\ row \in [Bills -> BillStatus]
    /\ bill \in [Bills -> BillStatus]
    /\ issued \in [Bills -> Nat]
    /\ pc \in [Workers -> Steps]
    /\ on \in [Workers -> Bills \union {NoBill}]
    /\ word \in [Workers -> BillStatus]
    /\ batch \in [Workers -> SUBSET Cycles]
    /\ faults \in 0 .. MaxFaults

Init ==
    /\ template = [t \in Templates |-> "none"]
    /\ nextRun = [t \in Templates |-> 0]
    /\ last = [t \in Templates |-> NoBill]
    /\ first = [t \in Templates |-> 0]
    /\ day = 0
    /\ row = [b \in Bills |-> "none"]
    /\ bill = [b \in Bills |-> "none"]
    /\ issued = [b \in Bills |-> 0]
    /\ pc = [w \in Workers |-> "idle"]
    /\ on = [w \in Workers |-> NoBill]
    /\ word = [w \in Workers |-> "none"]
    /\ batch = [w \in Workers |-> {}]
    /\ faults = 0

-----------------------------------------------------------------------------
Start(w, b, st, step) ==
    /\ pc' = [pc EXCEPT ![w] = step]
    /\ on' = [on EXCEPT ![w] = b]
    /\ word' = [word EXCEPT ![w] = st]

Hold(w, st, step) == Start(w, on[w], st, step)

\* A request is answered; a pass of the recurring worker turns to its next cycle.
Proceed(w) == Start(w, NoBill, "none", IF on[w] \in OneOffs THEN "idle" ELSE "next")

Fault == faults < MaxFaults /\ faults' = faults + 1

-----------------------------------------------------------------------------
(* create_recurring and cancel_recurring *)

\* The first cycle may lie in the past.
CreateRecurring(t, start) ==
    /\ template[t] = "none"
    /\ template' = [template EXCEPT ![t] = "active"]
    /\ nextRun' = [nextRun EXCEPT ![t] = start]
    /\ first' = [first EXCEPT ![t] = start]
    /\ UNCHANGED <<last, day, row, billVars, workerVars, faults>>

CancelRecurring(t) ==
    /\ template[t] = "active"
    /\ template' = [template EXCEPT ![t] = "cancelled"]
    /\ UNCHANGED <<nextRun, last, first, day, row, billVars, workerVars, faults>>

-----------------------------------------------------------------------------
(* The recurring worker: tick *)

DueToday(t) == template[t] = "active" /\ nextRun[t] = day   \* mutant: a missed day is lost

Due(t) == template[t] = "active" /\ nextRun[t] <= day

\* Mutants: next_run is left to whoever has issued the invoice; it restarts from today.
AdvancedLater(t) == nextRun[t]
AdvancedFromToday(t) == day + Interval[t]

Advanced(t) == nextRun[t] + Interval[t]

\* One UPDATE claims a cycle of every template that is due.
Claim(w) ==
    /\ pc[w] = "idle"
    /\ \E t \in Templates : Due(t)
    /\ nextRun' = [t \in Templates |-> IF Due(t) THEN Advanced(t) ELSE nextRun[t]]
    /\ batch' = [batch EXCEPT ![w] = {<<t, nextRun[t]>> : t \in {u \in Templates : Due(u)}}]
    /\ Start(w, NoBill, "none", "next")
    /\ UNCHANGED <<template, last, first, day, row, billVars, faults>>

TakeNext(w) ==
    /\ pc[w] = "next"
    /\ IF batch[w] = {}
       THEN Start(w, NoBill, "none", "idle") /\ UNCHANGED batch
       ELSE \E b \in batch[w] : /\ batch' = [batch EXCEPT ![w] = @ \ {b}]
                                /\ Start(w, b, "none", "issue")
    /\ UNCHANGED <<templateVars, day, row, billVars, faults>>

\* create_invoice, the request.
CreateInvoice(w, b) ==
    /\ pc[w] = "idle"
    /\ b \in OneOffs
    /\ issued[b] = 0
    /\ \A v \in Workers : on[v] # b
    /\ Start(w, b, "none", "issue")
    /\ UNCHANGED <<templateVars, day, row, billVars, batch, faults>>

-----------------------------------------------------------------------------
(* What create_invoice and the recurring worker share *)

\* The provider posts the invoice at once or later and answers with its status.  A failing
\* call, its answer lost or not, is logged by the pass and reported by the request.
Issue(w) ==
    /\ pc[w] = "issue"
    /\ \/ \E st \in {"draft", "unpaid"} :
              /\ bill' = [bill EXCEPT ![on[w]] = st]
              /\ issued' = [issued EXCEPT ![on[w]] = @ + 1]
              /\ \/ Hold(w, st, "insert") /\ UNCHANGED faults
                 \/ Proceed(w) /\ Fault
       \/ Proceed(w) /\ Fault /\ UNCHANGED billVars
    /\ UNCHANGED <<templateVars, day, row, batch>>

\* Mutants: the status is spelled out instead of taken from the answer.
InsertAsUnpaid(w) ==
    /\ pc[w] = "insert"
    /\ row' = [row EXCEPT ![on[w]] = "unpaid"]
    /\ IF on[w] \in OneOffs THEN Proceed(w) ELSE Hold(w, "none", "link")
    /\ UNCHANGED <<templateVars, day, billVars, batch, faults>>

InsertAsSent(w) ==
    /\ pc[w] = "insert"
    /\ row' = [row EXCEPT ![on[w]] = "sent"]
    /\ IF on[w] \in OneOffs THEN Proceed(w) ELSE Hold(w, "none", "link")
    /\ UNCHANGED <<templateVars, day, billVars, batch, faults>>

\* The pass ignores the statement's error, the request reports it.
Insert(w) ==
    /\ pc[w] = "insert"
    /\ \/ row' = [row EXCEPT ![on[w]] = word[w]] /\ UNCHANGED faults
       \/ Fault /\ UNCHANGED row
    /\ IF on[w] \in OneOffs THEN Proceed(w) ELSE Hold(w, "none", "link")
    /\ UNCHANGED <<templateVars, day, billVars, batch>>

\* last_invoice_id is written even if the row was not.
Link(w) ==
    /\ pc[w] = "link"
    /\ \/ last' = [last EXCEPT ![on[w][1]] = on[w]] /\ UNCHANGED faults
       \/ Fault /\ UNCHANGED last
    /\ Proceed(w)
    /\ UNCHANGED <<template, nextRun, first, day, row, billVars, batch>>

-----------------------------------------------------------------------------
(* get_invoice *)

OpenInvoice(w, b) ==
    /\ pc[w] = "idle"
    /\ b \in Followed
    /\ row[b] # "none"
    /\ Start(w, b, row[b], "ask")
    /\ UNCHANGED <<templateVars, day, row, billVars, batch, faults>>

IsNewsOfDraft(latest, current) == current = "draft" /\ latest # current   \* mutant

IsNews(latest, current) == latest # current

Answer(w) == Start(w, NoBill, "none", "idle")

\* The refresh is best effort.
AskStatus(w) ==
    /\ pc[w] = "ask"
    /\ \/ /\ IF IsNews(bill[on[w]], word[w]) THEN Hold(w, bill[on[w]], "store") ELSE Answer(w)
          /\ UNCHANGED faults
       \/ Fault /\ Answer(w)
    /\ UNCHANGED <<templateVars, day, row, billVars, batch>>

StoreStatus(w) ==
    /\ pc[w] = "store"
    /\ \/ row' = [row EXCEPT ![on[w]] = word[w]] /\ UNCHANGED faults
       \/ Fault /\ UNCHANGED row
    /\ Answer(w)
    /\ UNCHANGED <<templateVars, day, billVars, batch>>

-----------------------------------------------------------------------------
(* The environment *)

\* The handler dies; what it had claimed goes with it.
Stop(w) ==
    /\ pc[w] # "idle"
    /\ Fault
    /\ Start(w, NoBill, "none", "idle")
    /\ batch' = [batch EXCEPT ![w] = {}]
    /\ UNCHANGED <<templateVars, day, row, billVars>>

NextDay ==
    /\ day < LastDay
    /\ day' = day + 1
    /\ UNCHANGED <<templateVars, row, billVars, workerVars, faults>>

Rank == [none |-> 0, draft |-> 1, unpaid |-> 2, paid |-> 3]

BillMoves(b, st) ==
    /\ b \in Followed
    /\ bill[b] # "none"
    /\ Rank[st] = Rank[bill[b]] + 1
    /\ bill' = [bill EXCEPT ![b] = st]
    /\ UNCHANGED <<templateVars, day, row, issued, workerVars, faults>>

HandlerStep(w) ==
    \/ TakeNext(w)
    \/ Issue(w)
    \/ Insert(w)
    \/ Link(w)
    \/ AskStatus(w)
    \/ StoreStatus(w)

Next ==
    \/ \E t \in Templates : CancelRecurring(t) \/ \E start \in Days : CreateRecurring(t, start)
    \/ \E w \in Workers :
           \/ Claim(w)
           \/ \E b \in Bills : CreateInvoice(w, b) \/ OpenInvoice(w, b)
           \/ HandlerStep(w)
           \/ Stop(w)
    \/ NextDay
    \/ \E b \in Bills, st \in BillStatus : BillMoves(b, st)

\* Handlers run to their end, the recurring worker keeps ticking and the merchant keeps
\* opening each invoice.  Strong fairness, because the bound on Workers is the model's:
\* the server always has room for one more.
Fairness ==
    /\ \A w \in Workers : WF_vars(HandlerStep(w))
    /\ SF_vars(\E w \in Workers : Claim(w))
    /\ \A b \in Followed : SF_vars(\E w \in Workers : OpenInvoice(w, b))

Spec == Init /\ [][Next]_vars /\ Fairness

-----------------------------------------------------------------------------
(* Properties *)

\* recurring.rs: no restart, second instance or cron call issues a cycle twice.
CycleBilledOnce == \A b \in Cycles : issued[b] <= 1

\* Worker w has claimed the cycle and not yet asked the provider for its invoice.
Underway(w, b) == b \in batch[w] \/ (on[w] = b /\ pc[w] = "issue")

\* As long as nothing fails, every cycle between the start of a template and its next run
\* is billed or about to be, cycles that were missed while no worker ran included.
NoCycleSkipped ==
    \A t \in Templates, c \in Days :
        /\ faults = 0
        /\ template[t] # "none"
        /\ first[t] <= c /\ c < nextRun[t] /\ (c - first[t]) % Interval[t] = 0
        => issued[<<t, c>>] = 1 \/ \E w \in Workers : Underway(w, <<t, c>>)

\* The books run behind the provider, never ahead of it: a row has a status its invoice
\* has reached, and a template's last invoice exists.
BooksAreReal ==
    /\ \A b \in Bills : Rank[row[b]] <= Rank[bill[b]]
    /\ \A t \in Templates : last[t] # NoBill => issued[last[t]] > 0

\* An active template that is behind the calendar catches up with it, one cycle a pass.
BacklogClears ==
    \A t \in Templates :
        (template[t] = "active" /\ nextRun[t] <= day)
            ~> (template[t] = "cancelled" \/ nextRun[t] > day)

\* A paid invoice is shown as paid in the end and stays so, although refreshes overtake
\* each other and a late one writes an older status over a newer one.
StatusCatchesUp ==
    \A b \in Followed : (row[b] # "none" /\ bill[b] = "paid") ~> [](row[b] = "paid")
=============================================================================
