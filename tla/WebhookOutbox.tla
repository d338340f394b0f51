---------------------------- MODULE WebhookOutbox ----------------------------
(***************************************************************************)
(* Delivery of the events in the outbox to the merchant's endpoint.  Any   *)
(* number of ticks may overlap: the in-process loop of every instance and  *)
(* the cron endpoint.  A tick claims a batch of due events in one          *)
(* statement, which leases them for a minute, and then works through the   *)
(* batch one event at a time, longer than the lease if endpoints are slow. *)
(***************************************************************************)
EXTENDS Naturals, FiniteSetsExt

CONSTANTS
    Events,         \* ids of outbox events
    Workers,        \* ticks that can run at the same time
    NoEvent,        \* the event of a worker that delivers nothing
    Batch,          \* BATCH, 20 in the code
    MaxAttempts,    \* MAX_ATTEMPTS, 6 in the code
    MaxFaults,      \* bound on crashes and failing statements
    MaxRetries      \* bound on an operator's retries

ASSUME NoEventAssumption == NoEvent \notin Events
ASSUME LimitsAssumption == /\ Batch \in Nat \ {0}
                           /\ MaxAttempts \in Nat \ {0}
                           /\ MaxFaults \in Nat
                           /\ MaxRetries \in Nat

VARIABLES
    status,         \* webhook_events.status, "none" before the event is enqueued
    attempts,       \* webhook_events.attempts
    due,            \* events with next_retry_at <= now()
    waiting,        \* the rest of each worker's batch, <<event, attempt number>>
    pc,             \* step of each worker
    current,        \* <<event, attempt number>> a worker is delivering
    logged,         \* <<event, attempt number>> of the rows in webhook_delivery_logs
    accepted,       \* observation: events that the endpoint took or that needed none
    faults, retries

rowVars == <<status, attempts, due>>
workerVars == <<waiting, pc, current>>
vars == <<rowVars, workerVars, logged, accepted, faults, retries>>

Status == {"none", "pending", "sending", "failed", "delivered", "exhausted"}

Steps == {"idle", "lookup", "post", "log_success", "log_failure",
          "mark_delivered", "mark_failed"}

Nothing == <<NoEvent, 0>>

TypeOK ==
    /\ status \in [Events -> Status]
    /\ attempts \in [Events -> Nat]
    /\ due \in SUBSET Events
    /\ waiting \in [Workers -> SUBSET (Events \X Nat)]
    /\ pc \in [Workers -> Steps]
    /\ current \in [Workers -> (Events \X Nat) \union {Nothing}]
    /\ logged \in SUBSET (Events \X Nat)
    /\ accepted \in SUBSET Events
    /\ faults \in 0 .. MaxFaults
    /\ retries \in 0 .. MaxRetries

Init ==
    /\ status = [e \in Events |-> "none"]
    /\ attempts = [e \in Events |-> 0]
    /\ due = {}
    /\ waiting = [w \in Workers |-> {}]
    /\ pc = [w \in Workers |-> "idle"]
    /\ current = [w \in Workers |-> Nothing]
    /\ logged = {}
    /\ accepted = {}
    /\ faults = 0
    /\ retries = 0

Event(w) == current[w][1]

Number(w) == current[w][2]

-----------------------------------------------------------------------------
Goto(w, step) == /\ pc' = [pc EXCEPT ![w] = step]
                 /\ UNCHANGED <<waiting, current>>

\* Done with one event; the rest of the batch waits.
Finish(w) == /\ pc' = [pc EXCEPT ![w] = "idle"]
             /\ current' = [current EXCEPT ![w] = Nothing]
             /\ UNCHANGED waiting

Fault == faults < MaxFaults /\ faults' = faults + 1

\* A statement whose error is dropped: it is carried out, or it is not and nobody learns.
Try(statement, kept) == \/ statement /\ UNCHANGED faults
                        \/ Fault /\ kept

Enqueue(e) ==
    /\ status[e] = "none"
    /\ status' = [status EXCEPT ![e] = "pending"]
    /\ due' = due \union {e}
    /\ UNCHANGED <<attempts, workerVars, logged, accepted, faults, retries>>

-----------------------------------------------------------------------------
(* claim_due *)

\* Mutant: a row whose worker died is nobody's.
ClaimableUnreaped(e) == e \in due /\ status[e] \in {"pending", "failed"}

\* A row being sent is claimable again when its lease is over.
Claimable(e) == e \in due /\ status[e] \in {"pending", "failed", "sending"}

\* Mutant: a row that is claimed again keeps its attempt number.
NextAttemptOfRow(e) == IF status[e] = "sending" THEN attempts[e] ELSE attempts[e] + 1

NextAttempt(e) == attempts[e] + 1

\* Rows locked by a concurrent claim are skipped, so any part of the batch may be missing.
ClaimDue(w, batch) ==
    /\ pc[w] = "idle" /\ waiting[w] = {}
    /\ batch # {}
    /\ \A e \in batch : Claimable(e)
    /\ attempts' = [e \in Events |-> IF e \in batch THEN NextAttempt(e) ELSE attempts[e]]
    /\ status' = [e \in Events |-> IF e \in batch THEN "sending" ELSE status[e]]
    /\ due' = due \ batch
    /\ waiting' = [waiting EXCEPT ![w] = {<<e, NextAttempt(e)>> : e \in batch}]
    /\ UNCHANGED <<pc, current, logged, accepted, faults, retries>>

\* The rows are worked through in the order in which the UPDATE returns them: any.
TakeNext(w) ==
    /\ pc[w] = "idle"
    /\ \E task \in waiting[w] :
           /\ current' = [current EXCEPT ![w] = task]
           /\ waiting' = [waiting EXCEPT ![w] = @ \ {task}]
    /\ pc' = [pc EXCEPT ![w] = "lookup"]
    /\ UNCHANGED <<rowVars, logged, accepted, faults, retries>>

-----------------------------------------------------------------------------
(* deliver *)

\* The merchant may set or remove its endpoint at any time.  No endpoint: nothing to deliver, the event counts as delivered.
LookupEndpoint(w, hasUrl) ==
    /\ pc[w] = "lookup"
    /\ \/ hasUrl /\ Goto(w, "post") /\ UNCHANGED <<accepted, faults>>
       \/ /\ ~hasUrl
          /\ accepted' = accepted \union {Event(w)}
          /\ Goto(w, "mark_delivered")
          /\ UNCHANGED faults
       \/ Fault /\ Goto(w, "mark_failed") /\ UNCHANGED accepted
    /\ UNCHANGED <<rowVars, logged, retries>>

\* Mutant: any answer of the endpoint is a delivery.
OutcomesAnswered(taken) == {"log_success", "log_failure"}

\* A 2xx counts as success; another answer, or a timeout of a request that the endpoint
\* may have taken, as failure.
Outcomes(taken) == IF taken THEN {"log_success", "log_failure"} ELSE {"log_failure"}

PostEvent(w, taken) ==
    /\ pc[w] = "post"
    /\ accepted' = IF taken THEN accepted \union {Event(w)} ELSE accepted
    /\ \E step \in Outcomes(taken) : Goto(w, step)
    /\ UNCHANGED <<rowVars, logged, faults, retries>>

LogAttempt(w) ==
    /\ pc[w] \in {"log_success", "log_failure"}
    /\ Try(logged' = logged \union {current[w]}, UNCHANGED logged)
    /\ Goto(w, IF pc[w] = "log_success" THEN "mark_delivered" ELSE "mark_failed")
    /\ UNCHANGED <<rowVars, accepted, retries>>

\* Mutant: the mark uses the name of the column that it sets along with the status.
MarkDeliveredSent(w) ==
    /\ pc[w] = "mark_delivered"
    /\ status' = [status EXCEPT ![Event(w)] = "sent"]
    /\ Finish(w)
    /\ UNCHANGED <<attempts, due, logged, accepted, faults, retries>>

\* Neither mark looks at the row: another worker may have claimed it or marked it since.
MarkDelivered(w) ==
    /\ pc[w] = "mark_delivered"
    /\ Try(status' = [status EXCEPT ![Event(w)] = "delivered"], UNCHANGED status)
    /\ Finish(w)
    /\ UNCHANGED <<attempts, due, logged, accepted, retries>>

\* Mutant: the last attempt is given up before it is made.
IsLastEarly(n) == n + 1 >= MaxAttempts

IsLast(n) == n >= MaxAttempts

\* Rescheduled with a backoff, or given up.
MarkFailed(w) ==
    /\ pc[w] = "mark_failed"
    /\ Try(IF IsLast(Number(w))
           THEN /\ status' = [status EXCEPT ![Event(w)] = "exhausted"]
                /\ UNCHANGED due
           ELSE /\ status' = [status EXCEPT ![Event(w)] = "failed"]
                /\ due' = due \ {Event(w)},
           UNCHANGED <<status, due>>)
    /\ Finish(w)
    /\ UNCHANGED <<attempts, logged, accepted, retries>>

-----------------------------------------------------------------------------
(* retry_webhook, and the environment *)

\* An operator's retry, whatever the status; the attempts are kept.
RetryNow(e) ==
    /\ retries < MaxRetries
    /\ retries' = retries + 1
    /\ status[e] # "none"
    /\ status' = [status EXCEPT ![e] = "pending"]
    /\ due' = due \union {e}
    /\ UNCHANGED <<attempts, workerVars, logged, accepted, faults>>

\* next_retry_at passes: a backoff or a lease is over.
BecomesDue(e) ==
    /\ e \notin due
    /\ status[e] \in {"pending", "failed", "sending"}
    /\ due' = due \union {e}
    /\ UNCHANGED <<status, attempts, workerVars, logged, accepted, faults, retries>>

\* A worker dies with what is left of its batch.
Stop(w) ==
    /\ pc[w] # "idle" \/ waiting[w] # {}
    /\ Fault
    /\ pc' = [pc EXCEPT ![w] = "idle"]
    /\ current' = [current EXCEPT ![w] = Nothing]
    /\ waiting' = [waiting EXCEPT ![w] = {}]
    /\ UNCHANGED <<rowVars, logged, accepted, retries>>

DeliverStep(w) ==
    \/ TakeNext(w)
    \/ \E hasUrl \in BOOLEAN : LookupEndpoint(w, hasUrl)
    \/ \E taken \in BOOLEAN : PostEvent(w, taken)
    \/ LogAttempt(w)
    \/ MarkDelivered(w)
    \/ MarkFailed(w)

Batches == UNION {kSubset(n, Events) : n \in 1 .. Batch}

Next ==
    \/ \E w \in Workers :
           \/ \E batch \in Batches : ClaimDue(w, batch)
           \/ DeliverStep(w)
           \/ Stop(w)
    \/ \E e \in Events : Enqueue(e) \/ RetryNow(e) \/ BecomesDue(e)

\* A tick runs to its end unless its worker dies, time passes, and ticks come for ever,
\* each claiming the events that have been due the longest.
Fairness ==
    /\ \A w \in Workers : WF_vars(DeliverStep(w))
    /\ \A e \in Events : /\ WF_vars(BecomesDue(e))
                         /\ SF_vars(\E w \in Workers, batch \in Batches :
                                       e \in batch /\ ClaimDue(w, batch))

Spec == Init /\ [][Next]_vars /\ Fairness

-----------------------------------------------------------------------------
(* Properties *)

\* What a worker has claimed and not finished.
Tasks(w) == waiting[w] \union ({current[w]} \ {Nothing})

\* However claims, expired leases and retries interleave, the deliveries under way and
\* the log tell one attempt of an event from another: no two share a number.
AttemptsApart ==
    \A w \in Workers :
        /\ \A task \in Tasks(w) : task[2] \in 1 .. attempts[task[1]]
        /\ \A v \in Workers \ {w} : Tasks(v) \intersect Tasks(w) = {}
        /\ pc[w] \in {"lookup", "post", "log_success", "log_failure"} =>
               current[w] \notin logged
        /\ waiting[w] \intersect logged = {}

\* An event ends as delivered only if the endpoint took it or there was none, although
\* marks of late workers overwrite those of others.
DeliveredWasAccepted == \A e \in Events : status[e] = "delivered" => e \in accepted

\* An event is given up only after all its attempts, lost ones included.
ExhaustedWasTried ==
    \A e \in Events : status[e] = "exhausted" => attempts[e] >= MaxAttempts

\* No event is stranded by a crash and none is retried for ever, although a late mark may
\* reopen a finished one: in the end each is delivered or given up.
QueueDrains ==
    \A e \in Events : <>[](status[e] \in {"none", "delivered", "exhausted"})
=============================================================================
