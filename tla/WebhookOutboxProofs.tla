------------------------ MODULE WebhookOutboxProofs ------------------------
(***************************************************************************)
(* Proofs about WebhookOutbox for any number of events and of overlapping  *)
(* ticks, any size of batch and any limit on attempts.                     *)
(***************************************************************************)
EXTENDS WebhookOutbox, TLAPS

Attempts == Events \X (Nat \ {0})

(* A worker delivers an attempt that is not among those it has yet to make.*)
TypeInv ==
    /\ TypeOK
    /\ \A w \in Workers :
           /\ waiting[w] \in SUBSET Attempts
           /\ pc[w] # "idle" => current[w] \in Attempts
           /\ pc[w] = "idle" => current[w] = Nothing
           /\ current[w] \notin waiting[w]

(* A number that the row has not reached is in use nowhere: the next claim *)
(* makes a new one.                                                        *)
NumbersReached ==
    /\ \A l \in logged : l[2] <= attempts[l[1]]
    /\ \A w \in Workers : \A task \in Tasks(w) : task[2] <= attempts[task[1]]

(* A worker about to mark an event delivered has been answered so.         *)
AnsweredInv ==
    \A w \in Workers : pc[w] \in {"log_success", "mark_delivered"} => Event(w) \in accepted

-----------------------------------------------------------------------------
LEMMA InitInv ==
    Init => TypeInv /\ NumbersReached /\ AnsweredInv
            /\ AttemptsApart /\ DeliveredWasAccepted /\ ExhaustedWasTried
  BY NoEventAssumption, LimitsAssumption
  DEF Init, TypeInv, TypeOK, Status, Steps, Nothing, Attempts, NumbersReached, Tasks,
      AnsweredInv, AttemptsApart, DeliveredWasAccepted, ExhaustedWasTried

LEMMA FaultType ==
    ASSUME TypeOK, UNCHANGED faults \/ Fault
    PROVE  faults' \in 0 .. MaxFaults
  BY LimitsAssumption DEF TypeOK, Fault

LEMMA NextAttemptType ==
    ASSUME TypeOK, NEW e \in Events
    PROVE  NextAttempt(e) \in Nat \ {0} /\ NextAttempt(e) > attempts[e] /\ attempts[e] \in Nat
  <1>1. attempts[e] \in Nat
    BY DEF TypeOK
  <1> QED
    BY <1>1 DEF NextAttempt

LEMMA ClaimTypeInv ==
    ASSUME TypeInv, NEW w \in Workers, NEW batch, ClaimDue(w, batch)
    PROVE  TypeInv'
  <1>0. batch \subseteq Events
    BY DEF ClaimDue, Claimable, TypeInv, TypeOK
  <1>1. {<<e, NextAttempt(e)>> : e \in batch} \in SUBSET Attempts
    BY <1>0, NextAttemptType DEF TypeInv, Attempts
  <1>2. Attempts \subseteq Events \X Nat /\ Nothing \notin Attempts
    BY NoEventAssumption DEF Attempts, Nothing
  <1>3. attempts' \in [Events -> Nat]
    BY NextAttemptType DEF TypeInv, ClaimDue
  <1>4. status' \in [Events -> Status] /\ due' \in SUBSET Events
    BY DEF TypeInv, TypeOK, ClaimDue, Status
  <1>5. /\ waiting' \in [Workers -> SUBSET (Events \X Nat)]
        /\ \A v \in Workers : waiting'[v] \in SUBSET Attempts
    BY <1>1, <1>2 DEF TypeInv, TypeOK, ClaimDue
  <1>6. \A v \in Workers : current'[v] \notin waiting'[v]
    BY <1>1, <1>2 DEF TypeInv, TypeOK, ClaimDue
  <1> QED
    BY <1>3, <1>4, <1>5, <1>6 DEF TypeInv, TypeOK, ClaimDue

LEMMA DeliverTypeInv ==
    ASSUME TypeInv, NEW w \in Workers, DeliverStep(w)
    PROVE  TypeInv'
  <1>0. faults' \in 0 .. MaxFaults
    <2>1. UNCHANGED faults \/ Fault
      BY Zenon DEF DeliverStep, TakeNext, LookupEndpoint, PostEvent, LogAttempt, MarkDelivered,
                   MarkFailed, Try
    <2> QED
      BY <2>1, FaultType DEF TypeInv
  <1>1. Attempts \subseteq Events \X Nat /\ Nothing \notin Attempts
    BY NoEventAssumption DEF Attempts, Nothing
  <1>2. pc[w] # "idle" => Event(w) \in Events
    BY DEF TypeInv, Attempts, Event
  <1> USE <1>0, <1>1 DEF TypeInv, TypeOK, Status, Steps, Goto, Finish, rowVars
  <1>3. CASE TakeNext(w)
    BY <1>3 DEF TakeNext
  <1>4. ASSUME NEW hasUrl \in BOOLEAN, LookupEndpoint(w, hasUrl)  PROVE TypeInv'
    BY <1>2, <1>4 DEF LookupEndpoint
  <1>5. ASSUME NEW taken \in BOOLEAN, PostEvent(w, taken)  PROVE TypeInv'
    BY <1>2, <1>5 DEF PostEvent, Outcomes
  <1>6. CASE LogAttempt(w)
    BY <1>6 DEF LogAttempt, Try
  <1>7. CASE MarkDelivered(w)
    BY <1>7 DEF MarkDelivered, Try
  <1>8. CASE MarkFailed(w)
    BY <1>8 DEF MarkFailed, Try
  <1> QED
    BY <1>3, <1>4, <1>5, <1>6, <1>7, <1>8 DEF DeliverStep

LEMMA StepTypeInv == TypeInv /\ [Next]_vars => TypeInv'
  <1> SUFFICES ASSUME TypeInv, [Next]_vars  PROVE TypeInv'
    OBVIOUS
  <1>1. ASSUME NEW w \in Workers, NEW batch, ClaimDue(w, batch)  PROVE TypeInv'
    BY <1>1, ClaimTypeInv
  <1>2. ASSUME NEW w \in Workers, DeliverStep(w)  PROVE TypeInv'
    BY <1>2, DeliverTypeInv
  <1>3. ASSUME NEW w \in Workers, Stop(w)  PROVE TypeInv'
    BY <1>3, FaultType DEF Stop, TypeInv, TypeOK, Steps, rowVars
  <1>4. ASSUME NEW e \in Events, Enqueue(e) \/ RetryNow(e) \/ BecomesDue(e)  PROVE TypeInv'
    <2>1. retries' \in 0 .. MaxRetries
      BY <1>4, LimitsAssumption DEF Enqueue, RetryNow, BecomesDue, TypeInv, TypeOK
    <2> QED
      BY <1>4, <2>1 DEF Enqueue, RetryNow, BecomesDue, TypeInv, TypeOK, Status, workerVars
  <1>5. CASE UNCHANGED vars
    BY <1>5 DEF vars, rowVars, workerVars, TypeInv, TypeOK
  <1> QED
    BY <1>1, <1>2, <1>3, <1>4, <1>5 DEF Next

-----------------------------------------------------------------------------
(* Attempts keep apart. *)

NumbersInv == NumbersReached /\ AttemptsApart

PreLog == {"lookup", "post", "log_success", "log_failure"}

(* Steps that give no new attempt to any worker and log none.              *)
LEMMA NumbersFrame ==
    ASSUME TypeInv, NumbersInv,
           UNCHANGED <<attempts, logged>>,
           \A w \in Workers : /\ Tasks(w)' \subseteq Tasks(w)
                              /\ waiting'[w] \subseteq waiting[w]
                              /\ pc'[w] \in PreLog =>
                                     \/ pc[w] \in PreLog /\ current'[w] = current[w]
                                     \/ current'[w] \in waiting[w]
    PROVE  NumbersInv'
  <1>1. NumbersReached'
    BY DEF NumbersInv, NumbersReached
  <1>2. AttemptsApart'
    <2> SUFFICES ASSUME NEW w \in Workers
                 PROVE  /\ \A task \in Tasks(w)' : task[2] \in 1 .. attempts'[task[1]]
                        /\ \A v \in Workers \ {w} : Tasks(v)' \intersect Tasks(w)' = {}
                        /\ pc'[w] \in PreLog => current'[w] \notin logged'
                        /\ waiting'[w] \intersect logged' = {}
      BY DEF AttemptsApart, PreLog
    <2> USE DEF NumbersInv, AttemptsApart, PreLog
    <2>1. \A task \in Tasks(w)' : task[2] \in 1 .. attempts'[task[1]]
      OBVIOUS
    <2>2. \A v \in Workers \ {w} : Tasks(v)' \intersect Tasks(w)' = {}
      OBVIOUS
    <2>3. pc'[w] \in PreLog => current'[w] \notin logged'
      OBVIOUS
    <2>4. waiting'[w] \intersect logged' = {}
      OBVIOUS
    <2> QED
      BY <2>1, <2>2, <2>3, <2>4
  <1> QED
    BY <1>1, <1>2 DEF NumbersInv

(* A claim gives every event of the batch a number above all those in use. *)
LEMMA ClaimNumbersInv ==
    ASSUME TypeInv, NumbersInv, NEW w \in Workers, NEW batch, ClaimDue(w, batch)
    PROVE  NumbersInv'
  <1>0. batch \subseteq Events
    BY DEF ClaimDue, Claimable, TypeInv, TypeOK
  <1> DEFINE new == {<<e, NextAttempt(e)>> : e \in batch}
  <1>1. /\ Tasks(w) = {}
        /\ Tasks(w)' = new
        /\ \A v \in Workers \ {w} : Tasks(v)' = Tasks(v) /\ waiting'[v] = waiting[v]
        /\ waiting'[w] = new
        /\ UNCHANGED <<pc, current, logged>>
    BY DEF ClaimDue, Tasks, TypeInv, TypeOK
  <1>2. \A e \in Events : /\ attempts[e] \in Nat
                          /\ attempts[e] <= attempts'[e]
                          /\ attempts'[e] \in Nat
                          /\ e \in batch => attempts'[e] = NextAttempt(e)
    BY NextAttemptType DEF TypeInv, TypeOK, ClaimDue
  <1>3. \A task \in new : /\ task[1] \in batch
                          /\ task[2] = attempts'[task[1]]
                          /\ task[2] \in 1 .. attempts'[task[1]]
                          /\ task[2] > attempts[task[1]]
    BY <1>0, <1>2, NextAttemptType DEF TypeInv
  <1>4. \A v \in Workers : \A task \in Tasks(v) :
            task[1] \in Events /\ task[2] \in Nat /\ task[2] <= attempts[task[1]]
    BY DEF TypeInv, Attempts, Tasks, NumbersInv, NumbersReached
  <1>5. \A l \in logged : l[1] \in Events /\ l[2] \in Nat /\ l[2] <= attempts[l[1]]
    BY DEF TypeInv, TypeOK, NumbersInv, NumbersReached
  <1>6. new \intersect logged = {} /\ \A v \in Workers : new \intersect Tasks(v) = {}
    BY <1>0, <1>2, <1>3, <1>4, <1>5
  <1>7. NumbersReached'
    <2>1. \A l \in logged' : l[2] <= attempts'[l[1]]
      BY <1>1, <1>2, <1>5
    <2>2. \A v \in Workers : \A task \in Tasks(v)' : task[2] <= attempts'[task[1]]
      BY <1>0, <1>1, <1>2, <1>3, <1>4
    <2> QED
      BY <2>1, <2>2 DEF NumbersReached
  <1>8. AttemptsApart'
    <2> SUFFICES ASSUME NEW v \in Workers
                 PROVE  /\ \A task \in Tasks(v)' : task[2] \in 1 .. attempts'[task[1]]
                        /\ \A u \in Workers \ {v} : Tasks(u)' \intersect Tasks(v)' = {}
                        /\ pc'[v] \in PreLog => current'[v] \notin logged'
                        /\ waiting'[v] \intersect logged' = {}
      BY DEF AttemptsApart, PreLog
    <2>1. \A task \in Tasks(v)' : task[2] \in 1 .. attempts'[task[1]]
      <3>1. \A task \in Tasks(v) : task[2] \in 1 .. attempts[task[1]]
        BY DEF NumbersInv, AttemptsApart
      <3> QED
        BY <1>1, <1>2, <1>3, <1>4, <3>1
    <2>2. \A u \in Workers \ {v} : Tasks(u)' \intersect Tasks(v)' = {}
      BY <1>1, <1>6 DEF NumbersInv, AttemptsApart
    <2>3. pc'[v] \in PreLog => current'[v] \notin logged'
      BY <1>1 DEF NumbersInv, AttemptsApart, PreLog
    <2>4. waiting'[v] \intersect logged' = {}
      BY <1>1, <1>6 DEF NumbersInv, AttemptsApart
    <2> QED
      BY <2>1, <2>2, <2>3, <2>4
  <1> QED
    BY <1>7, <1>8 DEF NumbersInv

LEMMA LogNumbersInv ==
    ASSUME TypeInv, NumbersInv, NEW w \in Workers, LogAttempt(w)
    PROVE  NumbersInv'
  <1>1. /\ pc[w] \in PreLog
        /\ logged' \subseteq logged \union {current[w]}
        /\ UNCHANGED <<attempts, waiting, current>>
        /\ pc'[w] \in {"mark_delivered", "mark_failed"}
        /\ \A v \in Workers \ {w} : pc'[v] = pc[v]
    BY DEF LogAttempt, Try, Goto, rowVars, PreLog, TypeInv, TypeOK
  <1>2. current[w] \in Tasks(w) /\ current[w] \in Attempts
    BY NoEventAssumption, <1>1 DEF TypeInv, TypeOK, PreLog, Steps, Tasks, Attempts, Nothing
  <1>3. \A v \in Workers : Tasks(v)' = Tasks(v) /\ waiting[v] \subseteq Tasks(v)
    BY <1>1 DEF Tasks
  <1>4. NumbersReached'
    BY <1>1, <1>2, <1>3 DEF NumbersInv, NumbersReached
  <1>5. AttemptsApart'
    <2> SUFFICES ASSUME NEW v \in Workers
                 PROVE  /\ pc'[v] \in PreLog => current'[v] \notin logged'
                        /\ waiting'[v] \intersect logged' = {}
      BY <1>1, <1>3 DEF NumbersInv, AttemptsApart, PreLog
    <2>1. CASE v = w
      BY <1>1, <2>1 DEF NumbersInv, AttemptsApart, PreLog, TypeInv
    <2>2. CASE v # w
      <3>1. current[w] \notin Tasks(v)
        BY <1>2, <2>2 DEF NumbersInv, AttemptsApart
      <3>2. pc[v] \in PreLog => current[v] \in Tasks(v)
        BY NoEventAssumption DEF TypeInv, TypeOK, PreLog, Steps, Tasks, Attempts, Nothing
      <3> QED
        BY <1>1, <1>3, <2>2, <3>1, <3>2 DEF NumbersInv, AttemptsApart, PreLog
    <2> QED
      BY <2>1, <2>2
  <1> QED
    BY <1>4, <1>5 DEF NumbersInv

LEMMA DeliverNumbersInv ==
    ASSUME TypeInv, NumbersInv, NEW w \in Workers, DeliverStep(w)
    PROVE  NumbersInv'
  <1> USE DEF TypeInv, TypeOK, Tasks, PreLog, Goto, Finish, rowVars, Nothing
  <1>1. CASE LogAttempt(w)
    BY <1>1, LogNumbersInv
  <1>2. CASE TakeNext(w)
    <2>1. PICK task \in waiting[w] : /\ current' = [current EXCEPT ![w] = task]
                                     /\ waiting' = [waiting EXCEPT ![w] = @ \ {task}]
      BY <1>2 DEF TakeNext
    <2> QED
      BY <1>2, <2>1, NumbersFrame DEF TakeNext
  <1>3. ASSUME NEW hasUrl \in BOOLEAN, LookupEndpoint(w, hasUrl)  PROVE NumbersInv'
    BY <1>3, NumbersFrame DEF LookupEndpoint
  <1>4. ASSUME NEW taken \in BOOLEAN, PostEvent(w, taken)  PROVE NumbersInv'
    BY <1>4, NumbersFrame DEF PostEvent, Outcomes
  <1>5. CASE MarkDelivered(w)
    BY <1>5, NumbersFrame DEF MarkDelivered, Try
  <1>6. CASE MarkFailed(w)
    BY <1>6, NumbersFrame DEF MarkFailed, Try
  <1> QED
    BY <1>1, <1>2, <1>3, <1>4, <1>5, <1>6 DEF DeliverStep

LEMMA StepNumbersInv == TypeInv /\ NumbersInv /\ [Next]_vars => NumbersInv'
  <1> SUFFICES ASSUME TypeInv, NumbersInv, [Next]_vars  PROVE NumbersInv'
    OBVIOUS
  <1>1. ASSUME NEW w \in Workers, NEW batch, ClaimDue(w, batch)  PROVE NumbersInv'
    BY <1>1, ClaimNumbersInv
  <1>2. ASSUME NEW w \in Workers, DeliverStep(w)  PROVE NumbersInv'
    BY <1>2, DeliverNumbersInv
  <1>3. ASSUME NEW w \in Workers, Stop(w)  PROVE NumbersInv'
    BY <1>3, NumbersFrame DEF Stop, TypeInv, TypeOK, Tasks, PreLog, Nothing, rowVars
  <1>4. ASSUME NEW e \in Events, Enqueue(e) \/ RetryNow(e) \/ BecomesDue(e)  PROVE NumbersInv'
    BY <1>4, NumbersFrame DEF Enqueue, RetryNow, BecomesDue, Tasks, workerVars
  <1>5. CASE UNCHANGED vars
    BY <1>5, NumbersFrame DEF vars, rowVars, workerVars, Tasks
  <1> QED
    BY <1>1, <1>2, <1>3, <1>4, <1>5 DEF Next

-----------------------------------------------------------------------------
(* Marks tell the truth. *)

MarksInv == AnsweredInv /\ DeliveredWasAccepted /\ ExhaustedWasTried

LEMMA StepMarksInv == TypeInv /\ NumbersInv /\ MarksInv /\ [Next]_vars => MarksInv'
  <1> SUFFICES ASSUME TypeInv, NumbersInv, MarksInv, [Next]_vars  PROVE MarksInv'
    OBVIOUS
  <1> USE DEF MarksInv, AnsweredInv, DeliveredWasAccepted, ExhaustedWasTried, TypeInv, TypeOK,
              Event, Goto, Finish, rowVars, workerVars
  <1>1. ASSUME NEW w \in Workers, NEW batch, ClaimDue(w, batch)  PROVE MarksInv'
    BY <1>1 DEF ClaimDue
  <1>2. ASSUME NEW w \in Workers, TakeNext(w)  PROVE MarksInv'
    BY <1>2 DEF TakeNext
  <1>3. ASSUME NEW w \in Workers, NEW hasUrl \in BOOLEAN, LookupEndpoint(w, hasUrl)
        PROVE  MarksInv'
    BY <1>3 DEF LookupEndpoint
  <1>4. ASSUME NEW w \in Workers, NEW taken \in BOOLEAN, PostEvent(w, taken)  PROVE MarksInv'
    BY <1>4 DEF PostEvent, Outcomes
  <1>5. ASSUME NEW w \in Workers, LogAttempt(w)  PROVE MarksInv'
    BY <1>5 DEF LogAttempt, Try
  <1>6. ASSUME NEW w \in Workers, MarkDelivered(w)  PROVE MarksInv'
    BY <1>6 DEF MarkDelivered, Try
  <1>7. ASSUME NEW w \in Workers, MarkFailed(w)  PROVE MarksInv'
    <2>1. /\ current[w] \in Tasks(w) /\ Event(w) \in Events /\ Number(w) \in Nat
          /\ attempts[Event(w)] \in Nat
      BY <1>7, NoEventAssumption DEF MarkFailed, Tasks, Attempts, Nothing, Number
    <2>2. Number(w) <= attempts[Event(w)]
      BY <2>1 DEF NumbersInv, NumbersReached, Number
    <2>3. IsLast(Number(w)) => attempts[Event(w)] >= MaxAttempts
      BY <2>1, <2>2, LimitsAssumption DEF IsLast
    <2> QED
      BY <1>7, <2>1, <2>3 DEF MarkFailed, Try
  <1>8. ASSUME NEW w \in Workers, Stop(w)  PROVE MarksInv'
    BY <1>8 DEF Stop
  <1>9. ASSUME NEW e \in Events, Enqueue(e) \/ RetryNow(e) \/ BecomesDue(e)  PROVE MarksInv'
    BY <1>9 DEF Enqueue, RetryNow, BecomesDue
  <1>10. CASE UNCHANGED vars
    BY <1>10 DEF vars
  <1> QED
    BY <1>1, <1>2, <1>3, <1>4, <1>5, <1>6, <1>7, <1>8, <1>9, <1>10 DEF Next, DeliverStep

-----------------------------------------------------------------------------
(* The types of all variables, for any number of events and workers.       *)
THEOREM TypeCorrect == Spec => []TypeOK
  <1>1. Init => TypeInv
    BY InitInv
  <1>2. TypeInv => TypeOK
    BY DEF TypeInv
  <1> QED
    BY <1>1, <1>2, StepTypeInv, PTL DEF Spec

(* No two deliveries of an event, finished or under way, share an attempt  *)
(* number, however leases run out and workers die.                         *)
THEOREM AttemptsKeepApart == Spec => []AttemptsApart
  <1>1. Init => TypeInv /\ NumbersInv
    BY InitInv DEF NumbersInv
  <1>2. NumbersInv => AttemptsApart
    BY DEF NumbersInv
  <1> QED
    BY <1>1, <1>2, StepTypeInv, StepNumbersInv, PTL DEF Spec

LEMMA MarksInvariant == Spec => []MarksInv
  <1>1. Init => TypeInv /\ NumbersInv /\ MarksInv
    BY InitInv DEF NumbersInv, MarksInv
  <1> QED
    BY <1>1, StepTypeInv, StepNumbersInv, StepMarksInv, PTL DEF Spec

(* Delivered events were accepted, although late workers overwrite each    *)
(* other's marks.                                                          *)
THEOREM DeliveredIsTrue == Spec => []DeliveredWasAccepted
  <1>1. MarksInv => DeliveredWasAccepted
    BY DEF MarksInv
  <1> QED
    BY <1>1, MarksInvariant, PTL

(* Exhausted events were tried to the limit, the attempts of dead workers  *)
(* included.                                                               *)
THEOREM ExhaustedIsTrue == Spec => []ExhaustedWasTried
  <1>1. MarksInv => ExhaustedWasTried
    BY DEF MarksInv
  <1> QED
    BY <1>1, MarksInvariant, PTL
=============================================================================
