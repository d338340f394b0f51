------------------------ MODULE PaymentSessionProofs ------------------------
(***************************************************************************)
(* Proofs about PaymentSession for any sets of sessions and of concurrent  *)
(* handlers; the last section adds the event streams, for any clients.     *)
(***************************************************************************)
EXTENDS SessionStream, TLAPS

(* A busy worker works on a session; the types alone are not inductive     *)
(* without it.                                                             *)
BusyOnSession == \A w \in Workers : pc[w] # "idle" => on[w] \in Sessions

(* A verdict carried to the compare-and-swap or to the ledger is one that  *)
(* the provider can give.                                                  *)
ArgFitsStep ==
    \A w \in Workers :
        /\ pc[w] = "resolve" => arg[w] \in {"completed", "failed", "returned", "reversed"}
        /\ pc[w] = "tell_change" =>
               arg[w] \in {"processing", "completed", "failed", "returned", "reversed"}

TypeInv == TypeOK /\ BusyOnSession /\ ArgFitsStep

-----------------------------------------------------------------------------
(* Every step preserves the types. *)

LEMMA InitTypeInv == Init => TypeInv
  BY NoSessionAssumption
  DEF Init, TypeInv, TypeOK, BusyOnSession, ArgFitsStep, Status, Steps

LEMMA BumpType ==
    ASSUME NEW D, NEW f \in [D -> Nat], NEW k
    PROVE  [f EXCEPT ![k] = @ + 1] \in [D -> Nat]
  <1>1. CASE k \notin D
    BY <1>1, Zenon
  <1>2. CASE k \in D
    <2>1. f[k] + 1 \in Nat
      <3>1. f[k] \in Nat
        BY <1>2
      <3> QED
        BY <3>1
    <2> QED
      BY <2>1, Zenon
  <1> QED
    BY <1>1, <1>2

LEMMA EnqueueType ==
    ASSUME TypeOK, NEW s, NEW event, Enqueue(s, event)
    PROVE  outbox' \in [Sessions \X Status -> Nat]
  <1>1. [outbox EXCEPT ![<<s, event>>] = @ + 1] \in [Sessions \X Status -> Nat]
    BY BumpType DEF TypeOK
  <1> QED
    BY <1>1 DEF Enqueue, TypeOK

(* What a compare-and-swap writes; stated apart because it is won or lost. *)
RowTypes ==
    /\ status \in [Sessions -> Status]
    /\ columnRef \in SUBSET Sessions
    /\ counterparty \in SUBSET Sessions
    /\ expired \in SUBSET Sessions
    /\ collected \in SUBSET Sessions

(* What a transfer request can come to.                                    *)
LEMMA AnswersAre ==
    ASSUME NEW created \in BOOLEAN, NEW answer \in Answers(created)
    PROVE  answer \in {"accepted", "refused", "unknown"} /\ (answer = "accepted" => created)
  BY DEF Answers, Replies, Providers, TransferVerdict, ModernTreasuryVerdict, ColumnVerdict

LEMMA ConfirmTypeInv ==
    ASSUME TypeInv, NEW w \in Workers, ConfirmNext(w)
    PROVE  TypeInv'
  <1> USE DEF TypeInv, TypeOK, BusyOnSession, ArgFitsStep, Status, Steps, Start, Goto, Finish,
              rowVars, bookVars, seenVars
  <1>1. ASSUME NEW s \in Sessions, ConfirmRead(w, s)  PROVE TypeInv'
    BY <1>1 DEF ConfirmRead
  <1>2. ASSUME NEW cleared \in BOOLEAN, Gate(w, cleared)  PROVE TypeInv'
    BY <1>2 DEF Gate
  <1>3. CASE ConfirmClaim(w)
    <2>1. RowTypes'
      BY <1>3 DEF ConfirmClaim, Transition, TransitionLost, RowTypes
    <2> QED
      BY <1>3, <2>1 DEF ConfirmClaim, RowTypes
  <1>4. ASSUME NEW ok \in BOOLEAN, CreateCounterparty(w, ok)  PROVE TypeInv'
    BY <1>4 DEF CreateCounterparty
  <1>5. CASE StoreCounterparty(w)
    BY <1>5 DEF StoreCounterparty
  <1>6. CASE ConfirmFail(w)
    <2>1. RowTypes'
      BY <1>6 DEF ConfirmFail, Transition, TransitionLost, RowTypes
    <2> QED
      BY <1>6, <2>1 DEF ConfirmFail, RowTypes
  <1>7. CASE TellAuthorized(w)
    BY <1>7, EnqueueType DEF TellAuthorized
  <1> QED
    BY <1>1, <1>2, <1>3, <1>4, <1>5, <1>6, <1>7 DEF ConfirmNext

LEMMA InitiateTypeInv ==
    ASSUME TypeInv, NEW w \in Workers, InitiateNext(w)
    PROVE  TypeInv'
  <1> USE DEF TypeInv, TypeOK, BusyOnSession, ArgFitsStep, Status, Steps, Start, Goto, Finish,
              rowVars, bookVars, seenVars
  <1>1. ASSUME NEW s \in Sessions, InitiateSessionRead(w, s)  PROVE TypeInv'
    BY <1>1 DEF InitiateSessionRead
  <1>2. ASSUME NEW s \in Sessions, InitiatePaymentRead(w, s)  PROVE TypeInv'
    BY <1>2 DEF InitiatePaymentRead
  <1>3. CASE InitiateClaim(w)
    <2>1. RowTypes'
      BY <1>3 DEF InitiateClaim, Transition, TransitionLost, RowTypes
    <2> QED
      BY <1>3, <2>1 DEF InitiateClaim, RowTypes
  <1>4. ASSUME NEW created \in BOOLEAN, InitiateTransfer(w, created)  PROVE TypeInv'
    <2>1. submitted' \in [Sessions -> Nat]
      BY <1>4, BumpType DEF InitiateTransfer
    <2>2. order' \in [Sessions -> SUBSET OrderStatus]
      BY <1>4 DEF InitiateTransfer, OrderStatus
    <2>3. PICK answer \in {"accepted", "refused", "unknown"} :
              IF answer = "unknown" THEN Finish(w) ELSE Goto(w, answer)
      BY <1>4, AnswersAre DEF InitiateTransfer
    <2> QED
      BY <1>4, <2>1, <2>2, <2>3 DEF InitiateTransfer
  <1>5. CASE InitiateComplete(w)
    <2>1. RowTypes'
      BY <1>5 DEF InitiateComplete, Transition, TransitionLost, RowTypes
    <2> QED
      BY <1>5, <2>1 DEF InitiateComplete, RowTypes
  <1>6. CASE InsertTransaction(w)
    BY <1>6 DEF InsertTransaction
  <1>7. CASE SettleInitiate(w)
    BY <1>7 DEF SettleInitiate, PostEntry, Entries
  <1>8. CASE TellCompleted(w)
    BY <1>8, EnqueueType DEF TellCompleted
  <1>9. CASE InitiateFail(w)
    <2>1. RowTypes'
      BY <1>9 DEF InitiateFail, Transition, TransitionLost, RowTypes
    <2> QED
      BY <1>9, <2>1 DEF InitiateFail, RowTypes
  <1> QED
    BY <1>1, <1>2, <1>3, <1>4, <1>5, <1>6, <1>7, <1>8, <1>9 DEF InitiateNext

LEMMA WebhookTypeInv ==
    ASSUME TypeInv, NEW w \in Workers, WebhookNext(w)
    PROVE  TypeInv'
  <1> USE DEF TypeInv, TypeOK, BusyOnSession, ArgFitsStep, Status, Steps, Start, Goto, Finish,
              rowVars, bookVars, seenVars
  <1>1. ASSUME NEW s \in Sessions, NEW st \in OrderStatus, ApplyWebhookStatus(w, s, st)
        PROVE TypeInv'
    BY <1>1 DEF ApplyWebhookStatus, MapStatus, Transition
  <1>2. CASE TellChange(w)
    BY <1>2, EnqueueType DEF TellChange, LedgerStep
  <1>3. CASE Settle(w)
    BY <1>3 DEF Settle, PostEntry, Entries
  <1>4. CASE Reverse(w)
    BY <1>4 DEF Reverse, PostEntry, Entries
  <1> QED
    BY <1>1, <1>2, <1>3, <1>4 DEF WebhookNext

LEMMA ReconcileTypeInv ==
    ASSUME TypeInv, NEW w \in Workers, ReconcileNext(w)
    PROVE  TypeInv'
  <1> USE DEF TypeInv, TypeOK, BusyOnSession, ArgFitsStep, Status, Steps, Start, Goto, Finish,
              rowVars, bookVars, seenVars
  <1>1. ASSUME NEW s \in Sessions, ReconcilePoll(w, s)  PROVE TypeInv'
    BY <1>1 DEF ReconcilePoll, MapProviderStatus, Reported
  <1>2. CASE ReconcileResolve(w)
    <2>1. RowTypes'
      BY <1>2 DEF ReconcileResolve, Transition, TransitionLost, RowTypes
    <2> QED
      BY <1>2, <2>1 DEF ReconcileResolve, RowTypes, LedgerStep
  <1> QED
    BY <1>1, <1>2 DEF ReconcileNext

LEMMA OtherTypeInv ==
    ASSUME TypeInv,
           EnvironmentNext \/ (\E w \in Workers : Stop(w)) \/ UNCHANGED vars
    PROVE  TypeInv'
  <1> USE DEF TypeInv, TypeOK, BusyOnSession, ArgFitsStep, rowVars, bookVars, workerVars, seenVars
  <1>1. CASE SetKyc
    BY <1>1 DEF SetKyc
  <1>2. ASSUME NEW s \in Sessions, Expire(s)  PROVE TypeInv'
    BY <1>2 DEF Expire
  <1>3. ASSUME NEW s \in Sessions, StrayOrder(s)  PROVE TypeInv'
    BY <1>3 DEF StrayOrder, OrderStatus
  <1>4. ASSUME NEW s \in Sessions, NEW st \in OrderStatus, OrderMoves(s, st)  PROVE TypeInv'
    BY <1>4 DEF OrderMoves
  <1>5. ASSUME NEW w \in Workers, Stop(w)  PROVE TypeInv'
    BY <1>5 DEF Stop, Finish, Start, Steps, Status
  <1>6. CASE UNCHANGED vars
    BY <1>6 DEF vars
  <1> QED
    BY <1>1, <1>2, <1>3, <1>4, <1>5, <1>6 DEF EnvironmentNext

LEMMA StepTypeInv == TypeInv /\ [Next]_vars => TypeInv'
  BY ConfirmTypeInv, InitiateTypeInv, WebhookTypeInv, ReconcileTypeInv, OtherTypeInv
  DEF Next

(* Whatever the number of sessions and of handlers in flight, every row,   *)
(* journal, queue and handler keeps its type, and a busy handler has a     *)
(* session.                                                                *)
THEOREM TypeCorrect == Spec => [](TypeOK /\ BusyOnSession /\ ArgFitsStep)
  <1>1. Spec => []TypeInv
    BY InitTypeInv, StepTypeInv, PTL DEF Spec
  <1> QED
    BY <1>1, PTL DEF TypeInv

-----------------------------------------------------------------------------
(* A session is sent to the provider at most once.  The invariant that is  *)
(* inductive: a handler about to send has left authorized behind it, is    *)
(* alone, and nothing was sent before; and once something was sent the     *)
(* session never is pending or authorized again, so no claim can succeed.  *)

Claimable == {"pending", "authorized"}

TransferInv ==
    /\ \A s \in Sessions :
           submitted[s] > 0 => submitted[s] = 1 /\ status[s] \notin Claimable
    /\ \A w \in Workers :
           pc[w] = "send" => submitted[on[w]] = 0 /\ status[on[w]] \notin Claimable
    /\ \A v, w \in Workers :
           pc[v] = "send" /\ pc[w] = "send" /\ on[v] = on[w] => v = w

(* A step that sends nothing, makes no worker a sender and moves no row    *)
(* back to a claimable status.                                             *)
SendsNothing ==
    /\ submitted' = submitted
    /\ \A s \in Sessions : status'[s] \in Claimable => status[s] \in Claimable
    /\ \A w \in Workers : pc'[w] = "send" => pc[w] = "send" /\ on'[w] = on[w]

LEMMA SendsNothingKeeps == TypeInv /\ TransferInv /\ SendsNothing => TransferInv'
  BY DEF TypeInv, BusyOnSession, TransferInv, SendsNothing

LEMMA ConfirmSendsNothing ==
    ASSUME TypeInv, NEW w \in Workers, ConfirmNext(w)
    PROVE  SendsNothing
  <1> USE DEF SendsNothing, Claimable, TypeInv, TypeOK, Start, Goto, Finish, rowVars, seenVars
  <1>1. ASSUME NEW s \in Sessions, ConfirmRead(w, s)  PROVE SendsNothing
    BY <1>1 DEF ConfirmRead
  <1>2. ASSUME NEW cleared \in BOOLEAN, Gate(w, cleared)  PROVE SendsNothing
    BY <1>2 DEF Gate
  <1>3. CASE ConfirmClaim(w)
    BY <1>3 DEF ConfirmClaim, ConfirmFrom, Transition, TransitionLost
  <1>4. ASSUME NEW ok \in BOOLEAN, CreateCounterparty(w, ok)  PROVE SendsNothing
    BY <1>4 DEF CreateCounterparty
  <1>5. CASE StoreCounterparty(w)
    BY <1>5 DEF StoreCounterparty
  <1>6. CASE ConfirmFail(w)
    BY <1>6 DEF ConfirmFail, Transition, TransitionLost
  <1>7. CASE TellAuthorized(w)
    BY <1>7 DEF TellAuthorized
  <1> QED
    BY <1>1, <1>2, <1>3, <1>4, <1>5, <1>6, <1>7 DEF ConfirmNext

LEMMA WebhookSendsNothing ==
    ASSUME TypeInv, NEW w \in Workers, WebhookNext(w)
    PROVE  SendsNothing
  <1> USE DEF SendsNothing, Claimable, TypeInv, TypeOK, Start, Goto, Finish, rowVars, seenVars
  <1>1. ASSUME NEW s \in Sessions, NEW st \in OrderStatus, ApplyWebhookStatus(w, s, st)
        PROVE SendsNothing
    BY <1>1 DEF ApplyWebhookStatus, MapStatus, Transition
  <1>2. CASE TellChange(w)
    BY <1>2 DEF TellChange, LedgerStep
  <1>3. CASE Settle(w)
    BY <1>3 DEF Settle
  <1>4. CASE Reverse(w)
    BY <1>4 DEF Reverse
  <1> QED
    BY <1>1, <1>2, <1>3, <1>4 DEF WebhookNext

LEMMA ReconcileSendsNothing ==
    ASSUME TypeInv, NEW w \in Workers, ReconcileNext(w)
    PROVE  SendsNothing
  <1> USE DEF SendsNothing, Claimable, TypeInv, TypeOK, Start, Goto, Finish, rowVars, seenVars
  <1>1. ASSUME NEW s \in Sessions, ReconcilePoll(w, s)  PROVE SendsNothing
    BY <1>1 DEF ReconcilePoll
  <1>2. CASE ReconcileResolve(w)
    BY <1>2 DEF ReconcileResolve, Transition, TransitionLost, LedgerStep, BusyOnSession,
                ArgFitsStep
  <1> QED
    BY <1>1, <1>2 DEF ReconcileNext

LEMMA OtherSendsNothing ==
    ASSUME TypeInv,
           EnvironmentNext \/ (\E w \in Workers : Stop(w)) \/ UNCHANGED vars
    PROVE  SendsNothing
  <1> USE DEF SendsNothing, TypeInv, TypeOK, rowVars, workerVars, seenVars
  <1>1. CASE SetKyc
    BY <1>1 DEF SetKyc
  <1>2. ASSUME NEW s \in Sessions, Expire(s)  PROVE SendsNothing
    BY <1>2 DEF Expire
  <1>3. ASSUME NEW s \in Sessions, StrayOrder(s)  PROVE SendsNothing
    BY <1>3 DEF StrayOrder
  <1>4. ASSUME NEW s \in Sessions, NEW st \in OrderStatus, OrderMoves(s, st)
        PROVE SendsNothing
    BY <1>4 DEF OrderMoves
  <1>5. ASSUME NEW w \in Workers, Stop(w)  PROVE SendsNothing
    BY <1>5 DEF Stop, Finish, Start
  <1>6. CASE UNCHANGED vars
    BY <1>6 DEF vars
  <1> QED
    BY <1>1, <1>2, <1>3, <1>4, <1>5, <1>6 DEF EnvironmentNext

(* The initiate route: the winner of the claim found the row authorized,   *)
(* so nothing was sent and nobody else is about to; it then sends once.    *)
LEMMA InitiateTransferInv ==
    ASSUME TypeInv, TransferInv, NEW w \in Workers, InitiateNext(w)
    PROVE  TransferInv'
  <1> USE DEF TypeInv, TypeOK, Start, Goto, Finish, rowVars, seenVars
  <1>1. ASSUME NEW s \in Sessions,
               InitiateSessionRead(w, s) \/ InitiatePaymentRead(w, s)
        PROVE TransferInv'
    <2>1. SendsNothing
      BY <1>1 DEF SendsNothing, InitiateSessionRead, InitiatePaymentRead
    <2> QED
      BY <2>1, SendsNothingKeeps
  <1>2. CASE InitiateClaim(w)
    <2>1. CASE TransitionLost(on[w], InitiateFrom) /\ Finish(w)
      <3>1. SendsNothing
        BY <1>2, <2>1 DEF SendsNothing, InitiateClaim, TransitionLost
      <3> QED
        BY <3>1, SendsNothingKeeps
    <2>2. CASE Transition(on[w], InitiateFrom, "processing", {}) /\ Goto(w, "send")
      <3>1. on[w] \in Sessions /\ status[on[w]] = "authorized" /\ submitted' = submitted
        BY <1>2, <2>2 DEF InitiateClaim, Transition, InitiateFrom, BusyOnSession
      <3>2. submitted[on[w]] = 0
        BY <3>1 DEF TransferInv, Claimable
      <3>3. \A v \in Workers : pc[v] = "send" => on[v] # on[w]
        BY <3>1 DEF TransferInv, Claimable
      <3>4. \A s \in Sessions : status'[s] = IF s = on[w] THEN "processing" ELSE status[s]
        BY <2>2, <3>1 DEF Transition
      <3>5. /\ on' = on
            /\ \A v \in Workers : pc'[v] = IF v = w THEN "send" ELSE pc[v]
        BY <2>2
      <3> QED
        BY <3>1, <3>2, <3>3, <3>4, <3>5 DEF TransferInv, Claimable, BusyOnSession
    <2> QED
      BY <1>2, <2>1, <2>2 DEF InitiateClaim
  <1>3. ASSUME NEW created \in BOOLEAN, InitiateTransfer(w, created)  PROVE TransferInv'
    <2>1. on[w] \in Sessions /\ pc[w] = "send" /\ status' = status
      BY <1>3 DEF InitiateTransfer, BusyOnSession
    <2>2. submitted[on[w]] = 0 /\ status[on[w]] \notin Claimable
      BY <2>1 DEF TransferInv
    <2>3. \A s \in Sessions : submitted'[s] = IF s = on[w] THEN 1 ELSE submitted[s]
      BY <1>3, <2>1, <2>2 DEF InitiateTransfer
    <2>4. \A v \in Workers : pc'[v] = "send" => pc[v] = "send" /\ v # w /\ on'[v] = on[v]
      BY <1>3, AnswersAre DEF InitiateTransfer
    <2>5. \A v \in Workers : pc'[v] = "send" => on[v] # on[w] /\ on[v] \in Sessions
      BY <2>1, <2>4 DEF TransferInv, BusyOnSession
    <2> QED
      BY <2>1, <2>2, <2>3, <2>4, <2>5 DEF TransferInv
  <1>4. CASE InitiateComplete(w) \/ InitiateFail(w)
    <2>1. SendsNothing
      BY <1>4 DEF SendsNothing, Claimable, InitiateComplete, InitiateFail, Transition,
                  TransitionLost
    <2> QED
      BY <2>1, SendsNothingKeeps
  <1>5. CASE InsertTransaction(w) \/ SettleInitiate(w) \/ TellCompleted(w)
    <2>1. SendsNothing
      BY <1>5 DEF SendsNothing, InsertTransaction, SettleInitiate, TellCompleted
    <2> QED
      BY <2>1, SendsNothingKeeps
  <1> QED
    BY <1>1, <1>2, <1>3, <1>4, <1>5 DEF InitiateNext

LEMMA StepTransferInv == TypeInv /\ TransferInv /\ [Next]_vars => TransferInv'
  BY SendsNothingKeeps, ConfirmSendsNothing, WebhookSendsNothing, ReconcileSendsNothing,
     OtherSendsNothing, InitiateTransferInv
  DEF Next

(* However many initiate calls race on a session or are retried, the       *)
(* provider is asked for one transfer.                                     *)
THEOREM TransfersOnce == Spec => []OneTransferPerSession
  <1>1. Init => TransferInv
    BY DEF Init, TransferInv
  <1>2. TypeInv /\ TransferInv => OneTransferPerSession
    <2> SUFFICES ASSUME TypeInv, TransferInv, NEW s \in Sessions
                 PROVE  submitted[s] <= 1
      BY DEF OneTransferPerSession
    <2>1. submitted[s] \in Nat /\ (submitted[s] > 0 => submitted[s] = 1)
      BY DEF TypeInv, TypeOK, TransferInv
    <2> QED
      BY <2>1
  <1> QED
    BY <1>1, <1>2, InitTypeInv, StepTypeInv, StepTransferInv, PTL DEF Spec

-----------------------------------------------------------------------------
(* Events and postings are duties that a handler takes on by moving the    *)
(* row and discharges later, if nothing stops it.                          *)

Duties == Status \union Entries \union {"transaction"}

(* What worker w is still to do for session s.                             *)
Owes(w, s, d) ==
    /\ on[w] = s
    /\ \/ pc[w] \in {"create_counterparty", "store_counterparty", "tell_authorized"}
          /\ d = "authorized"
       \/ pc[w] = "insert_transaction" /\ d \in {"transaction", "settlement", "completed"}
       \/ pc[w] = "settle_initiate" /\ d \in {"settlement", "completed"}
       \/ pc[w] = "tell_completed" /\ d = "completed"
       \/ /\ pc[w] = "tell_change"
          /\ \/ d = arg[w]
             \/ d = "settlement" /\ arg[w] = "completed"
             \/ d = "reversal" /\ arg[w] \in {"returned", "reversed"}
       \/ pc[w] = "settle" /\ d = "settlement"
       \/ pc[w] = "reverse" /\ d = "reversal"

Done(s, d) ==
    \/ d \in Status /\ outbox[<<s, d>>] # 0
    \/ d \in Entries /\ <<s, d>> \in journal
    \/ d = "transaction" /\ s \in transactions

(* The session has passed the point where the duty arises, for good.       *)
Passed(s, d) ==
    CASE d = "authorized" -> status[s] # "pending"
      [] d = "processing" -> status[s] \notin {"pending", "authorized"}
      [] d \in {"completed", "settlement", "transaction"} -> s \in collected
      [] d \in {"failed", "returned", "reversed"} -> status[s] = d
      [] d = "reversal" -> status[s] \in {"returned", "reversed"}
      [] OTHER -> FALSE

(* Nobody leaves returned, reversed or failed, and completed only to them. *)
CollectedInv ==
    \A s \in Sessions :
        /\ s \in collected => status[s] \in {"completed", "returned", "reversed"}
        /\ status[s] = "completed" => s \in collected

(* At most one worker has a duty, nobody once it is done, and never before *)
(* the session has passed the point where it arises.                       *)
DutyInv ==
    /\ CollectedInv
    /\ \A s \in Sessions, d \in Duties :
           /\ Done(s, d) => Passed(s, d)
           /\ \A w \in Workers :
                  Owes(w, s, d) => /\ Passed(s, d) /\ ~Done(s, d)
                                   /\ \A v \in Workers : Owes(v, s, d) => v = w
    /\ EventsOnce

(* The two kinds of step.  Worker w wins a compare-and-swap from one of    *)
(* the statuses that precede `to`, and with it the duties of `to`;         *)
Precede(to) == IF to = "authorized" THEN {"pending"} ELSE WebhookFrom(to)

DutiesOf(to) ==
    CASE to = "completed" -> {"completed", "settlement", "transaction"}
      [] to \in {"returned", "reversed"} -> {to, "reversal"}
      [] OTHER -> {to}

OthersRest(w) == \A v \in Workers \ {w} : pc'[v] = pc[v] /\ on'[v] = on[v] /\ arg'[v] = arg[v]

Wins(w) ==
    \E s \in Sessions, to \in Status :
        /\ status[s] \in Precede(to)
        /\ status' = [status EXCEPT ![s] = to]
        /\ collected' = IF to = "completed" THEN collected \union {s} ELSE collected
        /\ UNCHANGED bookVars
        /\ OthersRest(w)
        /\ \A x \in Sessions, d \in Duties : Owes(w, x, d)' => x = s /\ d \in DutiesOf(to)

(* or it leaves the row alone and may discharge one duty or drop some.     *)
Drops(w, s, d) == Owes(w, s, d) /\ ~Owes(w, s, d)'

Discharges(w) ==
    /\ UNCHANGED <<status, collected>>
    /\ OthersRest(w)
    /\ \A s \in Sessions, d \in Duties : Owes(w, s, d)' => Owes(w, s, d)
    /\ \/ UNCHANGED bookVars
       \/ \E s \in Sessions, d \in Status :
              /\ Drops(w, s, d)
              /\ outbox' = [outbox EXCEPT ![<<s, d>>] = @ + 1]
              /\ UNCHANGED <<transactions, journal>>
       \/ \E s \in Sessions, d \in Entries :
              /\ Drops(w, s, d)
              /\ journal' = journal \union {<<s, d>>}
              /\ UNCHANGED <<transactions, outbox>>
       \/ \E s \in Sessions :
              /\ Drops(w, s, "transaction")
              /\ transactions' = transactions \union {s}
              /\ UNCHANGED <<journal, outbox>>

LEMMA ConfirmDuties ==
    ASSUME TypeInv, NEW w \in Workers, ConfirmNext(w)
    PROVE  Wins(w) \/ Discharges(w)
  <1> USE DEF TypeInv, TypeOK, BusyOnSession, OthersRest, Owes, Start, Goto, Finish,
              rowVars, bookVars, seenVars
  <1>1. ASSUME NEW s \in Sessions, ConfirmRead(w, s)  PROVE Discharges(w)
    BY <1>1 DEF ConfirmRead, Discharges
  <1>2. ASSUME NEW cleared \in BOOLEAN, Gate(w, cleared)  PROVE Discharges(w)
    BY <1>2 DEF Gate, Discharges
  <1>3. CASE ConfirmClaim(w) /\ TransitionLost(on[w], ConfirmFrom) /\ Finish(w)
    BY <1>3 DEF ConfirmClaim, TransitionLost, Discharges
  <1>4. CASE /\ ConfirmClaim(w) /\ Transition(on[w], ConfirmFrom, "authorized", {})
             /\ Goto(w, "create_counterparty")
    <2>1. PICK s \in Sessions : s = on[w]
      BY <1>4 DEF ConfirmClaim
    <2>2. /\ status[s] \in Precede("authorized")
          /\ status' = [status EXCEPT ![s] = "authorized"]
          /\ UNCHANGED <<collected, bookVars>>
      BY <1>4, <2>1 DEF ConfirmClaim, Transition, ConfirmFrom, Precede
    <2>3. pc'[w] = "create_counterparty" /\ on'[w] = s /\ OthersRest(w)
      BY <1>4, <2>1
    <2>4. ASSUME NEW x \in Sessions, NEW d \in Duties, Owes(w, x, d)'
          PROVE  x = s /\ d \in DutiesOf("authorized")
      <3>1. x = s /\ d = "authorized"
        BY <2>3, <2>4
      <3>2. "authorized" \in DutiesOf("authorized")
        BY DEF DutiesOf
      <3> QED
        BY <3>1, <3>2
    <2>5. "authorized" \in Status
      BY DEF Status
    <2> QED
      BY <2>2, <2>3, <2>4, <2>5 DEF Wins
  <1>5. ASSUME NEW ok \in BOOLEAN, CreateCounterparty(w, ok)  PROVE Discharges(w)
    BY <1>5 DEF CreateCounterparty, Discharges
  <1>6. CASE StoreCounterparty(w)
    BY <1>6 DEF StoreCounterparty, Discharges
  <1>7. CASE ConfirmFail(w) /\ TransitionLost(on[w], {"authorized"})
    BY <1>7 DEF ConfirmFail, TransitionLost, Discharges
  <1>8. CASE ConfirmFail(w) /\ Transition(on[w], {"authorized"}, "failed", {})
    <2>1. on[w] \in Sessions /\ status[on[w]] \in Precede("failed")
      BY <1>8 DEF ConfirmFail, Transition, Precede, WebhookFrom
    <2> QED
      BY <1>8, <2>1 DEF ConfirmFail, Transition, Wins, Status
  <1>9. CASE TellAuthorized(w)
    <2>1. PICK s \in Sessions : s = on[w]
      BY <1>9 DEF TellAuthorized
    <2>2. Drops(w, s, "authorized") /\ "authorized" \in Status
      BY <1>9, <2>1 DEF TellAuthorized, Drops, Status
    <2>3. \/ UNCHANGED bookVars
          \/ /\ outbox' = [outbox EXCEPT ![<<s, "authorized">>] = @ + 1]
             /\ UNCHANGED <<transactions, journal>>
      BY <1>9, <2>1 DEF TellAuthorized, Enqueue
    <2>4. /\ UNCHANGED <<status, collected>>
          /\ OthersRest(w)
          /\ \A x \in Sessions, d \in Duties : Owes(w, x, d)' => Owes(w, x, d)
      BY <1>9 DEF TellAuthorized
    <2> QED
      BY <2>2, <2>3, <2>4, Zenon DEF Discharges
  <1> QED
    BY <1>1, <1>2, <1>3, <1>4, <1>5, <1>6, <1>7, <1>8, <1>9 DEF ConfirmNext, ConfirmClaim, ConfirmFail

LEMMA InitiateDuties ==
    ASSUME TypeInv, NEW w \in Workers, InitiateNext(w)
    PROVE  Wins(w) \/ Discharges(w)
  <1> USE DEF TypeInv, TypeOK, BusyOnSession, OthersRest, Owes, Start, Goto, Finish,
              rowVars, bookVars, seenVars
  <1>1. ASSUME NEW s \in Sessions, InitiateSessionRead(w, s) \/ InitiatePaymentRead(w, s)
        PROVE  Discharges(w)
    BY <1>1 DEF InitiateSessionRead, InitiatePaymentRead, Discharges
  <1>2. CASE InitiateClaim(w) /\ TransitionLost(on[w], InitiateFrom) /\ Finish(w)
    BY <1>2 DEF InitiateClaim, TransitionLost, Discharges
  <1>3. CASE /\ InitiateClaim(w) /\ Transition(on[w], InitiateFrom, "processing", {})
             /\ Goto(w, "send")
    <2>1. on[w] \in Sessions /\ status[on[w]] \in Precede("processing")
      BY <1>3 DEF InitiateClaim, Transition, InitiateFrom, Precede, WebhookFrom
    <2> QED
      BY <1>3, <2>1 DEF InitiateClaim, Transition, Wins, Status
  <1>4. ASSUME NEW created \in BOOLEAN, InitiateTransfer(w, created)  PROVE Discharges(w)
    <2>1. PICK answer \in Answers(created) :
              IF answer = "unknown" THEN Finish(w) ELSE Goto(w, answer)
      BY <1>4 DEF InitiateTransfer
    <2>2. answer \in {"accepted", "refused", "unknown"}
      BY AnswersAre
    <2> QED
      BY <1>4, <2>1, <2>2 DEF InitiateTransfer, Discharges
  <1>5. CASE InitiateComplete(w) /\ TransitionLost(on[w], {"processing"}) /\ Finish(w)
    BY <1>5 DEF InitiateComplete, TransitionLost, Discharges
  <1>6. CASE /\ InitiateComplete(w) /\ Transition(on[w], {"processing"}, "completed", {on[w]})
             /\ Goto(w, "insert_transaction")
    <2>1. PICK s \in Sessions : s = on[w]
      BY <1>6 DEF InitiateComplete
    <2>2. /\ status[s] \in Precede("completed")
          /\ status' = [status EXCEPT ![s] = "completed"]
          /\ collected' = collected \union {s}
          /\ UNCHANGED bookVars
      BY <1>6, <2>1 DEF InitiateComplete, Transition, Precede, WebhookFrom
    <2>3. pc'[w] = "insert_transaction" /\ on'[w] = s /\ OthersRest(w)
      BY <1>6, <2>1
    <2>4. ASSUME NEW x \in Sessions, NEW d \in Duties, Owes(w, x, d)'
          PROVE  x = s /\ d \in DutiesOf("completed")
      BY <2>3, <2>4 DEF DutiesOf
    <2>5. "completed" \in Status
      BY DEF Status
    <2> QED
      BY <2>2, <2>3, <2>4, <2>5 DEF Wins
  <1>7. CASE InsertTransaction(w)
    <2>1. PICK s \in Sessions : s = on[w]
      BY <1>7 DEF InsertTransaction
    <2>2. Drops(w, s, "transaction")
      BY <1>7, <2>1 DEF InsertTransaction, Drops
    <2>3. /\ transactions' = transactions \union {s}
          /\ UNCHANGED <<journal, outbox>>
          /\ UNCHANGED <<status, collected>>
          /\ OthersRest(w)
      BY <1>7, <2>1 DEF InsertTransaction
    <2>4. \A x \in Sessions, d \in Duties : Owes(w, x, d)' => Owes(w, x, d)
      BY <1>7 DEF InsertTransaction
    <2> QED
      BY <2>2, <2>3, <2>4, Zenon DEF Discharges
  <1>8. CASE SettleInitiate(w)
    <2>1. PICK s \in Sessions : s = on[w]
      BY <1>8 DEF SettleInitiate
    <2>2. Drops(w, s, "settlement") /\ "settlement" \in Entries
      BY <1>8, <2>1 DEF SettleInitiate, Drops, Entries
    <2>3. \/ UNCHANGED bookVars
          \/ /\ journal' = journal \union {<<s, "settlement">>}
             /\ UNCHANGED <<transactions, outbox>>
      BY <1>8, <2>1 DEF SettleInitiate, PostEntry
    <2>4. /\ UNCHANGED <<status, collected>>
          /\ OthersRest(w)
          /\ \A x \in Sessions, d \in Duties : Owes(w, x, d)' => Owes(w, x, d)
      BY <1>8 DEF SettleInitiate
    <2> QED
      BY <2>2, <2>3, <2>4, Zenon DEF Discharges
  <1>9. CASE TellCompleted(w)
    <2>1. PICK s \in Sessions : s = on[w]
      BY <1>9 DEF TellCompleted
    <2>2. Drops(w, s, "completed") /\ "completed" \in Status
      BY <1>9, <2>1 DEF TellCompleted, Drops, Status
    <2>3. \/ UNCHANGED bookVars
          \/ /\ outbox' = [outbox EXCEPT ![<<s, "completed">>] = @ + 1]
             /\ UNCHANGED <<transactions, journal>>
      BY <1>9, <2>1 DEF TellCompleted, Enqueue
    <2>4. /\ UNCHANGED <<status, collected>>
          /\ OthersRest(w)
          /\ \A x \in Sessions, d \in Duties : Owes(w, x, d)' => Owes(w, x, d)
      BY <1>9 DEF TellCompleted
    <2> QED
      BY <2>2, <2>3, <2>4, Zenon DEF Discharges
  <1>10. CASE InitiateFail(w) /\ TransitionLost(on[w], {"processing"})
    BY <1>10 DEF InitiateFail, TransitionLost, Discharges
  <1>11. CASE InitiateFail(w) /\ Transition(on[w], {"processing"}, "failed", {})
    <2>1. on[w] \in Sessions /\ status[on[w]] \in Precede("failed")
      BY <1>11 DEF InitiateFail, Transition, Precede, WebhookFrom
    <2> QED
      BY <1>11, <2>1 DEF InitiateFail, Transition, Wins, Status
  <1> QED
    BY <1>1, <1>2, <1>3, <1>4, <1>5, <1>6, <1>7, <1>8, <1>9, <1>10, <1>11
    DEF InitiateNext, InitiateClaim, InitiateComplete, InitiateFail

LEMMA WebhookDuties ==
    ASSUME TypeInv, NEW w \in Workers, WebhookNext(w)
    PROVE  Wins(w) \/ Discharges(w)
  <1> USE DEF TypeInv, TypeOK, BusyOnSession, ArgFitsStep, OthersRest, Owes, Start, Goto,
              Finish, rowVars, bookVars, seenVars
  <1>1. ASSUME NEW s \in Sessions, NEW st \in OrderStatus, ApplyWebhookStatus(w, s, st)
        PROVE  Wins(w)
    <2>1. PICK new \in MapStatus(st) :
              Transition(s, WebhookFrom(new), new, {s}) /\ Start(w, s, "tell_change", new)
      BY <1>1 DEF ApplyWebhookStatus
    <2>2. new \in {"processing", "completed", "failed", "returned", "reversed"}
      BY DEF MapStatus
    <2>3. /\ status[s] \in Precede(new)
          /\ status' = [status EXCEPT ![s] = new]
          /\ collected' = IF new = "completed" THEN collected \union {s} ELSE collected
          /\ UNCHANGED bookVars
      BY <1>1, <2>1, <2>2 DEF ApplyWebhookStatus, Transition, Precede
    <2>4. pc'[w] = "tell_change" /\ on'[w] = s /\ arg'[w] = new /\ OthersRest(w)
      BY <2>1
    <2>5. ASSUME NEW x \in Sessions, NEW d \in Duties, Owes(w, x, d)'
          PROVE  x = s /\ d \in DutiesOf(new)
      BY <2>2, <2>4, <2>5 DEF DutiesOf
    <2>6. new \in Status
      BY <2>2 DEF Status
    <2> QED
      BY <2>3, <2>4, <2>5, <2>6 DEF Wins
  <1>2. CASE TellChange(w)
    <2>1. PICK s \in Sessions : s = on[w]
      BY <1>2 DEF TellChange
    <2>2. PICK event \in Status : event = arg[w]
      BY <1>2 DEF TellChange
    <2>3. event \in {"processing", "completed", "failed", "returned", "reversed"}
      BY <1>2, <2>2 DEF TellChange
    <2>4. Drops(w, s, event)
      BY <1>2, <2>1, <2>2, <2>3 DEF TellChange, LedgerStep, Drops
    <2>5. \/ UNCHANGED bookVars
          \/ /\ outbox' = [outbox EXCEPT ![<<s, event>>] = @ + 1]
             /\ UNCHANGED <<transactions, journal>>
      BY <1>2, <2>1, <2>2 DEF TellChange, Enqueue
    <2>6. /\ UNCHANGED <<status, collected>>
          /\ OthersRest(w)
      BY <1>2 DEF TellChange
    <2>7. \A x \in Sessions, d \in Duties : Owes(w, x, d)' => Owes(w, x, d)
      BY <1>2 DEF TellChange, LedgerStep
    <2> QED
      BY <2>4, <2>5, <2>6, <2>7, Zenon DEF Discharges
  <1>3. CASE Settle(w)
    <2>1. PICK s \in Sessions : s = on[w]
      BY <1>3 DEF Settle
    <2>2. Drops(w, s, "settlement") /\ "settlement" \in Entries
      BY <1>3, <2>1 DEF Settle, Drops, Entries
    <2>3. \/ UNCHANGED bookVars
          \/ /\ journal' = journal \union {<<s, "settlement">>}
             /\ UNCHANGED <<transactions, outbox>>
      BY <1>3, <2>1 DEF Settle, PostEntry
    <2>4. /\ UNCHANGED <<status, collected>>
          /\ OthersRest(w)
          /\ \A x \in Sessions, d \in Duties : Owes(w, x, d)' => Owes(w, x, d)
      BY <1>3 DEF Settle
    <2> QED
      BY <2>2, <2>3, <2>4, Zenon DEF Discharges
  <1>4. CASE Reverse(w)
    <2>1. PICK s \in Sessions : s = on[w]
      BY <1>4 DEF Reverse
    <2>2. Drops(w, s, "reversal") /\ "reversal" \in Entries
      BY <1>4, <2>1 DEF Reverse, Drops, Entries
    <2>3. \/ UNCHANGED bookVars
          \/ /\ journal' = journal \union {<<s, "reversal">>}
             /\ UNCHANGED <<transactions, outbox>>
      BY <1>4, <2>1 DEF Reverse, PostEntry
    <2>4. /\ UNCHANGED <<status, collected>>
          /\ OthersRest(w)
          /\ \A x \in Sessions, d \in Duties : Owes(w, x, d)' => Owes(w, x, d)
      BY <1>4 DEF Reverse
    <2> QED
      BY <2>2, <2>3, <2>4, Zenon DEF Discharges
  <1> QED
    BY <1>1, <1>2, <1>3, <1>4 DEF WebhookNext

LEMMA ReconcileDuties ==
    ASSUME TypeInv, NEW w \in Workers, ReconcileNext(w) \/ Stop(w)
    PROVE  Wins(w) \/ Discharges(w)
  <1> USE DEF TypeInv, TypeOK, BusyOnSession, ArgFitsStep, OthersRest, Owes, Start, Goto,
              Finish, rowVars, bookVars, seenVars
  <1>1. ASSUME NEW s \in Sessions, ReconcilePoll(w, s)  PROVE Discharges(w)
    BY <1>1 DEF ReconcilePoll, Discharges
  <1>2. CASE ReconcileResolve(w) /\ TransitionLost(on[w], {"processing"}) /\ Finish(w)
    BY <1>2 DEF ReconcileResolve, TransitionLost, Discharges
  <1>3. CASE /\ ReconcileResolve(w)
             /\ Transition(on[w], {"processing"}, arg[w],
                           IF arg[w] = "failed" THEN {} ELSE {on[w]})
             /\ IF LedgerStep(arg[w]) = "idle"
                THEN Finish(w)
                ELSE Goto(w, LedgerStep(arg[w]))
    <2>1. PICK s \in Sessions : s = on[w]
      BY <1>3 DEF ReconcileResolve
    <2>2. PICK new \in Status : new = arg[w]
      BY <1>3 DEF ReconcileResolve
    <2>3. new \in {"completed", "failed", "returned", "reversed"}
      BY <1>3, <2>2 DEF ReconcileResolve
    <2>4. /\ status[s] \in Precede(new)
          /\ status' = [status EXCEPT ![s] = new]
          /\ collected' = IF new = "completed" THEN collected \union {s} ELSE collected
          /\ UNCHANGED bookVars
      BY <1>3, <2>1, <2>2, <2>3 DEF ReconcileResolve, Transition, Precede, WebhookFrom
    <2>5. OthersRest(w)
      BY <1>3
    <2>6. ASSUME NEW x \in Sessions, NEW d \in Duties, Owes(w, x, d)'
          PROVE  x = s /\ d \in DutiesOf(new)
      <3>1. \/ pc'[w] = "idle"
            \/ pc'[w] = "settle" /\ on'[w] = s /\ new = "completed"
            \/ pc'[w] = "reverse" /\ on'[w] = s /\ new \in {"returned", "reversed"}
        BY <1>3, <2>1, <2>2, <2>3 DEF LedgerStep
      <3> QED
        BY <3>1, <2>6 DEF DutiesOf
    <2> QED
      BY <2>4, <2>5, <2>6 DEF Wins
  <1>4. CASE Stop(w)
    BY <1>4 DEF Stop, Discharges
  <1> QED
    BY <1>1, <1>2, <1>3, <1>4 DEF ReconcileNext, ReconcileResolve

(* A move never takes back what a session has passed, and the duties that  *)
(* come with it arise by it.                                               *)
LEMMA MovesPass ==
    ASSUME TypeOK, CollectedInv, NEW s \in Sessions, NEW to \in Status,
           status[s] \in Precede(to),
           status' = [status EXCEPT ![s] = to],
           collected' = IF to = "completed" THEN collected \union {s} ELSE collected
    PROVE  /\ CollectedInv'
           /\ \A x \in Sessions, d \in Duties : Passed(x, d) => Passed(x, d)'
           /\ \A d \in DutiesOf(to) : ~Passed(s, d) /\ Passed(s, d)'
  <1>1. \/ to = "authorized" /\ status[s] = "pending"
        \/ to = "processing" /\ status[s] \in {"pending", "authorized"}
        \/ to \in {"completed", "failed"} /\ status[s] \in {"pending", "authorized", "processing"}
        \/ to \in {"returned", "reversed"} /\ status[s] \in {"completed", "processing"}
    BY DEF Precede, WebhookFrom, Status
  <1>2. status'[s] = to /\ \A x \in Sessions \ {s} : status'[x] = status[x]
    BY DEF TypeOK
  <1>3. CollectedInv'
    BY <1>1, <1>2 DEF CollectedInv, TypeOK
  <1>4. ASSUME NEW x \in Sessions, NEW d \in Duties, Passed(x, d)  PROVE Passed(x, d)'
    <2>1. CASE x = s
      BY <1>1, <1>2, <1>4, <2>1 DEF Passed, CollectedInv
    <2>2. CASE x # s
      BY <1>2, <1>4, <2>2 DEF Passed
    <2> QED
      BY <2>1, <2>2
  <1>5. ASSUME NEW d \in DutiesOf(to)  PROVE ~Passed(s, d) /\ Passed(s, d)'
    <2>1. CASE to \in {"authorized", "processing", "failed"}
      BY <1>1, <1>2, <2>1 DEF DutiesOf, Passed
    <2>2. CASE to = "completed"
      BY <1>1, <1>2, <2>2 DEF DutiesOf, Passed, CollectedInv
    <2>3. CASE to \in {"returned", "reversed"}
      BY <1>1, <1>2, <2>3 DEF DutiesOf, Passed
    <2> QED
      BY <1>1, <2>1, <2>2, <2>3
  <1> QED
    BY <1>3, <1>4, <1>5

LEMMA WinsKeepsDuties ==
    ASSUME TypeOK, DutyInv, NEW w \in Workers, Wins(w)
    PROVE  DutyInv'
  <1>1. PICK s \in Sessions, to \in Status :
            /\ status[s] \in Precede(to)
            /\ status' = [status EXCEPT ![s] = to]
            /\ collected' = IF to = "completed" THEN collected \union {s} ELSE collected
            /\ UNCHANGED bookVars
            /\ OthersRest(w)
            /\ \A x \in Sessions, d \in Duties : Owes(w, x, d)' => x = s /\ d \in DutiesOf(to)
    BY DEF Wins
  <1>2. /\ CollectedInv'
        /\ \A x \in Sessions, d \in Duties : Passed(x, d) => Passed(x, d)'
        /\ \A d \in DutiesOf(to) : ~Passed(s, d) /\ Passed(s, d)'
    BY <1>1, MovesPass DEF DutyInv
  <1>3. EventsOnce' /\ \A x \in Sessions, d \in Duties : Done(x, d)' <=> Done(x, d)
    BY <1>1 DEF Done, bookVars, DutyInv, EventsOnce
  <1>4. \A v \in Workers \ {w}, x \in Sessions, d \in Duties : Owes(v, x, d)' <=> Owes(v, x, d)
    BY <1>1 DEF OthersRest, Owes
  <1>5. ASSUME NEW x \in Sessions, NEW d \in Duties, Done(x, d)'  PROVE Passed(x, d)'
    BY <1>2, <1>3, <1>5 DEF DutyInv
  <1>6. ASSUME NEW x \in Sessions, NEW d \in Duties, NEW v \in Workers, Owes(v, x, d)'
        PROVE  /\ Passed(x, d)' /\ ~Done(x, d)'
               /\ \A u \in Workers : Owes(u, x, d)' => u = v
    <2>1. CASE v = w
      <3>1. ~Passed(x, d) /\ Passed(x, d)'
        BY <1>1, <1>2, <1>6, <2>1
      <3>2. ~Done(x, d) /\ \A u \in Workers : ~Owes(u, x, d)
        BY <3>1 DEF DutyInv
      <3> QED
        BY <1>3, <1>4, <2>1, <3>1, <3>2
    <2>2. CASE v # w
      <3>1. Owes(v, x, d)
        BY <1>4, <1>6, <2>2
      <3>2. Passed(x, d) /\ ~Done(x, d) /\ \A u \in Workers : Owes(u, x, d) => u = v
        BY <3>1 DEF DutyInv
      <3>3. ~Owes(w, x, d)'
        BY <1>1, <1>2, <3>2
      <3> QED
        BY <1>2, <1>3, <1>4, <3>2, <3>3
    <2> QED
      BY <2>1, <2>2
  <1> QED
    BY <1>2, <1>3, <1>5, <1>6 DEF DutyInv

LEMMA DischargesKeepsDuties ==
    ASSUME TypeOK, DutyInv, NEW w \in Workers, Discharges(w)
    PROVE  DutyInv'
  <1>1. /\ UNCHANGED <<status, collected>>
        /\ OthersRest(w)
        /\ \A s \in Sessions, d \in Duties : Owes(w, s, d)' => Owes(w, s, d)
    BY DEF Discharges
  <1>2. CollectedInv' /\ \A x \in Sessions, d \in Duties : Passed(x, d)' <=> Passed(x, d)
    BY <1>1 DEF CollectedInv, Passed, DutyInv
  <1>3. \A v \in Workers, x \in Sessions, d \in Duties : Owes(v, x, d)' => Owes(v, x, d)
    BY <1>1 DEF OthersRest, Owes
  <1>4. /\ EventsOnce'
        /\ \A x \in Sessions, d \in Duties :
               Done(x, d)' => Done(x, d) \/ Drops(w, x, d)
    <2>1. CASE UNCHANGED bookVars
      BY <2>1 DEF bookVars, Done, DutyInv, EventsOnce
    <2>2. ASSUME NEW s \in Sessions, NEW e \in Status, Drops(w, s, e),
                 outbox' = [outbox EXCEPT ![<<s, e>>] = @ + 1],
                 UNCHANGED <<transactions, journal>>
          PROVE  /\ EventsOnce'
                 /\ \A x \in Sessions, d \in Duties :
                        Done(x, d)' => Done(x, d) \/ Drops(w, x, d)
      <3>1. outbox[<<s, e>>] = 0
        BY <2>2 DEF Drops, DutyInv, Done, Duties
      <3>2. outbox \in [Sessions \X Status -> Nat] /\ EventsOnce
        BY DEF TypeOK, DutyInv
      <3>3. EventsOnce'
        BY <2>2, <3>1, <3>2 DEF EventsOnce
      <3>4. \A x \in Sessions, d \in Status : outbox'[<<x, d>>] = outbox[<<x, d>>] \/ (x = s /\ d = e)
        BY <2>2, <3>2
      <3> QED
        BY <2>2, <3>3, <3>4 DEF Done
    <2>3. ASSUME NEW s \in Sessions, NEW e \in Entries, Drops(w, s, e),
                 journal' = journal \union {<<s, e>>},
                 UNCHANGED <<transactions, outbox>>
          PROVE  /\ EventsOnce'
                 /\ \A x \in Sessions, d \in Duties :
                        Done(x, d)' => Done(x, d) \/ Drops(w, x, d)
      BY <2>3 DEF Done, DutyInv, EventsOnce
    <2>4. ASSUME NEW s \in Sessions, Drops(w, s, "transaction"),
                 transactions' = transactions \union {s},
                 UNCHANGED <<journal, outbox>>
          PROVE  /\ EventsOnce'
                 /\ \A x \in Sessions, d \in Duties :
                        Done(x, d)' => Done(x, d) \/ Drops(w, x, d)
      BY <2>4 DEF Done, DutyInv, EventsOnce
    <2> QED
      BY <2>1, <2>2, <2>3, <2>4 DEF Discharges
  <1>5. ASSUME NEW x \in Sessions, NEW d \in Duties, Done(x, d)'  PROVE Passed(x, d)'
    BY <1>2, <1>4, <1>5 DEF DutyInv, Drops
  <1>6. ASSUME NEW x \in Sessions, NEW d \in Duties, NEW v \in Workers, Owes(v, x, d)'
        PROVE  /\ Passed(x, d)' /\ ~Done(x, d)'
               /\ \A u \in Workers : Owes(u, x, d)' => u = v
    <2>1. Owes(v, x, d)
      BY <1>3, <1>6
    <2>2. Passed(x, d) /\ ~Done(x, d) /\ \A u \in Workers : Owes(u, x, d) => u = v
      BY <2>1 DEF DutyInv
    <2>3. ~Drops(w, x, d)
      BY <1>6, <2>1, <2>2 DEF Drops
    <2> QED
      BY <1>2, <1>3, <1>4, <2>2, <2>3
  <1> QED
    BY <1>2, <1>4, <1>5, <1>6 DEF DutyInv

(* The environment moves no session and does no duty. *)
Aloof == UNCHANGED <<status, collected, bookVars, pc, on, arg>>

LEMMA StepWinsOrDischarges ==
    ASSUME TypeInv, [Next]_vars
    PROVE  Aloof \/ \E w \in Workers : Wins(w) \/ Discharges(w)
  <1>1. ASSUME NEW w \in Workers,
               ConfirmNext(w) \/ InitiateNext(w) \/ WebhookNext(w) \/ ReconcileNext(w) \/ Stop(w)
        PROVE  Wins(w) \/ Discharges(w)
    BY <1>1, ConfirmDuties, InitiateDuties, WebhookDuties, ReconcileDuties
  <1>2. CASE EnvironmentNext \/ UNCHANGED vars
    BY <1>2 DEF EnvironmentNext, SetKyc, Expire, OrderMoves, StrayOrder, Aloof,
                vars, rowVars, bookVars, workerVars, seenVars
  <1> QED
    BY <1>1, <1>2 DEF Next

LEMMA AloofKeepsDuties == DutyInv /\ Aloof => DutyInv'
  BY DEF DutyInv, CollectedInv, EventsOnce, Passed, Done, Owes, Aloof, bookVars

LEMMA StepDutyInv == TypeInv /\ DutyInv /\ [Next]_vars => DutyInv'
  BY StepWinsOrDischarges, WinsKeepsDuties, DischargesKeepsDuties, AloofKeepsDuties DEF TypeInv

LEMMA InitDutyInv == Init => DutyInv
  BY DEF Init, DutyInv, CollectedInv, EventsOnce, Done, Owes

LEMMA DutyInvariant == Spec => [](TypeInv /\ DutyInv)
  BY InitTypeInv, StepTypeInv, InitDutyInv, StepDutyInv, PTL DEF Spec

(* Webhook, poller and initiate never meet at the ledger.                  *)
THEOREM NoDoublePosting == Spec => []NoDoublePost
  <1>1. ASSUME DutyInv  PROVE NoDoublePost
    <2> SUFFICES ASSUME NEW s \in Sessions, NEW w \in Workers
                 PROVE  /\ OwesSettlement(w, s) =>
                               /\ <<s, "settlement">> \notin journal
                               /\ \A v \in Workers : OwesSettlement(v, s) => v = w
                        /\ OwesReversal(w, s) =>
                               /\ <<s, "reversal">> \notin journal
                               /\ \A v \in Workers : OwesReversal(v, s) => v = w
                        /\ on[w] = s /\ pc[w] = "insert_transaction" => s \notin transactions
      BY DEF NoDoublePost
    <2>1. /\ {"settlement", "reversal", "transaction"} \subseteq Duties
          /\ \A v \in Workers : OwesSettlement(v, s) => Owes(v, s, "settlement")
          /\ \A v \in Workers : OwesReversal(v, s) => Owes(v, s, "reversal")
          /\ on[w] = s /\ pc[w] = "insert_transaction" => Owes(w, s, "transaction")
      BY DEF OwesSettlement, OwesReversal, Owes, Duties, Entries
    <2>2. /\ <<s, "settlement">> \in journal => Done(s, "settlement")
          /\ <<s, "reversal">> \in journal => Done(s, "reversal")
          /\ s \in transactions => Done(s, "transaction")
      BY DEF Done, Entries
    <2> QED
      BY <1>1, <2>1, <2>2 DEF DutyInv
  <1> QED
    BY <1>1, DutyInvariant, PTL

(* A merchant hears of each status of a session at most once.              *)
THEOREM NoEventTwice == Spec => []EventsOnce
  <1>1. DutyInv => EventsOnce
    BY DEF DutyInv
  <1> QED
    BY <1>1, DutyInvariant, PTL

-----------------------------------------------------------------------------
(* The handlers implement PaymentContract: winning a compare-and-swap is a *)
(* move of the contract or none, discharging a duty is a posting or none.  *)

Phase == [s \in Sessions |-> PhaseOf(s)]

ContractStep == Contract!Next \/ UNCHANGED <<Phase, journal>>

LEMMA WinsIsMove ==
    ASSUME TypeOK, DutyInv, NEW w \in Workers, Wins(w)
    PROVE  ContractStep
  <1>1. PICK s \in Sessions, to \in Status :
            /\ status[s] \in Precede(to)
            /\ status' = [status EXCEPT ![s] = to]
            /\ collected' = IF to = "completed" THEN collected \union {s} ELSE collected
            /\ UNCHANGED bookVars
    BY DEF Wins
  <1>2. journal' = journal /\ status'[s] = to /\ \A x \in Sessions \ {s} : status'[x] = status[x]
    BY <1>1 DEF bookVars, TypeOK
  <1>3. \A x \in Sessions \ {s} : PhaseOf(x)' = PhaseOf(x)
    BY <1>1, <1>2 DEF PhaseOf
  <1>4. Phase' = [Phase EXCEPT ![s] = PhaseOf(s)']
    BY <1>3 DEF Phase
  <1>5. Phase[s] = PhaseOf(s)
    BY DEF Phase
  <1>6. CASE to = "authorized"
    <2>1. PhaseOf(s)' = PhaseOf(s)
      BY <1>1, <1>2, <1>6 DEF PhaseOf, Precede
    <2> QED
      BY <1>2, <1>4, <1>5, <2>1 DEF ContractStep, Phase
  <1>7. CASE to = "processing"
    <2>1. PhaseOf(s) = "open" /\ PhaseOf(s)' = "in_flight"
      BY <1>1, <1>2, <1>7 DEF PhaseOf, Precede, WebhookFrom
    <2>2. Contract!Submit(s)
      BY <1>2, <1>4, <1>5, <2>1 DEF Contract!Submit, Contract!Move, Phase
    <2> QED
      BY <2>2 DEF ContractStep, Contract!Next
  <1>8. CASE to = "completed"
    <2>1. PhaseOf(s) \in {"open", "in_flight"} /\ PhaseOf(s)' = "collected"
      BY <1>1, <1>2, <1>8 DEF PhaseOf, Precede, WebhookFrom
    <2>2. Contract!Collect(s)
      BY <1>2, <1>4, <1>5, <2>1 DEF Contract!Collect, Contract!Move, Phase
    <2> QED
      BY <2>2 DEF ContractStep, Contract!Next
  <1>9. CASE to = "failed"
    <2>1. PhaseOf(s) \in {"open", "in_flight"} /\ PhaseOf(s)' = "dead"
      BY <1>1, <1>2, <1>9 DEF PhaseOf, Precede, WebhookFrom
    <2>2. Contract!Die(s)
      BY <1>2, <1>4, <1>5, <2>1 DEF Contract!Die, Contract!Move, Phase
    <2> QED
      BY <2>2 DEF ContractStep, Contract!Next
  <1>10. CASE to \in {"returned", "reversed"}
    <2>1. \/ PhaseOf(s) = "collected" /\ PhaseOf(s)' = "clawed_back"
          \/ PhaseOf(s) = "in_flight" /\ PhaseOf(s)' = "bounced"
      BY <1>1, <1>2, <1>10 DEF PhaseOf, Precede, WebhookFrom, DutyInv, CollectedInv
    <2>2. Contract!ClawBack(s) \/ Contract!Bounce(s)
      BY <1>2, <1>4, <1>5, <2>1 DEF Contract!ClawBack, Contract!Bounce, Contract!Move, Phase
    <2> QED
      BY <2>2 DEF ContractStep, Contract!Next
  <1>11. CASE to \in {"pending", "expired"}
    BY <1>1, <1>11 DEF Precede, WebhookFrom
  <1> QED
    BY <1>6, <1>7, <1>8, <1>9, <1>10, <1>11 DEF Status

LEMMA DischargesIsPosting ==
    ASSUME TypeOK, DutyInv, NEW w \in Workers, Discharges(w)
    PROVE  ContractStep
  <1>1. Phase' = Phase
    BY DEF Discharges, Phase, PhaseOf
  <1>2. CASE journal' = journal
    BY <1>1, <1>2 DEF ContractStep
  <1>3. ASSUME NEW s \in Sessions, NEW e \in Entries, Drops(w, s, e),
               journal' = journal \union {<<s, e>>}
        PROVE  ContractStep
    <2>1. Passed(s, e) /\ <<s, e>> \notin journal
      BY <1>3 DEF Drops, DutyInv, Done, Duties
    <2>2. CASE e = "settlement"
      <3>1. Phase[s] \in {"collected", "clawed_back"}
        BY <2>1, <2>2 DEF Passed, Phase, PhaseOf, DutyInv, CollectedInv
      <3>2. Contract!PostSettlement(s)
        BY <1>1, <1>3, <2>1, <2>2, <3>1 DEF Contract!PostSettlement, Contract!Post, Phase
      <3> QED
        BY <3>2 DEF ContractStep, Contract!Next
    <2>3. CASE e = "reversal"
      <3>1. Phase[s] \in {"clawed_back", "bounced"}
        BY <2>1, <2>3 DEF Passed, Phase, PhaseOf
      <3>2. Contract!PostReversal(s)
        BY <1>1, <1>3, <2>1, <2>3, <3>1 DEF Contract!PostReversal, Contract!Post, Phase
      <3> QED
        BY <3>2 DEF ContractStep, Contract!Next
    <2> QED
      BY <2>2, <2>3 DEF Entries
  <1> QED
    BY <1>2, <1>3 DEF Discharges, bookVars

(* Statuses only move forward, each journal entry is posted once and only  *)
(* after the session earned it.                                            *)
THEOREM ImplementsContract == Spec => ContractHolds
  <1>1. Init => Contract!Init
    BY DEF Init, Contract!Init, PhaseOf
  <1>2. ASSUME TypeInv, DutyInv, [Next]_vars
        PROVE  [Contract!Next]_(Contract!contractVars)
    <2>1. ContractStep
      <3>1. CASE Aloof
        BY <3>1 DEF Aloof, bookVars, ContractStep, Phase, PhaseOf
      <3> QED
        BY <1>2, <3>1, StepWinsOrDischarges, WinsIsMove, DischargesIsPosting DEF TypeInv
    <2> QED
      BY <2>1 DEF ContractStep, Contract!contractVars, Phase
  <1> QED
    BY <1>1, <1>2, DutyInvariant, PTL DEF Spec, ContractHolds, Contract!Spec

-----------------------------------------------------------------------------
(* Money is only taken with an order at the provider behind it.            *)

Taken == {"completed", "returned", "reversed"}

OrderInv ==
    /\ CollectedHasOrder
    /\ \A w \in Workers : pc[w] \in {"accepted", "resolve"} => order[on[w]] # {}

(* A step that gives no session or worker the appearance of an order. *)
OrderGrounded ==
    /\ \A s \in Sessions :
           /\ order[s] # {} => order'[s] # {}
           /\ status'[s] \in Taken => status[s] \in Taken \/ order[s] # {}
    /\ \A w \in Workers :
           pc'[w] \in {"accepted", "resolve"} =>
               \/ pc'[w] = pc[w] /\ on'[w] = on[w]
               \/ order'[on'[w]] # {}

LEMMA GroundedKeepsOrders == TypeInv /\ OrderInv /\ OrderGrounded => OrderInv'
  BY DEF TypeInv, BusyOnSession, OrderInv, OrderGrounded, CollectedHasOrder, Taken

LEMMA ConfirmGrounded ==
    ASSUME TypeInv, NEW w \in Workers, ConfirmNext(w)
    PROVE  OrderGrounded
  <1> USE DEF TypeInv, TypeOK, BusyOnSession, OrderGrounded, Taken, Start, Goto, Finish,
              Transition, TransitionLost, rowVars, bookVars, seenVars
  <1>1. ASSUME NEW s \in Sessions, ConfirmRead(w, s)  PROVE OrderGrounded
    BY <1>1 DEF ConfirmRead
  <1>2. ASSUME NEW cleared \in BOOLEAN, Gate(w, cleared)  PROVE OrderGrounded
    BY <1>2 DEF Gate
  <1>3. CASE ConfirmClaim(w)
    BY <1>3 DEF ConfirmClaim, ConfirmFrom
  <1>4. ASSUME NEW ok \in BOOLEAN, CreateCounterparty(w, ok)  PROVE OrderGrounded
    BY <1>4 DEF CreateCounterparty
  <1>5. CASE StoreCounterparty(w) \/ ConfirmFail(w) \/ TellAuthorized(w)
    BY <1>5 DEF StoreCounterparty, ConfirmFail, TellAuthorized
  <1> QED
    BY <1>1, <1>2, <1>3, <1>4, <1>5 DEF ConfirmNext

LEMMA InitiateGrounded ==
    ASSUME TypeInv, OrderInv, NEW w \in Workers, InitiateNext(w)
    PROVE  OrderGrounded
  <1> USE DEF TypeInv, TypeOK, BusyOnSession, OrderGrounded, Taken, Start, Goto, Finish,
              Transition, TransitionLost, rowVars, bookVars, seenVars
  <1>1. ASSUME NEW s \in Sessions, InitiateSessionRead(w, s) \/ InitiatePaymentRead(w, s)
        PROVE  OrderGrounded
    BY <1>1 DEF InitiateSessionRead, InitiatePaymentRead
  <1>2. CASE InitiateClaim(w)
    BY <1>2 DEF InitiateClaim, InitiateFrom
  <1>3. ASSUME NEW created \in BOOLEAN, InitiateTransfer(w, created)  PROVE OrderGrounded
    <2>1. PICK answer \in Answers(created) :
              IF answer = "unknown" THEN Finish(w) ELSE Goto(w, answer)
      BY <1>3 DEF InitiateTransfer
    <2>2. answer \in {"accepted", "refused", "unknown"} /\ (answer = "accepted" => created)
      BY AnswersAre
    <2>3. on[w] \in Sessions
      BY <1>3 DEF InitiateTransfer
    <2>4. order' = [order EXCEPT ![on[w]] = IF created THEN @ \union {"submitted"} ELSE @]
      BY <1>3 DEF InitiateTransfer
    <2>5. /\ \A s \in Sessions : order[s] # {} => order'[s] # {}
          /\ created => order'[on[w]] # {}
      BY <2>3, <2>4
    <2>6. status' = status
      BY <1>3 DEF InitiateTransfer
    <2> QED
      BY <2>1, <2>2, <2>3, <2>5, <2>6
  <1>4. CASE InitiateComplete(w)
    BY <1>4 DEF InitiateComplete, OrderInv
  <1>5. CASE InsertTransaction(w) \/ SettleInitiate(w) \/ TellCompleted(w) \/ InitiateFail(w)
    BY <1>5 DEF InsertTransaction, SettleInitiate, TellCompleted, InitiateFail
  <1> QED
    BY <1>1, <1>2, <1>3, <1>4, <1>5 DEF InitiateNext

LEMMA WebhookGrounded ==
    ASSUME TypeInv, NEW w \in Workers, WebhookNext(w)
    PROVE  OrderGrounded
  <1> USE DEF TypeInv, TypeOK, BusyOnSession, OrderGrounded, Taken, Start, Goto, Finish,
              Transition, TransitionLost, rowVars, bookVars, seenVars
  <1>1. ASSUME NEW s \in Sessions, NEW st \in OrderStatus, ApplyWebhookStatus(w, s, st)
        PROVE  OrderGrounded
    BY <1>1 DEF ApplyWebhookStatus
  <1>2. CASE TellChange(w)
    BY <1>2 DEF TellChange, LedgerStep
  <1>3. CASE Settle(w) \/ Reverse(w)
    BY <1>3 DEF Settle, Reverse
  <1> QED
    BY <1>1, <1>2, <1>3 DEF WebhookNext

LEMMA OtherGrounded ==
    ASSUME TypeInv, OrderInv,
           \/ \E w \in Workers : ReconcileNext(w) \/ Stop(w)
           \/ EnvironmentNext
           \/ UNCHANGED vars
    PROVE  OrderGrounded
  <1> USE DEF TypeInv, TypeOK, BusyOnSession, OrderGrounded, Taken, Start, Goto, Finish,
              Transition, TransitionLost, rowVars, bookVars, workerVars, seenVars
  <1>1. ASSUME NEW w \in Workers, NEW s \in Sessions, ReconcilePoll(w, s)
        PROVE  OrderGrounded
    <2>1. order[s] # {} /\ order' = order /\ status' = status
      BY <1>1 DEF ReconcilePoll, Reported
    <2>2. on'[w] = s /\ \A v \in Workers \ {w} : pc'[v] = pc[v] /\ on'[v] = on[v]
      BY <1>1 DEF ReconcilePoll
    <2> QED
      BY <2>1, <2>2
  <1>2. ASSUME NEW w \in Workers, ReconcileResolve(w)  PROVE OrderGrounded
    BY <1>2 DEF ReconcileResolve, OrderInv, LedgerStep
  <1>3. ASSUME NEW w \in Workers, Stop(w)  PROVE OrderGrounded
    BY <1>3 DEF Stop
  <1>4. CASE EnvironmentNext \/ UNCHANGED vars
    BY <1>4 DEF EnvironmentNext, SetKyc, Expire, OrderMoves, StrayOrder, vars
  <1> QED
    BY <1>1, <1>2, <1>3, <1>4 DEF ReconcileNext

(* A session is completed, returned or reversed only if the provider holds *)
(* an order for it, however late or replayed the webhooks are.             *)
THEOREM CollectedHasAnOrder == Spec => []CollectedHasOrder
  <1>1. Init => OrderInv
    BY DEF Init, OrderInv, CollectedHasOrder
  <1>2. TypeInv /\ OrderInv /\ [Next]_vars => OrderInv'
    BY GroundedKeepsOrders, ConfirmGrounded, InitiateGrounded, WebhookGrounded, OtherGrounded
    DEF Next
  <1>3. OrderInv => CollectedHasOrder
    BY DEF OrderInv
  <1> QED
    BY <1>1, <1>2, <1>3, InitTypeInv, StepTypeInv, PTL DEF Spec

-----------------------------------------------------------------------------
(* No money is asked for before the gate. *)

PastTheGate == {"claim_confirm", "create_counterparty", "store_counterparty"}

AskingForMoney == {"claim_initiate", "send"}

(* Each fact hands the verdict of the gate on to the next: to the worker   *)
(* that confirms, to the counterparty it stores, to the initiate call that *)
(* finds it.                                                               *)
GateInv ==
    /\ GateBeforeMoney
    /\ counterparty \subseteq gated
    /\ \A s \in Sessions : order[s] # {} => s \in strayed \/ submitted[s] > 0
    /\ \A w \in Workers :
           /\ pc[w] \in PastTheGate => on[w] \in gated
           /\ pc[w] \in AskingForMoney => on[w] \in counterparty

(* What a step leaves true of session s, *)
GateHeld(s) ==
    /\ s \in gated => s \in gated'
    /\ s \in strayed => s \in strayed'
    /\ s \in counterparty => s \in counterparty'
    /\ submitted[s] > 0 => submitted'[s] > 0
    /\ s \in counterparty' => s \in counterparty \/ s \in gated
    /\ submitted'[s] > 0 => submitted[s] > 0 \/ s \in counterparty
    /\ order'[s] # {} => order[s] # {} \/ s \in strayed' \/ submitted'[s] > 0
    /\ status'[s] # "pending" => status[s] # "pending" \/ s \in gated \/ order[s] # {}

(* and of worker w. *)
GateFollowed(w) ==
    /\ pc'[w] \in PastTheGate =>
           \/ on'[w] \in gated'
           \/ pc[w] \in PastTheGate /\ on'[w] = on[w]
    /\ pc'[w] \in AskingForMoney =>
           \/ on'[w] \in counterparty'
           \/ pc[w] \in AskingForMoney /\ on'[w] = on[w]

Guarded == (\A s \in Sessions : GateHeld(s)) /\ (\A w \in Workers : GateFollowed(w))

LEMMA GuardedKeepsGate ==
    ASSUME TypeInv, TypeInv', GateInv, Guarded
    PROVE  GateInv'
  <1>1. ASSUME NEW s \in Sessions
        PROVE  /\ submitted'[s] > 0 => s \in counterparty'
               /\ submitted'[s] > 0 \/ (s \notin strayed' /\ status'[s] # "pending") => s \in gated'
               /\ s \in counterparty' => s \in gated'
               /\ order'[s] # {} => s \in strayed' \/ submitted'[s] > 0
    <2>1. GateHeld(s)
      BY DEF Guarded
    <2>2. /\ submitted[s] > 0 => s \in counterparty
          /\ submitted[s] > 0 \/ (s \notin strayed /\ status[s] # "pending") => s \in gated
          /\ s \in counterparty => s \in gated
          /\ order[s] # {} => s \in strayed \/ submitted[s] > 0
      BY DEF GateInv, GateBeforeMoney
    <2> QED
      BY <2>1, <2>2 DEF GateHeld
  <1>2. counterparty' \subseteq Sessions
    BY DEF TypeInv, TypeOK
  <1>3. ASSUME NEW w \in Workers
        PROVE  /\ pc'[w] \in PastTheGate => on'[w] \in gated'
               /\ pc'[w] \in AskingForMoney => on'[w] \in counterparty'
    <2>1. pc[w] \in PastTheGate \union AskingForMoney => on[w] \in Sessions
      BY DEF TypeInv, BusyOnSession, PastTheGate, AskingForMoney
    <2>2. /\ pc[w] \in PastTheGate => on[w] \in gated
          /\ pc[w] \in AskingForMoney => on[w] \in counterparty
          /\ GateFollowed(w)
      BY DEF GateInv, Guarded
    <2>3. on[w] \in Sessions => GateHeld(on[w])
      BY DEF Guarded
    <2> QED
      BY <2>1, <2>2, <2>3 DEF GateFollowed, GateHeld
  <1> QED
    BY <1>1, <1>2, <1>3 DEF GateInv, GateBeforeMoney

LEMMA ConfirmGuarded ==
    ASSUME TypeInv, GateInv, NEW w \in Workers, ConfirmNext(w)
    PROVE  Guarded
  <1> USE DEF TypeInv, TypeOK, BusyOnSession, Guarded, GateHeld, GateFollowed, PastTheGate,
              AskingForMoney, Start, Goto, Finish, Transition, TransitionLost,
              rowVars, bookVars, seenVars
  <1>1. ASSUME NEW s \in Sessions, ConfirmRead(w, s)  PROVE Guarded
    BY <1>1 DEF ConfirmRead
  <1>2. ASSUME NEW cleared \in BOOLEAN, Gate(w, cleared)  PROVE Guarded
    BY <1>2 DEF Gate, GatePassed
  <1>3. CASE ConfirmClaim(w)
    BY <1>3 DEF ConfirmClaim, ConfirmFrom, GateInv
  <1>4. ASSUME NEW ok \in BOOLEAN, CreateCounterparty(w, ok)  PROVE Guarded
    BY <1>4 DEF CreateCounterparty
  <1>5. CASE StoreCounterparty(w)
    BY <1>5 DEF StoreCounterparty, GateInv
  <1>6. CASE ConfirmFail(w) \/ TellAuthorized(w)
    BY <1>6 DEF ConfirmFail, TellAuthorized
  <1> QED
    BY <1>1, <1>2, <1>3, <1>4, <1>5, <1>6 DEF ConfirmNext

LEMMA InitiateGuarded ==
    ASSUME TypeInv, GateInv, NEW w \in Workers, InitiateNext(w)
    PROVE  Guarded
  <1> USE DEF TypeInv, TypeOK, BusyOnSession, Guarded, GateHeld, GateFollowed, PastTheGate,
              AskingForMoney, Start, Goto, Finish, Transition, TransitionLost,
              rowVars, bookVars, seenVars
  <1>1. ASSUME NEW s \in Sessions, InitiateSessionRead(w, s) \/ InitiatePaymentRead(w, s)
        PROVE  Guarded
    BY <1>1 DEF InitiateSessionRead, InitiatePaymentRead
  <1>2. CASE InitiateClaim(w)
    BY <1>2 DEF InitiateClaim, InitiateFrom
  <1>3. ASSUME NEW created \in BOOLEAN, InitiateTransfer(w, created)  PROVE Guarded
    <2>1. PICK answer \in Answers(created) :
              IF answer = "unknown" THEN Finish(w) ELSE Goto(w, answer)
      BY <1>3 DEF InitiateTransfer
    <2>2. answer \in {"accepted", "refused", "unknown"}
      BY AnswersAre
    <2>3. PICK s \in Sessions : s = on[w]
      BY <1>3 DEF InitiateTransfer
    <2>4. s \in counterparty
      BY <1>3, <2>3 DEF InitiateTransfer, GateInv
    <2>5. /\ \A x \in Sessions \ {s} : submitted'[x] = submitted[x] /\ order'[x] = order[x]
          /\ submitted'[s] > 0
      BY <1>3, <2>3 DEF InitiateTransfer
    <2>6. UNCHANGED <<status, counterparty, strayed, gated>>
      BY <1>3 DEF InitiateTransfer
    <2>7. \A x \in Sessions : GateHeld(x)
      BY <2>4, <2>5, <2>6
    <2>8. \A v \in Workers : GateFollowed(v)
      BY <2>1, <2>2, <2>6
    <2> QED
      BY <2>7, <2>8
  <1>4. CASE InitiateComplete(w) \/ InitiateFail(w)
    BY <1>4 DEF InitiateComplete, InitiateFail
  <1>5. CASE InsertTransaction(w) \/ SettleInitiate(w) \/ TellCompleted(w)
    BY <1>5 DEF InsertTransaction, SettleInitiate, TellCompleted
  <1> QED
    BY <1>1, <1>2, <1>3, <1>4, <1>5 DEF InitiateNext

LEMMA WebhookGuarded ==
    ASSUME TypeInv, NEW w \in Workers, WebhookNext(w)
    PROVE  Guarded
  <1> USE DEF TypeInv, TypeOK, BusyOnSession, Guarded, GateHeld, GateFollowed, PastTheGate,
              AskingForMoney, Start, Goto, Finish, Transition, TransitionLost,
              rowVars, bookVars, seenVars
  <1>1. ASSUME NEW s \in Sessions, NEW st \in OrderStatus, ApplyWebhookStatus(w, s, st)
        PROVE  Guarded
    BY <1>1 DEF ApplyWebhookStatus
  <1>2. CASE TellChange(w)
    BY <1>2 DEF TellChange, LedgerStep
  <1>3. CASE Settle(w) \/ Reverse(w)
    BY <1>3 DEF Settle, Reverse
  <1> QED
    BY <1>1, <1>2, <1>3 DEF WebhookNext

LEMMA OtherGuarded ==
    ASSUME TypeInv,
           \/ \E w \in Workers : ReconcileNext(w) \/ Stop(w)
           \/ EnvironmentNext
           \/ UNCHANGED vars
    PROVE  Guarded
  <1> USE DEF TypeInv, TypeOK, BusyOnSession, Guarded, GateHeld, GateFollowed, PastTheGate,
              AskingForMoney, Start, Goto, Finish, Transition, TransitionLost,
              rowVars, bookVars, workerVars, seenVars
  <1>1. ASSUME NEW w \in Workers, NEW s \in Sessions, ReconcilePoll(w, s)  PROVE Guarded
    BY <1>1 DEF ReconcilePoll
  <1>2. ASSUME NEW w \in Workers, ReconcileResolve(w)  PROVE Guarded
    BY <1>2 DEF ReconcileResolve, LedgerStep
  <1>3. ASSUME NEW w \in Workers, Stop(w)  PROVE Guarded
    BY <1>3 DEF Stop
  <1>4. CASE SetKyc \/ (\E s \in Sessions : Expire(s)) \/ UNCHANGED vars
    BY <1>4 DEF SetKyc, Expire, vars
  <1>5. ASSUME NEW s \in Sessions, StrayOrder(s)  PROVE Guarded
    BY <1>5 DEF StrayOrder
  <1>6. ASSUME NEW s \in Sessions, NEW st \in OrderStatus, OrderMoves(s, st)  PROVE Guarded
    BY <1>6 DEF OrderMoves
  <1> QED
    BY <1>1, <1>2, <1>3, <1>4, <1>5, <1>6 DEF ReconcileNext, EnvironmentNext

(* No transfer request without a verified merchant, a cleared customer and *)
(* a stored counterparty, whichever handlers race for the session.         *)
THEOREM MoneyAfterGate == Spec => []GateBeforeMoney
  <1>1. Init => GateInv
    BY DEF Init, GateInv, GateBeforeMoney, PastTheGate, AskingForMoney
  <1>2. TypeInv /\ GateInv /\ [Next]_vars => GateInv'
    BY StepTypeInv, GuardedKeepsGate, ConfirmGuarded, InitiateGuarded, WebhookGuarded,
       OtherGuarded
    DEF Next
  <1>3. GateInv => GateBeforeMoney
    BY DEF GateInv
  <1> QED
    BY <1>1, <1>2, <1>3, InitTypeInv, StepTypeInv, PTL DEF Spec

-----------------------------------------------------------------------------
(* The event streams only watch: a session with pages open is a session,   *)
(* and the theorems above hold of it.                                      *)
LEMMA StreamStepIsSessionStep == [StreamNext]_allVars => [Next]_vars
  BY DEF StreamNext, allVars

LEMMA StreamsOnlyWatch == StreamSpec => Spec
  BY StreamStepIsSessionStep, PTL DEF StreamSpec, Spec

(* How far a status is from pending.                                       *)
Rank(st) ==
    CASE st = "pending" -> 0
      [] st = "authorized" -> 1
      [] st = "processing" -> 2
      [] st \in {"completed", "failed"} -> 3
      [] OTHER -> 4

(* Each status that a session takes is further than the one it had.        *)
Forward(old, new) == old = new \/ Rank(old) < Rank(new)

LEMMA ForwardIsTransitive ==
    ASSUME NEW a \in Status, NEW b \in Status, NEW c \in Status, Forward(a, b), Forward(b, c)
    PROVE  Forward(a, c)
  BY DEF Forward, Rank, Status

LEMMA StatusForward ==
    ASSUME TypeInv, [Next]_vars, NEW s \in Sessions
    PROVE  Forward(status[s], status'[s])
  <1>1. CASE status' = status
    BY <1>1 DEF Forward
  <1>2. ASSUME NEW w \in Workers, Wins(w)  PROVE Forward(status[s], status'[s])
    <2>1. PICK x \in Sessions, to \in Status :
              status[x] \in Precede(to) /\ status' = [status EXCEPT ![x] = to]
      BY <1>2 DEF Wins
    <2>2. CASE x = s
      <3>1. status[s] \in Precede(to) /\ status'[s] = to
        BY <2>1, <2>2 DEF TypeInv, TypeOK
      <3> QED
        BY <3>1 DEF Forward, Rank, Precede, WebhookFrom, Status
    <2>3. CASE x # s
      BY <2>1, <2>3 DEF Forward
    <2> QED
      BY <2>2, <2>3
  <1> QED
    BY <1>1, <1>2, StepWinsOrDischarges DEF Aloof, Discharges

(* What an open stream has told its page is the status of the session or   *)
(* one that lies behind it.                                                *)
ToldInv ==
    /\ StreamTypeOK
    /\ \A c \in Clients : watching[c] # NoSession => Forward(told[c], status[watching[c]])

LEMMA StepToldInv == TypeInv /\ ToldInv /\ [StreamNext]_allVars => ToldInv'
  <1> SUFFICES ASSUME TypeInv, ToldInv, [StreamNext]_allVars  PROVE ToldInv'
    OBVIOUS
  <1> USE DEF ToldInv, StreamTypeOK
  <1>1. status \in [Sessions -> Status] /\ status' \in [Sessions -> Status]
    <2>1. TypeInv'
      BY StreamStepIsSessionStep, StepTypeInv
    <2> QED
      BY <2>1 DEF TypeInv, TypeOK
  <1>2. CASE [Next]_vars /\ UNCHANGED streamVars
    <2>1. ASSUME NEW c \in Clients, watching[c] # NoSession
          PROVE  Forward(told[c], status'[watching[c]])
      <3>1. watching[c] \in Sessions /\ told[c] \in Status
        BY <2>1
      <3>2. Forward(status[watching[c]], status'[watching[c]])
        BY <1>2, <3>1, StatusForward
      <3> QED
        BY <1>1, <2>1, <3>1, <3>2, ForwardIsTransitive
    <2> QED
      BY <1>2, <2>1 DEF streamVars
  <1>3. ASSUME UNCHANGED vars, NEW c \in Clients, NEW s \in Sessions, Watch(c, s)
        PROVE  ToldInv'
    BY <1>1, <1>3 DEF Watch, vars, rowVars, Forward
  <1>4. ASSUME UNCHANGED vars, NEW c \in Clients, Close(c)
        PROVE  ToldInv'
    BY <1>1, <1>4 DEF Close, vars, rowVars, Status
  <1>5. ASSUME UNCHANGED vars, NEW c \in Clients, Tick(c)
        PROVE  ToldInv'
    <2>1. watching[c] \in Sessions /\ status[watching[c]] \in Status
      BY <1>1, <1>5 DEF Tick
    <2>2. CASE EndsStream(status[watching[c]])
      BY <1>4, <1>5, <2>2 DEF Tick
    <2>3. CASE ~EndsStream(status[watching[c]])
      BY <1>5, <2>1, <2>3 DEF Tick, vars, rowVars, Forward
    <2> QED
      BY <2>2, <2>3
  <1> QED
    BY <1>2, <1>3, <1>4, <1>5 DEF StreamNext, allVars

(* A page never shows its session going back, whatever reports arrive late *)
(* and however handlers race while its stream is open.                     *)
PageNeverGoesBack ==
    [][\A c \in Clients :
           watching[c] # NoSession /\ watching'[c] = watching[c] =>
               Forward(told[c], told'[c])]_allVars

THEOREM PagesGoForward == StreamSpec => PageNeverGoesBack
  <1>1. Init /\ StreamInit => ToldInv
    BY DEF StreamInit, ToldInv, StreamTypeOK, Status
  <1>2. TypeInv /\ [StreamNext]_allVars => TypeInv'
    BY StreamStepIsSessionStep, StepTypeInv
  <1>3. ASSUME ToldInv, [StreamNext]_allVars, NEW c \in Clients,
               watching[c] # NoSession, watching'[c] = watching[c]
        PROVE  Forward(told[c], told'[c])
    <2>1. CASE UNCHANGED streamVars
      BY <2>1 DEF streamVars, Forward
    <2>2. ASSUME UNCHANGED vars, NEW d \in Clients, NEW s \in Sessions, Watch(d, s)
          PROVE  Forward(told[c], told'[c])
      BY <1>3, <2>2 DEF Watch, ToldInv, StreamTypeOK, Forward
    <2>3. ASSUME NEW d \in Clients, Close(d)
          PROVE  Forward(told[c], told'[c])
      BY <1>3, <2>3 DEF Close, ToldInv, StreamTypeOK, Forward
    <2>4. ASSUME NEW d \in Clients, Tick(d)
          PROVE  Forward(told[c], told'[c])
      <3>1. CASE EndsStream(status[watching[d]])
        BY <2>3, <2>4, <3>1 DEF Tick
      <3>2. CASE ~EndsStream(status[watching[d]])
        BY <1>3, <2>4, <3>2 DEF Tick, ToldInv, StreamTypeOK, Forward
      <3> QED
        BY <3>1, <3>2
    <2> QED
      BY <1>3, <2>1, <2>2, <2>3, <2>4 DEF StreamNext, allVars
  <1>4. ToldInv /\ [StreamNext]_allVars =>
            [\A c \in Clients :
                 watching[c] # NoSession /\ watching'[c] = watching[c] =>
                     Forward(told[c], told'[c])]_allVars
    BY <1>3
  <1> QED
    BY <1>1, <1>2, <1>4, InitTypeInv, StepToldInv, PTL DEF StreamSpec, PageNeverGoesBack
=============================================================================
