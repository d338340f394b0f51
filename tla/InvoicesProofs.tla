--------------------------- MODULE InvoicesProofs ---------------------------
(***************************************************************************)
(* Proofs about Invoices for any templates, intervals and calendars and    *)
(* any number of overlapping passes and requests.                          *)
(***************************************************************************)
EXTENDS Invoices, TLAPS

(* A busy worker works on a bill; only a pass links, and only a pass has a *)
(* batch.                                                                  *)
TypeInv ==
    /\ TypeOK
    /\ \A w \in Workers :
           /\ pc[w] \in {"issue", "insert", "link", "ask", "store"} => on[w] \in Bills
           /\ pc[w] = "link" => on[w] \in Cycles
           /\ pc[w] \in {"idle", "ask", "store"} \/ on[w] \in OneOffs => batch[w] = {}

-----------------------------------------------------------------------------
(* Every step preserves the types. *)

LEMMA InitTypeInv == Init => TypeInv
  BY LastDayAssumption, MaxFaultsAssumption, BillsAssumption
  DEF Init, TypeInv, TypeOK, Days, BillStatus, Steps, Bills

LEMMA IntervalType ==
    ASSUME TypeOK, NEW t \in Templates
    PROVE  Advanced(t) \in Nat /\ Advanced(t) > nextRun[t] /\ nextRun[t] \in Nat
  <1>1. Interval[t] \in Nat \ {0} /\ nextRun[t] \in Nat
    BY IntervalAssumption DEF TypeOK
  <1> QED
    BY <1>1 DEF Advanced

LEMMA DueCycle ==
    ASSUME TypeOK, NEW t \in Templates, Due(t)
    PROVE  nextRun[t] \in Days /\ <<t, nextRun[t]>> \in Cycles
  <1>1. nextRun[t] \in Nat /\ day \in 0 .. LastDay /\ nextRun[t] <= day
    BY DEF TypeOK, Due, Days
  <1>2. nextRun[t] \in Days
    BY <1>1, LastDayAssumption DEF Days
  <1> QED
    BY <1>2 DEF Cycles

LEMMA FaultType ==
    ASSUME TypeOK, UNCHANGED faults \/ Fault
    PROVE  faults' \in 0 .. MaxFaults
  BY MaxFaultsAssumption DEF TypeOK, Fault

LEMMA ClaimTypeInv ==
    ASSUME TypeInv, NEW w \in Workers, Claim(w)
    PROVE  TypeInv'
  <1>1. nextRun' \in [Templates -> Nat]
    BY IntervalType DEF TypeInv, TypeOK, Claim
  <1>2. {<<t, nextRun[t]>> : t \in {u \in Templates : Due(u)}} \in SUBSET Cycles
    BY DueCycle DEF TypeInv
  <1>3. batch' \in [Workers -> SUBSET Cycles]
    BY <1>2 DEF Claim, TypeInv, TypeOK
  <1> QED
    BY <1>1, <1>3, BillsAssumption
    DEF Claim, TypeInv, TypeOK, Start, Steps, BillStatus, billVars, Bills

LEMMA HandlerTypeInv ==
    ASSUME TypeInv, NEW w \in Workers, HandlerStep(w)
    PROVE  TypeInv'
  <1>0. faults' \in 0 .. MaxFaults
    <2>1. UNCHANGED faults \/ Fault
      BY Zenon DEF HandlerStep, TakeNext, Issue, Insert, Link, AskStatus, StoreStatus
    <2> QED
      BY <2>1, FaultType DEF TypeInv
  <1>1. OneOffs \subseteq Bills /\ Cycles \subseteq Bills /\ NoBill \notin Bills
        /\ OneOffs \intersect Cycles = {}
    BY BillsAssumption DEF Bills
  <1>2. \A b \in Bills : b \notin OneOffs => b \in Cycles
    BY DEF Bills
  <1> USE <1>0, <1>1, <1>2 DEF TypeInv, TypeOK, BillStatus, Steps, Start, Hold, Proceed, Answer,
              templateVars, billVars
  <1>3. CASE TakeNext(w)
    BY <1>3 DEF TakeNext
  <1>4. CASE Issue(w)
    <2>1. on[w] \in Bills
      BY <1>4 DEF Issue
    <2>2. bill' \in [Bills -> BillStatus] /\ issued' \in [Bills -> Nat]
      BY <1>4, <2>1 DEF Issue
    <2> QED
      BY <1>4, <2>1, <2>2 DEF Issue
  <1>5. CASE Insert(w)
    BY <1>5 DEF Insert
  <1>6. CASE Link(w)
    BY <1>6 DEF Link
  <1>7. CASE AskStatus(w)
    BY <1>7 DEF AskStatus
  <1>8. CASE StoreStatus(w)
    BY <1>8 DEF StoreStatus
  <1> QED
    BY <1>3, <1>4, <1>5, <1>6, <1>7, <1>8 DEF HandlerStep

LEMMA OtherTypeInv ==
    ASSUME TypeInv,
           \/ \E t \in Templates : CancelRecurring(t) \/ \E start \in Days : CreateRecurring(t, start)
           \/ \E w \in Workers : \/ \E b \in Bills : CreateInvoice(w, b) \/ OpenInvoice(w, b)
                                 \/ Stop(w)
           \/ NextDay
           \/ \E b \in Bills, st \in BillStatus : BillMoves(b, st)
           \/ UNCHANGED vars
    PROVE  TypeInv'
  <1>1. OneOffs \subseteq Bills /\ Cycles \subseteq Bills /\ NoBill \notin Bills
        /\ OneOffs \intersect Cycles = {} /\ Days \subseteq Nat
    BY BillsAssumption DEF Bills, Days
  <1> USE <1>1 DEF TypeInv, TypeOK, BillStatus, Steps, Start, templateVars, billVars, workerVars
  <1>2. ASSUME NEW t \in Templates, CancelRecurring(t)  PROVE TypeInv'
    BY <1>2 DEF CancelRecurring
  <1>3. ASSUME NEW t \in Templates, NEW start \in Days, CreateRecurring(t, start)  PROVE TypeInv'
    BY <1>3 DEF CreateRecurring
  <1>4. ASSUME NEW w \in Workers, NEW b \in Bills, CreateInvoice(w, b) \/ OpenInvoice(w, b)
        PROVE  TypeInv'
    BY <1>4 DEF CreateInvoice, OpenInvoice
  <1>5. ASSUME NEW w \in Workers, Stop(w)  PROVE TypeInv'
    BY <1>5, FaultType DEF Stop
  <1>6. CASE NextDay
    BY <1>6, LastDayAssumption DEF NextDay, Days
  <1>7. ASSUME NEW b \in Bills, NEW st \in BillStatus, BillMoves(b, st)  PROVE TypeInv'
    BY <1>7 DEF BillMoves
  <1>8. CASE UNCHANGED vars
    BY <1>8 DEF vars
  <1> QED
    BY <1>2, <1>3, <1>4, <1>5, <1>6, <1>7, <1>8

LEMMA StepTypeInv == TypeInv /\ [Next]_vars => TypeInv'
  BY ClaimTypeInv, HandlerTypeInv, OtherTypeInv DEF Next

(* The types of all variables, for any templates, calendar and workers.    *)
THEOREM TypeCorrect == Spec => []TypeOK
  <1>1. TypeInv => TypeOK
    BY DEF TypeInv
  <1> QED
    BY <1>1, InitTypeInv, StepTypeInv, PTL DEF Spec

-----------------------------------------------------------------------------
(* A bill is issued at most once. *)

Begun(b) == issued[b] > 0 \/ \E w \in Workers : Underway(w, b)

(* Who has claimed a bill is the only one, and a cycle is claimed only by  *)
(* moving the template's next run past it.                                 *)
IssueInv ==
    /\ \A b \in Bills :
           /\ issued[b] <= 1
           /\ issued[b] = 0 <=> bill[b] = "none"
           /\ \A w \in Workers :
                  Underway(w, b) => /\ issued[b] = 0
                                    /\ \A v \in Workers : Underway(v, b) => v = w
    /\ \A w \in Workers : pc[w] = "issue" => on[w] \notin batch[w]
    /\ \A t \in Templates, c \in Days :
           Begun(<<t, c>>) => template[t] # "none" /\ c < nextRun[t]

(* Steps that claim nothing and issue nothing. *)
IssuesNothing ==
    /\ issued' = issued
    /\ \A b \in Bills : bill'[b] = "none" <=> bill[b] = "none"
    /\ \A w \in Workers : /\ batch'[w] \subseteq batch[w]
                          /\ pc'[w] = "issue" =>
                                 \/ pc[w] = "issue" /\ on'[w] = on[w]
                                 \/ on'[w] \in batch[w] \ batch'[w]
    /\ \A t \in Templates :
           template[t] # "none" => template'[t] # "none" /\ nextRun'[t] = nextRun[t]

LEMMA NothingKeepsIssued ==
    ASSUME TypeInv, TypeInv', IssueInv, IssuesNothing
    PROVE  IssueInv'
  <1>1. ASSUME NEW w \in Workers, NEW b \in Bills, Underway(w, b)'  PROVE Underway(w, b)
    BY <1>1 DEF IssuesNothing, Underway
  <1>2. ASSUME NEW b \in Bills
        PROVE  /\ issued'[b] <= 1
               /\ issued'[b] = 0 <=> bill'[b] = "none"
               /\ Begun(b)' => Begun(b)
               /\ \A w \in Workers :
                      Underway(w, b)' => /\ issued'[b] = 0
                                         /\ \A v \in Workers : Underway(v, b)' => v = w
    BY <1>1 DEF IssueInv, IssuesNothing, Begun
  <1>3. \A w \in Workers : pc'[w] = "issue" => on'[w] \notin batch'[w]
    BY DEF IssueInv, IssuesNothing
  <1>4. ASSUME NEW t \in Templates, NEW c \in Days, Begun(<<t, c>>)'
        PROVE  template'[t] # "none" /\ c < nextRun'[t]
    <2>1. <<t, c>> \in Bills
      BY DEF Bills, Cycles
    <2>2. template[t] # "none" /\ c < nextRun[t]
      BY <1>2, <1>4, <2>1 DEF IssueInv
    <2> QED
      BY <2>2 DEF IssuesNothing
  <1> QED
    BY <1>2, <1>3, <1>4 DEF IssueInv

(* A claim takes the cycles at next_run, which nobody has begun, and moves *)
(* next_run past them.                                                     *)
LEMMA ClaimIssueInv ==
    ASSUME TypeInv, IssueInv, NEW w \in Workers, Claim(w)
    PROVE  IssueInv'
  <1> DEFINE claimed == {<<t, nextRun[t]>> : t \in {u \in Templates : Due(u)}}
  <1>1. /\ UNCHANGED <<issued, bill, template>>
        /\ batch'[w] = claimed
        /\ pc'[w] = "next"
        /\ \A v \in Workers \ {w} : pc'[v] = pc[v] /\ on'[v] = on[v] /\ batch'[v] = batch[v]
    BY DEF Claim, Start, billVars, TypeInv, TypeOK
  <1>2. \A b \in claimed : b \in Bills /\ ~Begun(b)
    <2> SUFFICES ASSUME NEW t \in Templates, Due(t)
                 PROVE  <<t, nextRun[t]>> \in Bills /\ ~Begun(<<t, nextRun[t]>>)
      OBVIOUS
    <2>1. nextRun[t] \in Days /\ <<t, nextRun[t]>> \in Bills
      BY DueCycle DEF TypeInv, Bills
    <2>2. ~(nextRun[t] < nextRun[t])
      BY <2>1, LastDayAssumption DEF Days
    <2> QED
      BY <2>1, <2>2 DEF IssueInv
  <1>3. ASSUME NEW v \in Workers, NEW b \in Bills, Underway(v, b)'
        PROVE  (v = w /\ b \in claimed) \/ (v # w /\ Underway(v, b))
    BY <1>1, <1>3 DEF Underway
  <1>4. ASSUME NEW b \in Bills
        PROVE  /\ issued'[b] <= 1
               /\ issued'[b] = 0 <=> bill'[b] = "none"
               /\ Begun(b)' => Begun(b) \/ b \in claimed
               /\ \A v \in Workers :
                      Underway(v, b)' => /\ issued'[b] = 0
                                         /\ \A u \in Workers : Underway(u, b)' => u = v
    <2>1. issued[b] \in Nat /\ issued'[b] = issued[b] /\ bill'[b] = bill[b]
      BY <1>1 DEF TypeInv, TypeOK
    <2>2. Begun(b)' => Begun(b) \/ b \in claimed
      BY <1>3, <2>1 DEF Begun
    <2>3. \A v \in Workers : Underway(v, b)' =>
              issued'[b] = 0 /\ \A u \in Workers : Underway(u, b)' => u = v
      <3>1. CASE b \in claimed
        BY <1>2, <1>3, <2>1, <3>1 DEF Begun
      <3>2. CASE b \notin claimed
        BY <1>3, <2>1, <3>2 DEF IssueInv
      <3> QED
        BY <3>1, <3>2
    <2> QED
      BY <2>1, <2>2, <2>3 DEF IssueInv
  <1>5. \A v \in Workers : pc'[v] = "issue" => on'[v] \notin batch'[v]
    BY <1>1 DEF IssueInv
  <1>6. ASSUME NEW t \in Templates, NEW c \in Days, Begun(<<t, c>>)'
        PROVE  template'[t] # "none" /\ c < nextRun'[t]
    <2>1. <<t, c>> \in Bills /\ c \in Nat
      BY DEF Bills, Cycles, Days
    <2>2. /\ nextRun'[t] = IF Due(t) THEN Advanced(t) ELSE nextRun[t]
          /\ Advanced(t) > nextRun[t] /\ nextRun[t] \in Nat /\ Advanced(t) \in Nat
      BY IntervalType DEF Claim, TypeInv
    <2>3. CASE <<t, c>> \in claimed
      <3>1. Due(t) /\ c = nextRun[t]
        BY <2>3
      <3> QED
        BY <1>1, <2>2, <3>1 DEF Due
    <2>4. CASE Begun(<<t, c>>)
      BY <1>1, <2>1, <2>2, <2>4 DEF IssueInv
    <2> QED
      BY <1>4, <1>6, <2>1, <2>3, <2>4
  <1> QED
    BY <1>4, <1>5, <1>6 DEF IssueInv

(* A bill made by hand is asked for by one request. *)
LEMMA CreateIssueInv ==
    ASSUME TypeInv, IssueInv, NEW w \in Workers, NEW b \in Bills, CreateInvoice(w, b)
    PROVE  IssueInv'
  <1>1. b \in OneOffs /\ issued[b] = 0 /\ \A v \in Workers : ~Underway(v, b)
    BY BillsAssumption DEF CreateInvoice, Underway, TypeInv, TypeOK
  <1>2. /\ UNCHANGED <<issued, bill, template, nextRun, batch>>
        /\ pc'[w] = "issue" /\ on'[w] = b
        /\ \A v \in Workers \ {w} : pc'[v] = pc[v] /\ on'[v] = on[v]
    BY DEF CreateInvoice, Start, billVars, templateVars, TypeInv, TypeOK
  <1>3. ASSUME NEW v \in Workers, NEW x \in Bills
        PROVE  Underway(v, x)' => (v = w /\ x = b) \/ Underway(v, x)
    BY <1>2 DEF Underway
  <1>4. ASSUME NEW x \in Bills
        PROVE  /\ issued'[x] <= 1
               /\ issued'[x] = 0 <=> bill'[x] = "none"
               /\ \A v \in Workers :
                      Underway(v, x)' => /\ issued'[x] = 0
                                         /\ \A u \in Workers : Underway(u, x)' => u = v
    <2>1. CASE x = b
      BY <1>1, <1>2, <1>3, <2>1 DEF IssueInv
    <2>2. CASE x # b
      BY <1>2, <1>3, <2>2 DEF IssueInv
    <2> QED
      BY <2>1, <2>2
  <1>5. \A v \in Workers : pc'[v] = "issue" => on'[v] \notin batch'[v]
    BY <1>1, <1>2 DEF IssueInv, Underway
  <1>6. ASSUME NEW t \in Templates, NEW c \in Days, Begun(<<t, c>>)'
        PROVE  template'[t] # "none" /\ c < nextRun'[t]
    <2>1. <<t, c>> \in Bills /\ <<t, c>> # b
      BY <1>1, BillsAssumption DEF Bills, Cycles
    <2>2. Begun(<<t, c>>)
      BY <1>2, <1>3, <1>6, <2>1 DEF Begun
    <2> QED
      BY <1>2, <2>2 DEF IssueInv
  <1> QED
    BY <1>4, <1>5, <1>6 DEF IssueInv

(* Issuing ends the claim, with an invoice or without. *)
LEMMA IssueIssueInv ==
    ASSUME TypeInv, IssueInv, NEW w \in Workers, Issue(w)
    PROVE  IssueInv'
  <1>1. PICK b \in Bills : b = on[w]
    BY DEF Issue, TypeInv
  <1>2. pc[w] = "issue" /\ Underway(w, b) /\ b \notin batch[w] /\ issued[b] = 0
    BY <1>1 DEF Issue, Underway, IssueInv
  <1>3. /\ UNCHANGED <<template, nextRun, batch>>
        /\ pc'[w] # "issue"
        /\ \A v \in Workers \ {w} : pc'[v] = pc[v] /\ on'[v] = on[v]
    BY DEF Issue, Hold, Proceed, Start, templateVars, TypeInv, TypeOK
  <1>4. /\ \A x \in Bills \ {b} : issued'[x] = issued[x] /\ bill'[x] = bill[x]
        /\ \/ issued'[b] = 0 /\ bill'[b] = bill[b]
           \/ issued'[b] = 1 /\ bill'[b] # "none"
    BY <1>1, <1>2 DEF Issue, billVars, TypeInv, TypeOK
  <1>5. ASSUME NEW v \in Workers, NEW x \in Bills, Underway(v, x)'
        PROVE  Underway(v, x) /\ x # b
    <2>1. Underway(v, x)
      BY <1>3, <1>5 DEF Underway
    <2>2. CASE v = w
      BY <1>2, <1>3, <1>5, <2>2 DEF Underway
    <2>3. CASE v # w
      BY <1>2, <2>1, <2>3 DEF IssueInv
    <2> QED
      BY <2>1, <2>2, <2>3
  <1>6. ASSUME NEW x \in Bills
        PROVE  /\ issued'[x] <= 1
               /\ issued'[x] = 0 <=> bill'[x] = "none"
               /\ Begun(x)' => Begun(x)
               /\ \A v \in Workers :
                      Underway(v, x)' => /\ issued'[x] = 0
                                         /\ \A u \in Workers : Underway(u, x)' => u = v
    <2>1. CASE x = b
      BY <1>2, <1>4, <1>5, <2>1 DEF IssueInv, Begun
    <2>2. CASE x # b
      BY <1>4, <1>5, <2>2 DEF IssueInv, Begun
    <2> QED
      BY <2>1, <2>2
  <1>7. \A v \in Workers : pc'[v] = "issue" => on'[v] \notin batch'[v]
    BY <1>3 DEF IssueInv
  <1>8. ASSUME NEW t \in Templates, NEW c \in Days, Begun(<<t, c>>)'
        PROVE  template'[t] # "none" /\ c < nextRun'[t]
    <2>1. <<t, c>> \in Bills
      BY DEF Bills, Cycles
    <2> QED
      BY <1>3, <1>6, <1>8, <2>1 DEF IssueInv
  <1> QED
    BY <1>6, <1>7, <1>8 DEF IssueInv

LEMMA OtherIssuesNothing ==
    ASSUME TypeInv,
           \/ \E t \in Templates : CancelRecurring(t) \/ \E start \in Days : CreateRecurring(t, start)
           \/ \E w \in Workers : \/ TakeNext(w) \/ Insert(w) \/ Link(w)
                                 \/ AskStatus(w) \/ StoreStatus(w) \/ Stop(w)
                                 \/ \E b \in Bills : OpenInvoice(w, b)
           \/ NextDay
           \/ \E b \in Bills, st \in BillStatus : BillMoves(b, st)
           \/ UNCHANGED vars
    PROVE  IssuesNothing
  <1> USE DEF TypeInv, TypeOK, IssuesNothing, Start, Hold, Proceed, Answer,
              templateVars, billVars, workerVars
  <1>1. ASSUME NEW t \in Templates, CancelRecurring(t)  PROVE IssuesNothing
    BY <1>1 DEF CancelRecurring
  <1>2. ASSUME NEW t \in Templates, NEW start \in Days, CreateRecurring(t, start)
        PROVE  IssuesNothing
    BY <1>2 DEF CreateRecurring
  <1>3. ASSUME NEW w \in Workers, TakeNext(w)  PROVE IssuesNothing
    BY <1>3 DEF TakeNext
  <1>4. ASSUME NEW w \in Workers, Insert(w) \/ Link(w)  PROVE IssuesNothing
    BY <1>4 DEF Insert, Link
  <1>5. ASSUME NEW w \in Workers, AskStatus(w) \/ StoreStatus(w)  PROVE IssuesNothing
    BY <1>5 DEF AskStatus, StoreStatus
  <1>6. ASSUME NEW w \in Workers, NEW b \in Bills, OpenInvoice(w, b)  PROVE IssuesNothing
    BY <1>6 DEF OpenInvoice
  <1>7. ASSUME NEW w \in Workers, Stop(w)  PROVE IssuesNothing
    BY <1>7 DEF Stop
  <1>8. CASE NextDay \/ UNCHANGED vars
    BY <1>8 DEF NextDay, vars
  <1>9. ASSUME NEW b \in Bills, NEW st \in BillStatus, BillMoves(b, st)  PROVE IssuesNothing
    <2>1. bill[b] \in BillStatus /\ bill[b] # "none" /\ Rank[st] = Rank[bill[b]] + 1
      BY <1>9 DEF BillMoves
    <2>2. st # "none"
      BY <2>1 DEF Rank, BillStatus
    <2> QED
      BY <1>9, <2>1, <2>2 DEF BillMoves
  <1> QED
    BY <1>1, <1>2, <1>3, <1>4, <1>5, <1>6, <1>7, <1>8, <1>9

LEMMA StepIssueInv == TypeInv /\ IssueInv /\ [Next]_vars => IssueInv'
  BY StepTypeInv, ClaimIssueInv, CreateIssueInv, IssueIssueInv, OtherIssuesNothing,
     NothingKeepsIssued
  DEF Next, HandlerStep

LEMMA InitIssueInv == Init => IssueInv
  <1> SUFFICES ASSUME Init  PROVE IssueInv
    OBVIOUS
  <1>1. \A b \in Bills : issued[b] = 0 /\ bill[b] = "none" /\ \A w \in Workers : ~Underway(w, b)
    BY DEF Init, Underway
  <1>2. \A t \in Templates, c \in Days : <<t, c>> \in Bills
    BY DEF Bills, Cycles
  <1> QED
    BY <1>1, <1>2 DEF Init, IssueInv, Begun

(* No restart, second instance or cron call issues a cycle twice.          *)
THEOREM BilledOnce == Spec => []CycleBilledOnce
  <1>1. IssueInv => CycleBilledOnce
    BY DEF IssueInv, CycleBilledOnce, Bills
  <1> QED
    BY <1>1, InitTypeInv, StepTypeInv, InitIssueInv, StepIssueInv, PTL DEF Spec

-----------------------------------------------------------------------------
(* The books run behind the provider. *)

BookInv ==
    /\ BooksAreReal
    /\ \A w \in Workers :
           /\ pc[w] \in {"insert", "store"} => Rank[word[w]] <= Rank[bill[on[w]]]
           /\ pc[w] \in {"insert", "link"} => issued[on[w]] > 0

LEMMA Ranks ==
    /\ Rank["none"] = 0
    /\ \A st \in BillStatus : Rank[st] \in Nat
  BY DEF Rank, BillStatus

(* Invoices only move forward at the provider, *)
BillsForward ==
    \A b \in Bills : /\ Rank[bill[b]] <= Rank[bill'[b]]
                     /\ issued[b] > 0 => issued'[b] > 0

(* and what is written or held has been seen there. *)
BooksFollowed ==
    /\ \A b \in Bills : \/ row'[b] = row[b]
                        \/ Rank[row'[b]] <= Rank[bill'[b]]
    /\ \A t \in Templates : \/ last'[t] = last[t]
                            \/ last'[t] \in Bills /\ issued'[last'[t]] > 0
    /\ \A w \in Workers :
           \/ pc'[w] = pc[w] /\ on'[w] = on[w] /\ word'[w] = word[w]
           \/ /\ pc'[w] \in {"insert", "store"} => Rank[word'[w]] <= Rank[bill'[on'[w]]]
              /\ pc'[w] \in {"insert", "link"} => issued'[on'[w]] > 0

LEMMA FollowedKeepsBooks ==
    ASSUME TypeInv, TypeInv', BookInv, BillsForward, BooksFollowed
    PROVE  BookInv'
  <1>1. ASSUME NEW b \in Bills  PROVE Rank[row'[b]] <= Rank[bill'[b]]
    <2>1. {row[b], bill[b], bill'[b], row'[b]} \subseteq BillStatus
      BY DEF TypeInv, TypeOK
    <2>2. Rank[row[b]] <= Rank[bill[b]] /\ Rank[bill[b]] <= Rank[bill'[b]]
      BY DEF BookInv, BooksAreReal, BillsForward
    <2>3. /\ Rank[row[b]] \in Nat /\ Rank[row'[b]] \in Nat
          /\ Rank[bill[b]] \in Nat /\ Rank[bill'[b]] \in Nat
      BY <2>1, Ranks
    <2> QED
      BY <2>2, <2>3 DEF BooksFollowed
  <1>2. ASSUME NEW t \in Templates, last'[t] # NoBill  PROVE issued'[last'[t]] > 0
    <2>1. last'[t] \in Bills
      BY <1>2 DEF TypeInv, TypeOK, Bills
    <2> QED
      BY <1>2, <2>1 DEF BooksFollowed, BillsForward, BookInv, BooksAreReal
  <1>3. ASSUME NEW w \in Workers
        PROVE  /\ pc'[w] \in {"insert", "store"} => Rank[word'[w]] <= Rank[bill'[on'[w]]]
               /\ pc'[w] \in {"insert", "link"} => issued'[on'[w]] > 0
    <2>1. CASE pc'[w] = pc[w] /\ on'[w] = on[w] /\ word'[w] = word[w] /\ on[w] \in Bills
      <3>1. /\ Rank[word[w]] \in Nat /\ Rank[bill[on[w]]] \in Nat /\ Rank[bill'[on[w]]] \in Nat
            /\ Rank[bill[on[w]]] <= Rank[bill'[on[w]]]
        BY <2>1, Ranks DEF TypeInv, TypeOK, BillsForward
      <3>2. pc[w] \in {"insert", "store"} => Rank[word[w]] <= Rank[bill[on[w]]]
        BY DEF BookInv
      <3>3. pc[w] \in {"insert", "link"} => issued'[on[w]] > 0
        BY <2>1 DEF BookInv, BillsForward
      <3> QED
        BY <2>1, <3>1, <3>2, <3>3
    <2>2. CASE pc'[w] = pc[w] /\ on'[w] = on[w] /\ word'[w] = word[w] /\ on[w] \notin Bills
      BY <2>2 DEF TypeInv
    <2> QED
      BY <2>1, <2>2 DEF BooksFollowed
  <1> QED
    BY <1>1, <1>2, <1>3 DEF BookInv, BooksAreReal

LEMMA HandlerBooks ==
    ASSUME TypeInv, TypeInv', IssueInv, BookInv, NEW w \in Workers, HandlerStep(w)
    PROVE  BillsForward /\ BooksFollowed
  <1> USE DEF TypeInv, TypeOK, Start, Hold, Proceed, Answer, templateVars, billVars
  <1>1. \A b \in Bills : Rank[bill[b]] \in Nat /\ Rank[bill'[b]] \in Nat
    BY Ranks
  <1>2. CASE TakeNext(w)
    BY <1>1, <1>2 DEF TakeNext, BillsForward, BooksFollowed
  <1>3. CASE Issue(w)
    <2>1. PICK b \in Bills : b = on[w]
      BY <1>3 DEF Issue
    <2>2. issued[b] = 0 /\ bill[b] = "none"
      BY <1>3, <2>1 DEF Issue, IssueInv, Underway
    <2>3. /\ UNCHANGED <<row, last>>
          /\ \A v \in Workers \ {w} : pc'[v] = pc[v] /\ on'[v] = on[v] /\ word'[v] = word[v]
          /\ \A x \in Bills \ {b} : issued'[x] = issued[x] /\ bill'[x] = bill[x]
          /\ \/ pc'[w] \in {"idle", "next"}
             \/ pc'[w] = "insert" /\ on'[w] = b /\ word'[w] = bill'[b] /\ issued'[b] = 1
      BY <1>3, <2>1, <2>2 DEF Issue
    <2>4. BillsForward
      BY <1>1, <2>2, <2>3, Ranks DEF BillsForward
    <2>5. BooksFollowed
      BY <1>1, <2>3 DEF BooksFollowed
    <2> QED
      BY <2>4, <2>5
  <1>4. CASE Insert(w)
    <2>1. PICK b \in Bills : b = on[w]
      BY <1>4 DEF Insert
    <2>2. Rank[word[w]] <= Rank[bill[b]] /\ issued[b] > 0
      BY <1>4, <2>1 DEF Insert, BookInv
    <2>3. /\ UNCHANGED <<bill, issued, last>>
          /\ \A v \in Workers \ {w} : pc'[v] = pc[v] /\ on'[v] = on[v] /\ word'[v] = word[v]
          /\ \A x \in Bills : row'[x] = row[x] \/ (x = b /\ row'[x] = word[w])
          /\ pc'[w] \in {"idle", "next"} \/ (pc'[w] = "link" /\ on'[w] = b)
      BY <1>4, <2>1 DEF Insert
    <2> QED
      BY <1>1, <2>2, <2>3 DEF BillsForward, BooksFollowed
  <1>5. CASE Link(w)
    <2>1. PICK b \in Bills : b = on[w]
      BY <1>5 DEF Link
    <2>2. issued[b] > 0
      BY <1>5, <2>1 DEF Link, BookInv
    <2>3. /\ UNCHANGED <<bill, issued, row>>
          /\ \A v \in Workers \ {w} : pc'[v] = pc[v] /\ on'[v] = on[v] /\ word'[v] = word[v]
          /\ \A t \in Templates : last'[t] = last[t] \/ last'[t] = b
          /\ pc'[w] \in {"idle", "next"}
      BY <1>5, <2>1 DEF Link
    <2> QED
      BY <1>1, <2>1, <2>2, <2>3 DEF BillsForward, BooksFollowed
  <1>6. CASE AskStatus(w)
    <2>1. PICK b \in Bills : b = on[w]
      BY <1>6 DEF AskStatus
    <2>2. /\ UNCHANGED <<bill, issued, row, last>>
          /\ \A v \in Workers \ {w} : pc'[v] = pc[v] /\ on'[v] = on[v] /\ word'[v] = word[v]
          /\ pc'[w] = "idle" \/ (pc'[w] = "store" /\ on'[w] = b /\ word'[w] = bill[b])
      BY <1>6, <2>1 DEF AskStatus
    <2> QED
      BY <1>1, <2>2 DEF BillsForward, BooksFollowed
  <1>7. CASE StoreStatus(w)
    <2>1. PICK b \in Bills : b = on[w]
      BY <1>7 DEF StoreStatus
    <2>2. Rank[word[w]] <= Rank[bill[b]]
      BY <1>7, <2>1 DEF StoreStatus, BookInv
    <2>3. /\ UNCHANGED <<bill, issued, last>>
          /\ \A v \in Workers \ {w} : pc'[v] = pc[v] /\ on'[v] = on[v] /\ word'[v] = word[v]
          /\ \A x \in Bills : row'[x] = row[x] \/ (x = b /\ row'[x] = word[w])
          /\ pc'[w] = "idle"
      BY <1>7, <2>1 DEF StoreStatus
    <2> QED
      BY <1>1, <2>2, <2>3 DEF BillsForward, BooksFollowed
  <1> QED
    BY <1>2, <1>3, <1>4, <1>5, <1>6, <1>7 DEF HandlerStep

LEMMA OtherBooks ==
    ASSUME TypeInv, TypeInv',
           \/ \E t \in Templates : CancelRecurring(t) \/ \E start \in Days : CreateRecurring(t, start)
           \/ \E w \in Workers : \/ Claim(w) \/ Stop(w)
                                 \/ \E b \in Bills : CreateInvoice(w, b) \/ OpenInvoice(w, b)
           \/ NextDay
           \/ \E b \in Bills, st \in BillStatus : BillMoves(b, st)
           \/ UNCHANGED vars
    PROVE  BillsForward /\ BooksFollowed
  <1> USE DEF TypeInv, TypeOK, Start, templateVars, billVars, workerVars, BooksFollowed, BillsForward
  <1>1. \A b \in Bills : Rank[bill[b]] \in Nat /\ Rank[bill'[b]] \in Nat
    BY Ranks
  <1>2. ASSUME NEW t \in Templates,
               CancelRecurring(t) \/ \E start \in Days : CreateRecurring(t, start)
        PROVE  BillsForward /\ BooksFollowed
    BY <1>1, <1>2 DEF CancelRecurring, CreateRecurring
  <1>3. ASSUME NEW w \in Workers, Claim(w) \/ Stop(w)  PROVE BillsForward /\ BooksFollowed
    BY <1>1, <1>3 DEF Claim, Stop
  <1>4. ASSUME NEW w \in Workers, NEW b \in Bills, CreateInvoice(w, b) \/ OpenInvoice(w, b)
        PROVE  BillsForward /\ BooksFollowed
    BY <1>1, <1>4 DEF CreateInvoice, OpenInvoice
  <1>5. ASSUME NEW b \in Bills, NEW st \in BillStatus, BillMoves(b, st)
        PROVE  BillsForward /\ BooksFollowed
    <2>1. /\ \A x \in Bills \ {b} : bill'[x] = bill[x]
          /\ Rank[bill'[b]] = Rank[bill[b]] + 1
          /\ UNCHANGED <<row, last, issued, pc, on, word>>
      BY <1>5 DEF BillMoves
    <2> QED
      BY <1>1, <2>1
  <1>6. CASE NextDay \/ UNCHANGED vars
    BY <1>1, <1>6 DEF NextDay, vars
  <1> QED
    BY <1>2, <1>3, <1>4, <1>5, <1>6

(* A row has a status its invoice has reached and a template's last        *)
(* invoice exists, whatever is lost and whichever refresh comes late.      *)
THEOREM BooksStayReal == Spec => []BooksAreReal
  <1>1. Init => BookInv
    BY Ranks, BillsAssumption DEF Init, BookInv, BooksAreReal
  <1>2. TypeInv /\ IssueInv /\ BookInv /\ [Next]_vars => BookInv'
    BY StepTypeInv, HandlerBooks, OtherBooks, FollowedKeepsBooks DEF Next
  <1>3. BookInv => BooksAreReal
    BY DEF BookInv
  <1> QED
    BY <1>1, <1>2, <1>3, InitTypeInv, StepTypeInv, InitIssueInv, StepIssueInv, PTL DEF Spec

-----------------------------------------------------------------------------
(* No cycle is skipped. *)

(* The cycles of a template lie an interval apart. *)
LEMMA NextMultiple ==
    ASSUME NEW n \in Nat \ {0}, NEW x \in Nat, x % n = 0
    PROVE  (x + n) % n = 0
  <1>1. PICK q \in Nat : x = q * n
    <2>1. x = (x \div n) * n /\ x \div n \in Nat
      OBVIOUS
    <2> QED
      BY <2>1
  <1> DEFINE d == (x + n) \div n
             r == (x + n) % n
  <1>2. x + n = d * n + r /\ d \in Nat /\ r \in Nat /\ r < n
    OBVIOUS
  <1>3. (q + 1) * n = d * n + r
    BY <1>1, <1>2
  <1> HIDE DEF d, r
  <1>4. r = (q + 1 - d) * n
    BY <1>2, <1>3
  <1>5. q + 1 - d <= 0
    <2>1. q + 1 - d >= 1 => (q + 1 - d) * n >= n
      BY <1>2
    <2> QED
      BY <1>2, <1>4, <2>1
  <1>6. (q + 1 - d) * n <= 0
    BY <1>2, <1>5
  <1> QED
    BY <1>2, <1>4, <1>6 DEF r

LEMMA OneMultiple ==
    ASSUME NEW n \in Nat \ {0}, NEW x \in Nat, NEW y \in Nat,
           x % n = 0, y % n = 0, x <= y, y < x + n
    PROVE  y = x
  OBVIOUS

Served(b) == issued[b] = 1 \/ \E w \in Workers : Underway(w, b)

(* The next run of a template is one of its cycles. *)
SkipInv ==
    /\ NoCycleSkipped
    /\ \A t \in Templates :
           template[t] # "none" =>
               first[t] <= nextRun[t] /\ (nextRun[t] - first[t]) % Interval[t] = 0

(* Steps that move no template on and drop no cycle, unless something fails. *)
DropsNothing ==
    /\ UNCHANGED <<first, nextRun>>
    /\ \A t \in Templates : template'[t] # "none" => template[t] # "none"
    /\ faults' = 0 => /\ faults = 0
                      /\ \A b \in Cycles : Served(b) => Served(b)'

LEMMA NothingKeepsSkip ==
    ASSUME SkipInv, DropsNothing
    PROVE  SkipInv'
  <1>1. \A t \in Templates, c \in Days : <<t, c>> \in Cycles
    BY DEF Cycles
  <1> QED
    BY <1>1 DEF SkipInv, DropsNothing, NoCycleSkipped, Served

LEMMA ClaimSkipInv ==
    ASSUME TypeInv, SkipInv, NEW w \in Workers, Claim(w)
    PROVE  SkipInv'
  <1>1. /\ UNCHANGED <<first, template, issued, faults>>
        /\ batch'[w] = {<<t, nextRun[t]>> : t \in {u \in Templates : Due(u)}}
        /\ \A v \in Workers \ {w} : pc'[v] = pc[v] /\ on'[v] = on[v] /\ batch'[v] = batch[v]
        /\ \A t \in Templates : nextRun'[t] = IF Due(t) THEN Advanced(t) ELSE nextRun[t]
    BY DEF Claim, Start, billVars, TypeInv, TypeOK
  <1>2. \A b \in Cycles : Served(b) => Served(b)'
    <2>1. \A b \in Cycles : ~Underway(w, b)
      BY DEF Claim, Underway, TypeInv
    <2>2. \A v \in Workers \ {w}, b \in Cycles : Underway(v, b) => Underway(v, b)'
      BY <1>1 DEF Underway
    <2> QED
      BY <1>1, <2>1, <2>2 DEF Served
  <1>3. ASSUME NEW t \in Templates, NEW c \in Days, Due(t), c = nextRun[t]
        PROVE  Served(<<t, c>>)'
    <2>1. <<t, c>> \in batch'[w]
      BY <1>1, <1>3
    <2> QED
      BY <2>1 DEF Served, Underway
  <1>4. ASSUME NEW t \in Templates, template[t] # "none"
        PROVE  /\ first[t] <= nextRun'[t] /\ (nextRun'[t] - first[t]) % Interval[t] = 0
               /\ \A c \in Days :
                      /\ faults = 0 /\ first[t] <= c /\ c < nextRun'[t]
                      /\ (c - first[t]) % Interval[t] = 0
                      => Served(<<t, c>>)'
    <2>1. /\ first[t] \in Nat /\ nextRun[t] \in Nat /\ Interval[t] \in Nat \ {0}
          /\ first[t] <= nextRun[t] /\ (nextRun[t] - first[t]) % Interval[t] = 0
      BY <1>4, IntervalAssumption, LastDayAssumption DEF TypeInv, TypeOK, Days, SkipInv
    <2> DEFINE x == nextRun[t] - first[t]
    <2>2. x \in Nat /\ x % Interval[t] = 0
      BY <2>1
    <2>3. (x + Interval[t]) % Interval[t] = 0
      BY <2>1, <2>2, NextMultiple
    <2>4. Advanced(t) - first[t] = x + Interval[t]
      BY <2>1 DEF Advanced
    <2>5. first[t] <= nextRun'[t] /\ (nextRun'[t] - first[t]) % Interval[t] = 0
      BY <1>1, <2>1, <2>3, <2>4 DEF Advanced
    <2>6. ASSUME NEW c \in Days, faults = 0, first[t] <= c, c < nextRun'[t],
                 (c - first[t]) % Interval[t] = 0
          PROVE  Served(<<t, c>>)'
      <3>1. c \in Nat /\ <<t, c>> \in Cycles
        BY DEF Days, Cycles
      <3>2. CASE c < nextRun[t]
        <4>1. Served(<<t, c>>)
          BY <1>4, <2>6, <3>2 DEF SkipInv, NoCycleSkipped, Served
        <4> QED
          BY <1>2, <3>1, <4>1
      <3>3. CASE ~(c < nextRun[t])
        <4> DEFINE y == c - first[t]
        <4>1. Due(t) /\ c < nextRun[t] + Interval[t]
          BY <1>1, <2>6, <3>3 DEF Advanced
        <4>2. y \in Nat /\ y % Interval[t] = 0 /\ x <= y /\ y < x + Interval[t]
          BY <2>1, <2>6, <3>1, <3>3, <4>1
        <4>3. y = x
          <5> HIDE DEF x, y
          <5> QED
            BY <2>1, <2>2, <4>2, OneMultiple
        <4>4. c = nextRun[t]
          BY <2>1, <3>1, <4>3
        <4> QED
          BY <1>3, <4>1, <4>4
      <3> QED
        BY <3>2, <3>3
    <2> QED
      BY <2>5, <2>6
  <1> QED
    BY <1>1, <1>4 DEF SkipInv, NoCycleSkipped, Served

LEMMA CreateSkipInv ==
    ASSUME TypeInv, SkipInv, NEW t \in Templates, NEW start \in Days, CreateRecurring(t, start)
    PROVE  SkipInv'
  <1>1. /\ template[t] = "none" /\ first'[t] = start /\ nextRun'[t] = start
        /\ \A u \in Templates \ {t} : /\ template'[u] = template[u]
                                      /\ first'[u] = first[u] /\ nextRun'[u] = nextRun[u]
        /\ UNCHANGED <<issued, batch, on, pc, faults>>
    BY DEF CreateRecurring, billVars, workerVars, TypeInv, TypeOK
  <1>2. start \in Nat /\ Interval[t] \in Nat \ {0} /\ (start - start) % Interval[t] = 0
    <2>1. start \in Nat /\ Interval[t] \in Nat \ {0}
      BY IntervalAssumption DEF Days
    <2> QED
      BY <2>1
  <1>3. NoCycleSkipped'
    <2> SUFFICES ASSUME NEW u \in Templates, NEW c \in Days,
                        faults' = 0, template'[u] # "none",
                        first'[u] <= c, c < nextRun'[u],
                        (c - first'[u]) % Interval[u] = 0
                 PROVE  issued'[<<u, c>>] = 1 \/ \E w \in Workers : Underway(w, <<u, c>>)'
      BY DEF NoCycleSkipped
    <2>1. u # t
      BY <1>1, <1>2 DEF Days
    <2> QED
      BY <1>1, <2>1 DEF SkipInv, NoCycleSkipped, Underway
  <1>4. ASSUME NEW u \in Templates, template'[u] # "none"
        PROVE  first'[u] <= nextRun'[u] /\ (nextRun'[u] - first'[u]) % Interval[u] = 0
    BY <1>1, <1>2, <1>4 DEF SkipInv
  <1> QED
    BY <1>3, <1>4 DEF SkipInv

LEMMA HandlerDropsNothing ==
    ASSUME TypeInv, IssueInv, NEW w \in Workers, HandlerStep(w)
    PROVE  DropsNothing
  <1> USE DEF TypeInv, TypeOK, Served, Underway, Start, Hold, Proceed, Answer, Fault,
              templateVars, billVars
  <1>0. faults \in Nat /\ (faults' = 0 => faults' = faults) /\ UNCHANGED <<first, nextRun, template>>
    <2>1. faults \in Nat
      BY MaxFaultsAssumption
    <2>2. faults' = faults \/ faults' = faults + 1
      BY Zenon DEF HandlerStep, TakeNext, Issue, Insert, Link, AskStatus, StoreStatus
    <2>3. UNCHANGED <<first, nextRun, template>>
      BY DEF HandlerStep, TakeNext, Issue, Insert, Link, AskStatus, StoreStatus
    <2> QED
      BY <2>1, <2>2, <2>3
  <1> SUFFICES ASSUME faults' = 0, NEW b \in Cycles, Served(b)  PROVE Served(b)'
    BY <1>0 DEF DropsNothing
  <1>1. \A v \in Workers \ {w} : pc'[v] = pc[v] /\ on'[v] = on[v] /\ batch'[v] = batch[v]
    BY DEF HandlerStep, TakeNext, Issue, Insert, Link, AskStatus, StoreStatus
  <1>2. CASE issued[b] = 1
    <2>1. CASE Issue(w)
      <3>1. on[w] \in Bills /\ issued[on[w]] = 0 /\ b \in Bills
        BY <2>1 DEF Issue, IssueInv, Bills
      <3>2. issued'[b] = issued[b]
        BY <1>2, <2>1, <3>1 DEF Issue
      <3> QED
        BY <1>2, <3>2
    <2>2. CASE ~Issue(w)
      BY <1>2, <2>2 DEF HandlerStep, TakeNext, Insert, Link, AskStatus, StoreStatus
    <2> QED
      BY <2>1, <2>2
  <1>3. ASSUME NEW v \in Workers \ {w}, Underway(v, b)  PROVE Served(b)'
    BY <1>1, <1>3
  <1>4. ASSUME Underway(w, b)  PROVE Served(b)'
    <2>1. CASE TakeNext(w)
      BY <1>4, <2>1 DEF TakeNext
    <2>2. CASE Issue(w)
      <3>1. on[w] \in Bills /\ issued[on[w]] = 0 /\ b \in Bills
        BY <2>2 DEF Issue, IssueInv, Bills
      <3>2. CASE b = on[w]
        <4>1. issued' = [issued EXCEPT ![on[w]] = @ + 1]
          BY <1>0, <2>2 DEF Issue
        <4> QED
          BY <3>1, <3>2, <4>1
      <3>3. CASE b # on[w]
        BY <1>4, <2>2, <3>3 DEF Issue
      <3> QED
        BY <3>2, <3>3
    <2>3. CASE Insert(w) \/ Link(w) \/ AskStatus(w) \/ StoreStatus(w)
      BY <1>4, <2>3 DEF Insert, Link, AskStatus, StoreStatus
    <2> QED
      BY <2>1, <2>2, <2>3 DEF HandlerStep
  <1> QED
    BY <1>2, <1>3, <1>4

LEMMA OtherDropsNothing ==
    ASSUME TypeInv,
           \/ \E t \in Templates : CancelRecurring(t)
           \/ \E w \in Workers : \/ Stop(w)
                                 \/ \E b \in Bills : CreateInvoice(w, b) \/ OpenInvoice(w, b)
           \/ NextDay
           \/ \E b \in Bills, st \in BillStatus : BillMoves(b, st)
           \/ UNCHANGED vars
    PROVE  DropsNothing
  <1> USE DEF TypeInv, TypeOK, DropsNothing, Served, Underway, Start, templateVars, billVars,
              workerVars
  <1>1. ASSUME NEW t \in Templates, CancelRecurring(t)  PROVE DropsNothing
    BY <1>1 DEF CancelRecurring
  <1>2. ASSUME NEW w \in Workers, Stop(w)  PROVE DropsNothing
    <2>1. faults' # 0 /\ UNCHANGED <<first, nextRun, template>>
      BY <1>2, MaxFaultsAssumption DEF Stop, Fault
    <2> QED
      BY <2>1
  <1>3. ASSUME NEW w \in Workers, NEW b \in Bills, CreateInvoice(w, b) \/ OpenInvoice(w, b)
        PROVE  DropsNothing
    BY <1>3 DEF CreateInvoice, OpenInvoice
  <1>4. CASE NextDay \/ UNCHANGED vars
    BY <1>4 DEF NextDay, vars
  <1>5. ASSUME NEW b \in Bills, NEW st \in BillStatus, BillMoves(b, st)  PROVE DropsNothing
    BY <1>5 DEF BillMoves
  <1> QED
    BY <1>1, <1>2, <1>3, <1>4, <1>5

LEMMA StepSkipInv == TypeInv /\ IssueInv /\ SkipInv /\ [Next]_vars => SkipInv'
  BY ClaimSkipInv, CreateSkipInv, HandlerDropsNothing, OtherDropsNothing, NothingKeepsSkip
  DEF Next

(* As long as nothing fails, every cycle up to the next run is billed or   *)
(* about to be, whatever the interval and however long no worker ran.      *)
THEOREM NoneSkipped == Spec => []NoCycleSkipped
  <1>1. Init => SkipInv
    BY DEF Init, SkipInv, NoCycleSkipped
  <1>2. SkipInv => NoCycleSkipped
    BY DEF SkipInv
  <1> QED
    BY <1>1, <1>2, InitTypeInv, StepTypeInv, InitIssueInv, StepIssueInv, StepSkipInv, PTL
    DEF Spec

=============================================================================
