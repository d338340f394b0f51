------------------------ MODULE DepositLedgerProofs ------------------------
(***************************************************************************)
(* Proofs about Deposits and DepositLedger, for any sets of top-ups,       *)
(* sessions and workers, any amounts and any number of faults.             *)
(***************************************************************************)
EXTENDS DepositLedger, SumTheorems

-----------------------------------------------------------------------------
(* Deposits, with record_deposit as one step.                              *)

(* A busy worker works on a deposit.                                       *)
BusyOnDeposit == \A w \in Workers : pc[w] # "idle" => on[w] \in Deposits

TypeInv == TypeOK /\ BusyOnDeposit

(* What makes CreditEarned inductive: the provider's word, and a worker    *)
(* that has heard it, are remembered by settledOnce.                       *)
SettledRemembered ==
    /\ \A d \in Deposits : order[d] = "settled" => d \in settledOnce
    /\ \A w \in Workers : pc[w] = "credit" => on[w] \in settledOnce

(* What makes CreditedOnce inductive: a deposit that is not credited has   *)
(* no entry yet, so whoever claims it is the first to post it.             *)
PostedIsCredited == \A d \in Deposits : posted[d] # 0 => d \in credited

CreditInv == SettledRemembered /\ CreditEarned /\ PostedIsCredited /\ CreditedOnce

-----------------------------------------------------------------------------
LEMMA InitInv == Init => TypeInv /\ CreditInv /\ ClaimedIsPosted
  BY NoDepositAssumption, MaxFaultsAssumption
  DEF Init, TypeInv, TypeOK, BusyOnDeposit, Status, OrderStatus, Steps,
      CreditInv, SettledRemembered, CreditEarned, PostedIsCredited, CreditedOnce, ClaimedIsPosted

(* A fault stays within its bound.                                         *)
LEMMA FaultsBounded ==
    ASSUME TypeOK, UNCHANGED faults \/ Fault
    PROVE  faults' \in 0 .. MaxFaults
  BY MaxFaultsAssumption DEF TypeOK, Fault

LEMMA HandlerTypeInv ==
    ASSUME TypeInv, NEW w \in Workers, HandlerStep(w)
    PROVE  TypeInv'
  <1>0. faults' \in 0 .. MaxFaults
    <2>1. UNCHANGED faults \/ Fault
      BY Zenon DEF HandlerStep, PullFunds, StoreReference, Poll, MarkFailed, Check,
                   MarkFailedGuarded, Credit, Record, RecordFails, TopUpStep
    <2> QED
      BY <2>1, FaultsBounded DEF TypeInv
  <1> USE <1>0 DEF TypeInv, TypeOK, BusyOnDeposit, Status, OrderStatus, Steps, Start, Goto, Finish,
                   rowVars, entryVars, orderVars, Loses
  <1>1. ASSUME NEW created \in BOOLEAN, PullFunds(w, created)  PROVE TypeInv'
    BY <1>1 DEF PullFunds
  <1>2. CASE StoreReference(w)
    BY <1>2 DEF StoreReference
  <1>3. CASE Poll(w)
    BY <1>3 DEF Poll
  <1>4. CASE MarkFailed(w)
    BY <1>4 DEF MarkFailed
  <1>5. CASE Check(w)
    BY <1>5 DEF Check
  <1>6. CASE MarkFailedGuarded(w)
    BY <1>6 DEF MarkFailedGuarded
  <1>7. CASE Credit(w)
    BY <1>7 DEF Credit
  <1>8. CASE Record(w) \/ RecordFails(w)
    BY <1>8 DEF Record, RecordFails
  <1> QED
    BY <1>1, <1>2, <1>3, <1>4, <1>5, <1>6, <1>7, <1>8 DEF HandlerStep, TopUpStep

LEMMA StepTypeInv == TypeInv /\ [Next]_vars => TypeInv'
  <1> SUFFICES ASSUME TypeInv, [Next]_vars  PROVE TypeInv'
    OBVIOUS
  <1> USE DEF TypeInv, TypeOK, BusyOnDeposit, Status, OrderStatus, Steps, Start, Finish,
              rowVars, entryVars, orderVars, workerVars, Loses
  <1>1. ASSUME NEW w \in Workers, NEW d \in Deposits, AddFunds(w, d)  PROVE TypeInv'
    BY <1>1 DEF AddFunds
  <1>2. ASSUME NEW w \in Workers, NEW d \in Deposits, Select(w, d)  PROVE TypeInv'
    BY <1>2 DEF Select
  <1>3. ASSUME NEW w \in Workers, HandlerStep(w)  PROVE TypeInv'
    BY <1>3, HandlerTypeInv
  <1>4. ASSUME NEW w \in Workers, Stop(w)  PROVE TypeInv'
    BY <1>4, FaultsBounded DEF Stop
  <1>5. ASSUME NEW d \in Deposits, NEW st \in OrderStatus, OrderMoves(d, st)  PROVE TypeInv'
    BY <1>5 DEF OrderMoves
  <1>6. CASE UNCHANGED vars
    BY <1>6 DEF vars
  <1> QED
    BY <1>1, <1>2, <1>3, <1>4, <1>5, <1>6 DEF Next

-----------------------------------------------------------------------------
(* Steps that neither credit nor post, nor send a worker to do so.         *)
LEMMA CreditFrame ==
    ASSUME TypeInv, CreditInv,
           UNCHANGED <<credited, posted>>,
           settledOnce \subseteq settledOnce',
           \A d \in Deposits : order'[d] = "settled" => d \in settledOnce',
           \A w \in Workers :
               /\ pc'[w] = "credit" => on'[w] \in settledOnce'
               /\ pc'[w] = "post" => pc[w] = "post" /\ on'[w] = on[w]
    PROVE  CreditInv'
  BY DEF CreditInv, SettledRemembered, CreditEarned, PostedIsCredited, CreditedOnce

LEMMA CreditStep ==
    ASSUME TypeInv, CreditInv, NEW w \in Workers, Credit(w)
    PROVE  CreditInv'
  <1>0. /\ pc[w] = "credit" /\ on[w] \in Deposits /\ on[w] \in settledOnce
        /\ UNCHANGED <<posted, order, settledOnce>>
    BY DEF TypeInv, BusyOnDeposit, CreditInv, SettledRemembered, Credit, orderVars
  <1>1. SettledRemembered' /\ CreditEarned' /\ PostedIsCredited'
    BY <1>0 DEF TypeInv, TypeOK, CreditInv, SettledRemembered, CreditEarned, PostedIsCredited,
                Credit, Start, Goto, Finish
  <1>2. CASE /\ on[w] \notin credited
             /\ credited' = credited \union {on[w]}
             /\ Goto(w, "post")
    <2>1. posted[on[w]] = 0
      BY <1>0, <1>2 DEF CreditInv, PostedIsCredited
    <2>2. \A v \in Workers : ~(on[v] = on[w] /\ pc[v] = "post")
      BY <1>0, <1>2 DEF CreditInv, CreditedOnce
    <2> QED
      BY <1>0, <1>1, <1>2, <2>1, <2>2
      DEF TypeInv, TypeOK, CreditInv, CreditedOnce, Goto, Start
  <1>3. CASE credited \subseteq credited' /\ Finish(w)
    BY <1>0, <1>1, <1>3 DEF TypeInv, TypeOK, CreditInv, CreditedOnce, Finish, Start
  <1> QED
    BY <1>2, <1>3 DEF Credit, MayClaim

LEMMA RecordStep ==
    ASSUME TypeInv, CreditInv, NEW w \in Workers, Record(w)
    PROVE  CreditInv'
  <1>0. /\ pc[w] = "post" /\ on[w] \in Deposits
        /\ UNCHANGED <<credited, order, settledOnce>>
        /\ on[w] \in credited /\ posted[on[w]] = 0
        /\ \A v \in Workers : on[v] = on[w] /\ pc[v] = "post" => v = w
    BY DEF TypeInv, BusyOnDeposit, CreditInv, CreditedOnce, Record, rowVars, orderVars
  <1>1. SettledRemembered' /\ CreditEarned' /\ PostedIsCredited'
    BY <1>0 DEF TypeInv, TypeOK, CreditInv, SettledRemembered, CreditEarned, PostedIsCredited,
                Record, Start, Finish
  <1>2. CreditedOnce'
    BY <1>0 DEF TypeInv, TypeOK, CreditInv, CreditedOnce, Record, Start, Finish
  <1> QED
    BY <1>1, <1>2 DEF CreditInv

LEMMA StepCreditInv == TypeInv /\ CreditInv /\ [Next]_vars => CreditInv'
  <1> SUFFICES ASSUME TypeInv, CreditInv, [Next]_vars  PROVE CreditInv'
    OBVIOUS
  <1>1. ASSUME NEW w \in Workers, Credit(w)  PROVE CreditInv'
    BY <1>1, CreditStep
  <1>2. ASSUME NEW w \in Workers, Record(w)  PROVE CreditInv'
    BY <1>2, RecordStep
  <1> USE DEF TypeInv, TypeOK, CreditInv, SettledRemembered, Start, Goto, Finish,
              rowVars, entryVars, orderVars, workerVars
  <1>3. ASSUME NEW w \in Workers, NEW d \in Deposits, AddFunds(w, d) \/ Select(w, d)
        PROVE  CreditInv'
    BY <1>3, CreditFrame DEF AddFunds, Select
  <1>4. ASSUME NEW w \in Workers, NEW created \in BOOLEAN, PullFunds(w, created)
        PROVE  CreditInv'
    BY <1>4, CreditFrame DEF PullFunds
  <1>5. ASSUME NEW w \in Workers, StoreReference(w) \/ MarkFailed(w) \/ MarkFailedGuarded(w)
        PROVE  CreditInv'
    BY <1>5, CreditFrame DEF StoreReference, MarkFailed, MarkFailedGuarded
  <1>6. ASSUME NEW w \in Workers, Poll(w) \/ Check(w)  PROVE CreditInv'
    BY <1>6, CreditFrame DEF Poll, Check, IsSettled, BusyOnDeposit
  <1>7. ASSUME NEW w \in Workers, Stop(w) \/ RecordFails(w)  PROVE CreditInv'
    BY <1>7, CreditFrame DEF Stop, RecordFails
  <1>8. ASSUME NEW d \in Deposits, NEW st \in OrderStatus, OrderMoves(d, st)  PROVE CreditInv'
    BY <1>8, CreditFrame DEF OrderMoves
  <1>9. CASE UNCHANGED vars
    BY <1>9, CreditFrame DEF vars
  <1> QED
    BY <1>1, <1>2, <1>3, <1>4, <1>5, <1>6, <1>7, <1>8, <1>9 DEF Next, HandlerStep, TopUpStep

-----------------------------------------------------------------------------
(* Whoever leaves a claimed deposit without posting it marks it as lost.   *)
AccountedFor(d) ==
    \/ posted[d] = 1
    \/ \E w \in Workers : on[w] = d /\ pc[w] = "post"
    \/ d \in lost

LEMMA ClaimStep ==
    ASSUME TypeInv, ClaimedIsPosted, NEW v \in Workers, Credit(v), NEW d \in credited'
    PROVE  AccountedFor(d)'
  <1> USE DEF TypeInv, TypeOK, AccountedFor, Credit, Start, Goto, Finish, Loses
  <1>1. CASE d \in credited
    BY <1>1 DEF ClaimedIsPosted
  <1>2. CASE d \notin credited
    BY <1>2
  <1> QED
    BY <1>1, <1>2

LEMMA PostStep ==
    ASSUME TypeInv, CreditInv, ClaimedIsPosted, NEW v \in Workers, Record(v), NEW d \in credited'
    PROVE  AccountedFor(d)'
  <1>0. d \in credited /\ d \in Deposits
    BY DEF TypeInv, TypeOK, Record, rowVars
  <1>1. CASE on[v] = d
    BY <1>0, <1>1 DEF TypeInv, TypeOK, CreditInv, CreditedOnce, Record, Start, Finish, AccountedFor
  <1>2. CASE on[v] # d
    BY <1>0, <1>2 DEF TypeInv, TypeOK, ClaimedIsPosted, Record, Start, Finish, AccountedFor
  <1> QED
    BY <1>1, <1>2

LEMMA StepClaimedIsPosted ==
    TypeInv /\ CreditInv /\ ClaimedIsPosted /\ [Next]_vars => ClaimedIsPosted'
  <1> SUFFICES ASSUME TypeInv, CreditInv, ClaimedIsPosted, [Next]_vars, NEW d \in credited'
               PROVE  AccountedFor(d)'
    BY DEF ClaimedIsPosted, AccountedFor
  <1>1. ASSUME NEW v \in Workers, Credit(v)  PROVE AccountedFor(d)'
    BY <1>1, ClaimStep
  <1>2. ASSUME NEW v \in Workers, Record(v)  PROVE AccountedFor(d)'
    BY <1>2, PostStep
  <1>3. CASE /\ UNCHANGED <<credited, posted>>
             /\ lost \subseteq lost'
             /\ \A w \in Workers : pc[w] = "post" => \/ pc'[w] = "post" /\ on'[w] = on[w]
                                                  \/ on[w] \in lost'
    BY <1>3 DEF ClaimedIsPosted, AccountedFor
  <1> USE <1>3 DEF TypeInv, TypeOK, Start, Goto, Finish, rowVars, entryVars, workerVars
  <1>4. ASSUME NEW w \in Workers, NEW e \in Deposits, AddFunds(w, e) \/ Select(w, e)
        PROVE  AccountedFor(d)'
    BY <1>4 DEF AddFunds, Select
  <1>5. ASSUME NEW w \in Workers, NEW created \in BOOLEAN, PullFunds(w, created)
        PROVE  AccountedFor(d)'
    BY <1>5 DEF PullFunds
  <1>6. ASSUME NEW w \in Workers,
               StoreReference(w) \/ MarkFailed(w) \/ MarkFailedGuarded(w) \/ Poll(w) \/ Check(w)
        PROVE  AccountedFor(d)'
    BY <1>6 DEF StoreReference, MarkFailed, MarkFailedGuarded, Poll, Check
  <1>7. ASSUME NEW w \in Workers, Stop(w) \/ RecordFails(w)  PROVE AccountedFor(d)'
    BY <1>7 DEF Stop, RecordFails, Loses
  <1>8. ASSUME NEW e \in Deposits, NEW st \in OrderStatus, OrderMoves(e, st)
        PROVE  AccountedFor(d)'
    BY <1>8 DEF OrderMoves
  <1>9. CASE UNCHANGED vars
    BY <1>9 DEF vars
  <1> QED
    BY <1>1, <1>2, <1>4, <1>5, <1>6, <1>7, <1>8, <1>9 DEF Next, HandlerStep, TopUpStep

(* The types of all variables, for every number of deposits and workers.   *)
THEOREM TypeCorrect == Spec => [](TypeOK /\ BusyOnDeposit)
  <1>1. Init => TypeInv
    BY InitInv
  <1> QED
    BY <1>1, StepTypeInv, PTL DEF Spec, TypeInv

(* A top-up is posted to the ledger at most once, however many pollers and *)
(* add_funds calls race.                                                   *)
THEOREM CreditsOnce == Spec => []CreditedOnce
  <1>1. Init => TypeInv /\ CreditInv
    BY InitInv
  <1>2. CreditInv => CreditedOnce
    BY DEF CreditInv
  <1> QED
    BY <1>1, <1>2, StepTypeInv, StepCreditInv, PTL DEF Spec

(* A top-up is credited only after its bank debit settled.                 *)
THEOREM CreditsAreEarned == Spec => []CreditEarned
  <1>1. Init => TypeInv /\ CreditInv
    BY InitInv
  <1>2. CreditInv => CreditEarned
    BY DEF CreditInv
  <1> QED
    BY <1>1, <1>2, StepTypeInv, StepCreditInv, PTL DEF Spec

(* A top-up whose credit was claimed is in the ledger, or its worker is    *)
(* about to post it, or a fault came between the claim and the entry.      *)
THEOREM ClaimsArePosted == Spec => []ClaimedIsPosted
  <1>1. Init => TypeInv /\ CreditInv /\ ClaimedIsPosted
    BY InitInv
  <1> QED
    BY <1>1, StepTypeInv, StepCreditInv, StepClaimedIsPosted, PTL DEF Spec
-----------------------------------------------------------------------------
(* DepositLedger, statement by statement.                                  *)

LedgerTypeInv == LedgerTypeOK /\ outcome \in [Calls -> Outcomes]

(* Every line is booked to an account of the merchant.                     *)
LinesHaveAccounts == \A p \in postings : p.number \in 1 .. accounts[p.name]

EntryOf(subject, kind) == {p \in postings : p.subject = subject /\ p.kind = kind}

(* One line on each of two accounts, on the sides that the kind asks for.  *)
LineOf(subject, kind, name, number) ==
    [subject |-> subject, kind |-> kind, name |-> name, number |-> number,
     side |-> SidesOf(kind)[name]]

IsWhole(subject, kind) ==
    \E at \in [Names -> Nat] :
        EntryOf(subject, kind) = {LineOf(subject, kind, name, at[name]) : name \in Names}

(* The books hold exactly the entries that were posted, each of them once  *)
(* and whole.                                                              *)
EntriesAreWhole ==
    /\ \A d \in Deposits :
           IF posted[d] = 0 THEN EntryOf(d, "deposit") = {} ELSE IsWhole(d, "deposit")
    /\ \A s \in Sessions, kind \in {"settlement", "reversal"} :
           IF outcome[<<s, kind>>] = "posted" THEN IsWhole(s, kind) ELSE EntryOf(s, kind) = {}
    /\ \A p \in postings : IF p.kind = "deposit" THEN p.subject \in Deposits
                                                 ELSE p.subject \in Sessions

-----------------------------------------------------------------------------
(* The composition implements Deposits: every step of the two together is  *)
(* a step of a top-up or none, so what is proved of Deposits carries over. *)
LEMMA StepRefines == [DepositLedgerNext]_allVars => [Next]_vars
  <1> SUFFICES ASSUME [DepositLedgerNext]_allVars  PROVE [Next]_vars
    OBVIOUS
  <1>1. ASSUME NEW w \in Workers, WorkerStep(w)  PROVE [Next]_vars
    BY <1>1 DEF WorkerStep, RecordDeposit, Next, HandlerStep
  <1>2. ASSUME NEW c \in Calls, RecordSession(c)  PROVE [Next]_vars
    BY <1>2 DEF RecordSession
  <1>3. ASSUME NEW c \in Calls, SessionCallFails(c)  PROVE [Next]_vars
    BY <1>3 DEF SessionCallFails
  <1> QED
    BY <1>1, <1>2, <1>3 DEF DepositLedgerNext, PassSelects, Next, allVars

-----------------------------------------------------------------------------
(* The helpers of the ledger.                                              *)
LEMMA SidesAreSides ==
    ASSUME NEW kind \in Kinds, NEW name \in Names
    PROVE  SidesOf(kind)[name] \in Sides
  BY DEF SidesOf, Names, Sides

(* verify_balance passes every entry that the record_ functions make.      *)
LEMMA EntriesBalance ==
    ASSUME NEW subject \in Deposits \union Sessions, NEW kind \in Kinds
    PROVE  Balanced(subject, kind)
  <1>1. AmountOf[subject] \in Nat \ {0}
    BY AmountOfAssumption
  <1>2. CASE kind = "reversal"
    BY <1>1, <1>2 DEF Balanced, SideTotal, SidesOf
  <1>3. CASE kind # "reversal"
    BY <1>1, <1>3 DEF Balanced, SideTotal, SidesOf
  <1> QED
    BY <1>2, <1>3

(* What one commit adds: the lines of its entry, on accounts that exist.   *)
LEMMA CommitAdds ==
    ASSUME LedgerTypeInv, NEW w \in Workers \union Calls,
           NEW subject \in Deposits \union Sessions, NEW kind \in Kinds,
           Commit(w, subject, kind)
    PROVE  \E at \in [Names -> Nat] :
               /\ \A name \in Names : at[name] \in 1 .. accounts[name]
               /\ postings' = postings \union {LineOf(subject, kind, name, at[name]) :
                                                 name \in Names}
               /\ \A name \in Names : LineOf(subject, kind, name, at[name]) \in Posting
  <1>1. Balanced(subject, kind)
    BY EntriesBalance
  <1>2. PICK cash \in 1 .. accounts["Cash"], settlement \in 1 .. accounts["Settlement"] :
            postings' = postings \union
                            Lines([Cash |-> cash, Settlement |-> settlement], subject, kind)
    BY <1>1 DEF Commit
  <1> DEFINE at == [Cash |-> cash, Settlement |-> settlement]
  <1>3. at \in [Names -> Nat] /\ \A name \in Names : at[name] \in 1 .. accounts[name]
    BY DEF LedgerTypeInv, LedgerTypeOK, Names
  <1>4. postings' = postings \union {LineOf(subject, kind, name, at[name]) : name \in Names}
    BY <1>2 DEF Lines, LineOf
  <1> HIDE DEF at
  <1>5. \A name \in Names : LineOf(subject, kind, name, at[name]) \in Posting
    BY <1>3, SidesAreSides DEF LineOf, Posting
  <1> QED
    BY <1>3, <1>4, <1>5

-----------------------------------------------------------------------------
LEMMA LedgerInitInv ==
    DepositLedgerInit => Init /\ LedgerTypeInv /\ LinesHaveAccounts /\ EntriesAreWhole
  <1> SUFFICES ASSUME DepositLedgerInit
               PROVE  LedgerTypeInv /\ LinesHaveAccounts /\ EntriesAreWhole
    BY DEF DepositLedgerInit
  <1> USE DEF DepositLedgerInit, LedgerInit
  <1>1. LedgerTypeInv
    BY DEF LedgerTypeInv, LedgerTypeOK, Stages, Outcomes
  <1>2. LinesHaveAccounts
    BY DEF LinesHaveAccounts
  <1>3. EntriesAreWhole
    BY DEF EntriesAreWhole, EntryOf, Init, Calls
  <1> QED
    BY <1>1, <1>2, <1>3

(* The steps of a call up to its transaction.                              *)
LEMMA EnsureInv ==
    ASSUME LedgerTypeOK, LinesHaveAccounts, NEW w \in Workers \union Calls, EnsureAccounts(w)
    PROVE  LedgerTypeOK' /\ LinesHaveAccounts' /\ UNCHANGED postings
  <1> DEFINE Goal == LedgerTypeOK' /\ LinesHaveAccounts' /\ UNCHANGED postings
  <1> USE DEF LedgerTypeOK, Stages, Names, LinesHaveAccounts, Posting, GoOn
  <1>1. ASSUME NEW name \in Names,
               NEW here \in {"ensure_cash", "ensure_settlement"},
               NEW insert \in {"insert_cash", "insert_settlement"},
               NEW after \in {"ensure_settlement", "commit"},
               Ensure(w, name, here, insert, after)
        PROVE  Goal
    BY <1>1 DEF Ensure
  <1>2. ASSUME NEW name \in Names,
               NEW here \in {"insert_cash", "insert_settlement"},
               NEW after \in {"ensure_settlement", "commit"},
               Insert(w, name, here, after)
        PROVE  Goal
    <2>1. LedgerTypeOK' /\ UNCHANGED postings
      BY <1>2 DEF Insert
    <2>2. \A n \in Names : accounts[n] \in Nat /\ accounts'[n] \in Nat /\ accounts[n] <= accounts'[n]
      BY <1>2 DEF Insert
    <2>3. LinesHaveAccounts'
      BY <2>1, <2>2
    <2> QED
      BY <2>1, <2>3
  <1> QED
    BY <1>1, <1>2 DEF EnsureAccounts

LEMMA CommitInv ==
    ASSUME LedgerTypeInv, LinesHaveAccounts, NEW w \in Workers \union Calls,
           NEW subject \in Deposits \union Sessions, NEW kind \in Kinds,
           Commit(w, subject, kind)
    PROVE  LedgerTypeOK' /\ LinesHaveAccounts'
  <1>1. PICK at \in [Names -> Nat] :
            /\ \A name \in Names : at[name] \in 1 .. accounts[name]
            /\ postings' = postings \union {LineOf(subject, kind, name, at[name]) : name \in Names}
            /\ \A name \in Names : LineOf(subject, kind, name, at[name]) \in Posting
    BY CommitAdds
  <1>2. LedgerTypeOK'
    BY <1>1 DEF LedgerTypeInv, LedgerTypeOK, Commit, GoOn, Stages
  <1>3. LinesHaveAccounts'
    <2> SUFFICES ASSUME NEW p \in postings'  PROVE p.number \in 1 .. accounts[p.name]
      BY DEF LinesHaveAccounts, Commit
    <2>1. CASE p \in postings
      BY <2>1 DEF LinesHaveAccounts
    <2>2. CASE \E name \in Names : p = LineOf(subject, kind, name, at[name])
      BY <1>1, <2>2 DEF LineOf
    <2> QED
      BY <1>1, <2>1, <2>2
  <1> QED
    BY <1>2, <1>3

LEMMA AbandonInv ==
    ASSUME LedgerTypeOK, LinesHaveAccounts, NEW w \in Workers \union Calls, Abandon(w)
    PROVE  LedgerTypeOK' /\ LinesHaveAccounts' /\ UNCHANGED postings
  BY DEF LedgerTypeOK, LinesHaveAccounts, Abandon, GoOn, Stages

LEMMA CommitWhole ==
    ASSUME LedgerTypeInv, NEW w \in Workers \union Calls,
           NEW subject \in Deposits \union Sessions, NEW kind \in Kinds,
           Commit(w, subject, kind), EntryOf(subject, kind) = {}
    PROVE  /\ IsWhole(subject, kind)'
           /\ \A x, k : ~(x = subject /\ k = kind) => EntryOf(x, k)' = EntryOf(x, k)
  <1>0. PICK at \in [Names -> Nat] :
            postings' = postings \union {LineOf(subject, kind, name, at[name]) : name \in Names}
    BY CommitAdds
  <1> DEFINE new == {LineOf(subject, kind, name, at[name]) : name \in Names}
  <1>1. postings' = postings \union new
    BY <1>0
  <1>2. \A p \in new : p.subject = subject /\ p.kind = kind
    BY DEF LineOf
  <1>3. EntryOf(subject, kind)' = new
    BY <1>1, <1>2 DEF EntryOf
  <1>4. IsWhole(subject, kind)'
    BY <1>1, <1>3 DEF IsWhole
  <1>5. ASSUME NEW x, NEW k, ~(x = subject /\ k = kind)  PROVE EntryOf(x, k)' = EntryOf(x, k)
    BY <1>1, <1>2, <1>5 DEF EntryOf
  <1> QED
    BY <1>4, <1>5

LEMMA WholeFrame ==
    ASSUME EntriesAreWhole, UNCHANGED <<postings, posted, outcome>>
    PROVE  EntriesAreWhole'
  BY DEF EntriesAreWhole, IsWhole, EntryOf

LEMMA WholeKept ==
    ASSUME NEW x, NEW k, EntryOf(x, k)' = EntryOf(x, k), IsWhole(x, k)
    PROVE  IsWhole(x, k)'
  BY DEF IsWhole

LEMMA DepositCommitted ==
    ASSUME TypeInv, CreditInv, LedgerTypeInv, EntriesAreWhole,
           NEW w \in Workers, NEW e \in Deposits, e = on[w],
           Commit(w, e, "deposit"), Record(w), UNCHANGED outcome
    PROVE  EntriesAreWhole'
  <1>1. /\ posted[e] = 0
        /\ posted' = [posted EXCEPT ![e] = @ + 1]
        /\ posted \in [Deposits -> Nat]
    BY DEF TypeInv, TypeOK, BusyOnDeposit, CreditInv, CreditedOnce, Record
  <1>2. EntryOf(e, "deposit") = {}
    BY <1>1 DEF EntriesAreWhole
  <1>3. /\ IsWhole(e, "deposit")'
        /\ \A x, k : ~(x = e /\ k = "deposit") => EntryOf(x, k)' = EntryOf(x, k)
    BY <1>1, <1>2, CommitWhole DEF Kinds
  <1>4. ASSUME NEW d \in Deposits
        PROVE  IF posted'[d] = 0 THEN EntryOf(d, "deposit")' = {} ELSE IsWhole(d, "deposit")'
    <2>1. CASE d = e
      BY <1>1, <1>3, <2>1
    <2>2. CASE d # e
      BY <1>1, <1>3, <2>2, WholeKept DEF EntriesAreWhole
    <2> QED
      BY <2>1, <2>2
  <1>5. ASSUME NEW s \in Sessions, NEW kind \in {"settlement", "reversal"}
        PROVE  IF outcome'[<<s, kind>>] = "posted" THEN IsWhole(s, kind)' ELSE EntryOf(s, kind)' = {}
    BY <1>3, WholeKept DEF EntriesAreWhole
  <1>6. ASSUME NEW p \in postings'
        PROVE  IF p.kind = "deposit" THEN p.subject \in Deposits ELSE p.subject \in Sessions
    BY <1>1, CommitAdds DEF EntriesAreWhole, LineOf, Kinds
  <1> QED
    BY <1>4, <1>5, <1>6 DEF EntriesAreWhole

LEMMA SessionCommitted ==
    ASSUME LedgerTypeInv, EntriesAreWhole, UNCHANGED posted,
           NEW s \in Sessions, NEW kind \in {"settlement", "reversal"},
           outcome[<<s, kind>>] = "open", Commit(<<s, kind>>, s, kind),
           outcome' = [outcome EXCEPT ![<<s, kind>>] = "posted"]
    PROVE  EntriesAreWhole'
  <1>1. kind \in Kinds /\ kind # "deposit" /\ <<s, kind>> \in Calls
    BY DEF Kinds, Calls
  <1>2. EntryOf(s, kind) = {}
    BY DEF EntriesAreWhole
  <1>3. /\ IsWhole(s, kind)'
        /\ \A x, k : ~(x = s /\ k = kind) => EntryOf(x, k)' = EntryOf(x, k)
    BY <1>1, <1>2, CommitWhole
  <1>4. ASSUME NEW d \in Deposits
        PROVE  IF posted'[d] = 0 THEN EntryOf(d, "deposit")' = {} ELSE IsWhole(d, "deposit")'
    BY <1>1, <1>3, WholeKept DEF EntriesAreWhole
  <1>5. ASSUME NEW r \in Sessions, NEW k \in {"settlement", "reversal"}
        PROVE  IF outcome'[<<r, k>>] = "posted" THEN IsWhole(r, k)' ELSE EntryOf(r, k)' = {}
    <2>1. CASE r = s /\ k = kind
      BY <1>1, <1>3, <2>1 DEF LedgerTypeInv
    <2>2. CASE ~(r = s /\ k = kind)
      <3>1. outcome'[<<r, k>>] = outcome[<<r, k>>]
        BY <2>2 DEF LedgerTypeInv, Calls
      <3> QED
        BY <1>3, <2>2, <3>1, WholeKept DEF EntriesAreWhole
    <2> QED
      BY <2>1, <2>2
  <1>6. ASSUME NEW p \in postings'
        PROVE  IF p.kind = "deposit" THEN p.subject \in Deposits ELSE p.subject \in Sessions
    BY <1>1, CommitAdds DEF EntriesAreWhole, LineOf
  <1> QED
    BY <1>4, <1>5, <1>6 DEF EntriesAreWhole

(* A call that is given up leaves no line behind.                          *)
LEMMA SessionGivenUp ==
    ASSUME LedgerTypeInv, EntriesAreWhole, UNCHANGED <<postings, posted>>,
           NEW c \in Calls, outcome[c] = "open", outcome' = [outcome EXCEPT ![c] = "lost"]
    PROVE  EntriesAreWhole'
  <1>1. \A x, k : EntryOf(x, k)' = EntryOf(x, k)
    BY DEF EntryOf
  <1>2. ASSUME NEW s \in Sessions, NEW kind \in {"settlement", "reversal"}
        PROVE  IF outcome'[<<s, kind>>] = "posted" THEN IsWhole(s, kind)' ELSE EntryOf(s, kind)' = {}
    <2>1. <<s, kind>> \in Calls
      BY DEF Calls
    <2>2. outcome'[<<s, kind>>] = "posted" <=> outcome[<<s, kind>>] = "posted"
      BY <2>1 DEF LedgerTypeInv
    <2> QED
      BY <1>1, <2>2, WholeKept DEF EntriesAreWhole
  <1>3. ASSUME NEW d \in Deposits
        PROVE  IF posted'[d] = 0 THEN EntryOf(d, "deposit")' = {} ELSE IsWhole(d, "deposit")'
    BY <1>1, WholeKept DEF EntriesAreWhole
  <1> QED
    BY <1>2, <1>3 DEF EntriesAreWhole

-----------------------------------------------------------------------------
LedgerInv == LedgerTypeInv /\ LinesHaveAccounts /\ EntriesAreWhole

LEMMA DepositLedgerInv ==
    ASSUME TypeInv, CreditInv, LedgerInv,
           NEW w \in Workers, RecordDeposit(w), UNCHANGED outcome
    PROVE  LedgerInv'
  <1> USE DEF LedgerInv
  <1>1. outcome' \in [Calls -> Outcomes]
    BY DEF LedgerTypeInv
  <1>2. CASE EnsureAccounts(w) /\ UNCHANGED vars
    BY <1>1, <1>2, EnsureInv, WholeFrame DEF LedgerTypeInv, vars, entryVars
  <1>3. CASE Commit(w, on[w], "deposit") /\ Record(w)
    <2>1. PICK e \in Deposits : e = on[w]
      BY <1>3 DEF TypeInv, BusyOnDeposit, Record
    <2>2. LedgerTypeOK' /\ LinesHaveAccounts'
      BY <1>3, <2>1, CommitInv DEF Kinds
    <2> QED
      BY <1>1, <1>3, <2>1, <2>2, DepositCommitted DEF LedgerTypeInv
  <1>4. CASE Abandon(w) /\ RecordFails(w)
    BY <1>1, <1>4, AbandonInv, WholeFrame DEF LedgerTypeInv, RecordFails
  <1> QED
    BY <1>2, <1>3, <1>4 DEF RecordDeposit

LEMMA SessionLedgerInv ==
    ASSUME LedgerInv, NEW c \in Calls, RecordSession(c) \/ SessionCallFails(c)
    PROVE  LedgerInv'
  <1> USE DEF LedgerInv
  <1>0. UNCHANGED posted
    BY DEF RecordSession, SessionCallFails, vars, entryVars
  <1>1. PICK s \in Sessions, kind \in {"settlement", "reversal"} : c = <<s, kind>>
    BY DEF Calls
  <1>2. CASE EnsureAccounts(c) /\ UNCHANGED outcome
    BY <1>0, <1>2, EnsureInv, WholeFrame DEF LedgerTypeInv
  <1>3. CASE /\ outcome[c] = "open"
             /\ Commit(c, s, kind)
             /\ outcome' = [outcome EXCEPT ![c] = "posted"]
    <2>1. LedgerTypeOK' /\ LinesHaveAccounts'
      BY <1>3, CommitInv DEF Kinds
    <2>2. EntriesAreWhole'
      BY <1>0, <1>1, <1>3, SessionCommitted
    <2> QED
      BY <1>3, <2>1, <2>2 DEF LedgerTypeInv, Outcomes
  <1>4. CASE SessionCallFails(c)
    <2>1. LedgerTypeOK' /\ LinesHaveAccounts' /\ UNCHANGED postings
      BY <1>4, AbandonInv DEF LedgerTypeInv, SessionCallFails
    <2>2. EntriesAreWhole'
      BY <1>0, <1>4, <2>1, SessionGivenUp DEF SessionCallFails
    <2> QED
      BY <1>4, <2>1, <2>2 DEF LedgerTypeInv, SessionCallFails, Outcomes
  <1> QED
    BY <1>1, <1>2, <1>3, <1>4 DEF RecordSession

LEMMA StepLedgerInv ==
    TypeInv /\ CreditInv /\ LedgerInv /\ [DepositLedgerNext]_allVars => LedgerInv'
  <1> SUFFICES ASSUME TypeInv, CreditInv, LedgerInv, [DepositLedgerNext]_allVars
               PROVE  LedgerInv'
    OBVIOUS
  <1> USE DEF LedgerInv
  <1>1. CASE UNCHANGED <<ledgerVars, posted, outcome>>
    <2>1. EntriesAreWhole'
      BY <1>1, WholeFrame DEF ledgerVars
    <2>2. LedgerTypeInv' /\ LinesHaveAccounts'
      BY <1>1 DEF LedgerTypeInv, LedgerTypeOK, LinesHaveAccounts, ledgerVars
    <2> QED
      BY <2>1, <2>2
  <1>2. ASSUME NEW w \in Workers, WorkerStep(w)  PROVE LedgerInv'
    <2>1. CASE TopUpStep(w) /\ UNCHANGED <<ledgerVars, outcome>>
      BY <1>1, <2>1 DEF TopUpStep, PullFunds, StoreReference, Poll, MarkFailed, Check,
                        MarkFailedGuarded, Credit, entryVars
    <2>2. CASE RecordDeposit(w) /\ UNCHANGED outcome
      BY <2>2, DepositLedgerInv
    <2> QED
      BY <1>2, <2>1, <2>2 DEF WorkerStep
  <1>3. ASSUME NEW c \in Calls, RecordSession(c) \/ SessionCallFails(c)  PROVE LedgerInv'
    BY <1>3, SessionLedgerInv
  <1>4. ASSUME NEW w \in Workers, Stop(w), Abandon(w), UNCHANGED outcome  PROVE LedgerInv'
    BY <1>4, AbandonInv, WholeFrame DEF Stop, LedgerTypeInv
  <1>5. ASSUME NEW w \in Workers, NEW d \in Deposits,
               AddFunds(w, d) \/ Select(w, d), UNCHANGED <<ledgerVars, outcome>>
        PROVE  LedgerInv'
    BY <1>1, <1>5 DEF AddFunds, Select, entryVars
  <1>6. ASSUME NEW d \in Deposits, NEW st \in OrderStatus, OrderMoves(d, st),
               UNCHANGED <<ledgerVars, outcome>>
        PROVE  LedgerInv'
    BY <1>1, <1>6 DEF OrderMoves, entryVars
  <1>7. CASE UNCHANGED allVars
    BY <1>1, <1>7 DEF allVars, vars, entryVars
  <1> QED
    BY <1>2, <1>3, <1>4, <1>5, <1>6, <1>7 DEF DepositLedgerNext, PassSelects

(* A run of the composition is, seen at the top-ups, a run of Deposits     *)
(* without its fairness.                                                   *)
THEOREM ImplementsDeposits == DepositLedgerSpec => Init /\ [][Next]_vars
  BY LedgerInitInv, StepRefines, PTL DEF DepositLedgerSpec

(* Everything together is inductive.                                       *)
LEMMA AllInv ==
    DepositLedgerSpec => [](TypeInv /\ CreditInv /\ ClaimedIsPosted /\ LedgerInv)
  <1>1. DepositLedgerInit => TypeInv /\ CreditInv /\ ClaimedIsPosted /\ LedgerInv
    BY InitInv, LedgerInitInv DEF LedgerInv
  <1> QED
    BY <1>1, StepRefines, StepTypeInv, StepCreditInv, StepClaimedIsPosted, StepLedgerInv, PTL
    DEF DepositLedgerSpec

(* The types of the top-ups and of the books, for any number of callers.   *)
THEOREM LedgerTypeCorrect == DepositLedgerSpec => []DepositLedgerTypeOK
  <1>1. TypeInv /\ LedgerInv => DepositLedgerTypeOK
    BY DEF TypeInv, LedgerInv, LedgerTypeInv, DepositLedgerTypeOK
  <1> QED
    BY <1>1, AllInv, PTL

(* With the ledger's own steps in between, and calls cut off among them, a *)
(* top-up is still posted at most once.                                    *)
THEOREM LedgerCreditsOnce == DepositLedgerSpec => []CreditedOnce
  <1>1. CreditInv => CreditedOnce
    BY DEF CreditInv
  <1> QED
    BY <1>1, AllInv, PTL

(* Nor does anything but a settled bank debit credit it.                   *)
THEOREM LedgerCreditsAreEarned == DepositLedgerSpec => []CreditEarned
  <1>1. CreditInv => CreditEarned
    BY DEF CreditInv
  <1> QED
    BY <1>1, AllInv, PTL

(* With the ledger's own steps in between, nothing but a fault keeps a     *)
(* claimed top-up out of the books.                                        *)
THEOREM LedgerClaimsArePosted == DepositLedgerSpec => []ClaimedIsPosted
  BY AllInv, PTL

(* However many calls race to provision the accounts and wherever they are *)
(* cut off: every entry in the books is one that was posted, it is there   *)
(* once with both of its lines, and each line is booked to an account that *)
(* the merchant has.                                                       *)
THEOREM BooksAreWhole == DepositLedgerSpec => [](EntriesAreWhole /\ LinesHaveAccounts)
  <1>1. LedgerInv => EntriesAreWhole /\ LinesHaveAccounts
    BY DEF LedgerInv
  <1> QED
    BY <1>1, AllInv, PTL

-----------------------------------------------------------------------------
(* Sums of lines.                                                          *)
Value(line) == IF line.side = "credit" THEN AmountOf[line.subject] ELSE -AmountOf[line.subject]

LEMMA AmountsAreInt == \A x \in Deposits \union Sessions : AmountOf[x] \in Int
  BY AmountOfAssumption

LEMMA ValueType ==
    ASSUME NEW line \in Posting
    PROVE  Value(line) \in Int
  <1>1. AmountOf[line.subject] \in Int
    BY AmountOfAssumption DEF Posting
  <1> QED
    BY <1>1 DEF Value

LEMMA NetCreditOfNone == NetCredit({}) = 0
  BY SumEmpty DEF NetCredit, SumFunction

LEMMA NetCreditType ==
    ASSUME NEW lines \in SUBSET Posting, IsFiniteSet(lines)
    PROVE  NetCredit(lines) \in Int
  <1> DEFINE f == [p \in lines |-> Value(p)]
  <1>1. NetCredit(lines) = SumFunctionOnSet(f, lines)
    BY DEF NetCredit, SumFunction, Value
  <1>2. \A p \in lines : f[p] \in Int
    BY ValueType
  <1> HIDE DEF f
  <1> QED
    BY <1>1, <1>2, SumType

(* One more line counts with its value.                                    *)
LEMMA NetCreditAdd ==
    ASSUME NEW lines \in SUBSET Posting, IsFiniteSet(lines), NEW line \in Posting, line \notin lines
    PROVE  NetCredit(lines \union {line}) = NetCredit(lines) + Value(line)
  <1> DEFINE all == lines \union {line}
             f == [p \in lines |-> Value(p)]
             g == [p \in all |-> Value(p)]
  <1>1. NetCredit(lines) = SumFunctionOnSet(f, lines) /\ NetCredit(all) = SumFunctionOnSet(g, all)
    BY DEF NetCredit, SumFunction, Value
  <1>2. \A p \in all : g[p] \in Int
    BY ValueType
  <1>3. (\A p \in lines : f[p] = g[p]) /\ g[line] = Value(line)
    OBVIOUS
  <1> HIDE DEF f, g
  <1>4. SumFunctionOnSet(g, all) = SumFunctionOnSet(g, lines) + g[line]
    BY <1>2, SumAdd
  <1>5. SumFunctionOnSet(f, lines) = SumFunctionOnSet(g, lines)
    BY <1>3, SumSame
  <1> QED
    BY <1>1, <1>3, <1>4, <1>5

-----------------------------------------------------------------------------
(* What has been posted, and that it is finitely much.                     *)
PostedDeposits == {d \in Deposits : posted[d] > 0}

LiabilityLines == {p \in postings : TypeOfName(p.name) = "liability"}

FiniteBooks ==
    /\ IsFiniteSet(postings)
    /\ IsFiniteSet(PostedDeposits)
    /\ \A kind \in {"settlement", "reversal"} : IsFiniteSet(SessionsWith(kind))

BalanceInv ==
    /\ FiniteBooks
    /\ Available = SumOf(PostedDeposits) + SumOf(SessionsWith("settlement"))
                   - SumOf(SessionsWith("reversal"))

(* A commit adds one liability line, on the side of the kind.              *)
LEMMA CommitBalance ==
    ASSUME LedgerTypeInv, FiniteBooks,
           NEW w \in Workers \union Calls,
           NEW subject \in Deposits \union Sessions, NEW kind \in Kinds,
           Commit(w, subject, kind), EntryOf(subject, kind) = {}
    PROVE  /\ IsFiniteSet(postings')
           /\ Available \in Int
           /\ Available' = IF kind = "reversal" THEN Available - AmountOf[subject]
                                                ELSE Available + AmountOf[subject]
  <1>0. PICK at \in [Names -> Nat] :
            /\ postings' = postings \union {LineOf(subject, kind, name, at[name]) : name \in Names}
            /\ \A name \in Names : LineOf(subject, kind, name, at[name]) \in Posting
    BY CommitAdds
  <1> DEFINE cash == LineOf(subject, kind, "Cash", at["Cash"])
             settlement == LineOf(subject, kind, "Settlement", at["Settlement"])
  <1>1. /\ postings' = (postings \union {cash}) \union {settlement}
        /\ settlement \in Posting
    BY <1>0 DEF Names
  <1>2. IsFiniteSet(postings')
    <2> HIDE DEF cash, settlement
    <2> QED
      BY <1>1, FS_AddElement DEF FiniteBooks
  <1>3. settlement \notin LiabilityLines
    BY DEF EntryOf, LineOf, LiabilityLines
  <1>4. LiabilityLines' = LiabilityLines \union {settlement}
    BY <1>1 DEF LineOf, LiabilityLines, TypeOfName
  <1>5. LiabilityLines \in SUBSET Posting /\ IsFiniteSet(LiabilityLines)
    BY FS_Subset DEF LedgerTypeInv, LedgerTypeOK, LiabilityLines, FiniteBooks
  <1>6. Value(settlement) = IF kind = "reversal" THEN -AmountOf[subject] ELSE AmountOf[subject]
    BY DEF Value, LineOf, SidesOf
  <1>7. Available = NetCredit(LiabilityLines) /\ Available' = NetCredit(LiabilityLines')
    BY DEF Available, LiabilityLines, NetCredit
  <1> HIDE DEF settlement
  <1>8. NetCredit(LiabilityLines') = NetCredit(LiabilityLines) + Value(settlement)
    BY <1>1, <1>3, <1>4, <1>5, NetCreditAdd
  <1>9. NetCredit(LiabilityLines) \in Int /\ AmountOf[subject] \in Int
    BY <1>5, NetCreditType, AmountOfAssumption
  <1> QED
    BY <1>2, <1>6, <1>7, <1>8, <1>9

LEMMA SumOfType ==
    ASSUME NEW S \in SUBSET (Deposits \union Sessions), IsFiniteSet(S)
    PROVE  SumOf(S) \in Int
  BY SumType, AmountOfAssumption DEF SumOf

LEMMA SumOfAdd ==
    ASSUME NEW S \in SUBSET (Deposits \union Sessions), IsFiniteSet(S),
           NEW x \in Deposits \union Sessions, x \notin S
    PROVE  SumOf(S \union {x}) = SumOf(S) + AmountOf[x]
  <1>1. \A y \in S \union {x} : AmountOf[y] \in Int
    BY AmountOfAssumption
  <1> QED
    BY <1>1, SumAdd DEF SumOf

LEMMA SumsAreInt ==
    ASSUME FiniteBooks
    PROVE  /\ SumOf(PostedDeposits) \in Int
           /\ SumOf(SessionsWith("settlement")) \in Int
           /\ SumOf(SessionsWith("reversal")) \in Int
  <1>1. PostedDeposits \in SUBSET (Deposits \union Sessions) /\ IsFiniteSet(PostedDeposits)
    BY DEF FiniteBooks, PostedDeposits
  <1>2. ASSUME NEW kind \in {"settlement", "reversal"}
        PROVE  SumOf(SessionsWith(kind)) \in Int
    <2>1. SessionsWith(kind) \in SUBSET (Deposits \union Sessions)
      BY DEF SessionsWith
    <2> QED
      BY <2>1, SumOfType DEF FiniteBooks
  <1> QED
    BY <1>1, <1>2, SumOfType DEF Kinds

-----------------------------------------------------------------------------
(* What a step may do to the books: nothing, or post one entry.            *)
PostsDeposit(w) ==
    /\ on[w] \in Deposits
    /\ Commit(w, on[w], "deposit") /\ Record(w) /\ UNCHANGED outcome

PostsSession(s, kind) ==
    /\ kind \in {"settlement", "reversal"}
    /\ outcome[<<s, kind>>] = "open"
    /\ Commit(<<s, kind>>, s, kind) /\ UNCHANGED posted
    /\ outcome' = [outcome EXCEPT ![<<s, kind>>] = "posted"]

GivesUp(c) ==
    /\ outcome[c] = "open"
    /\ outcome' = [outcome EXCEPT ![c] = "lost"]
    /\ UNCHANGED <<postings, posted>>

LEMMA StepPosts ==
    ASSUME TypeInv, [DepositLedgerNext]_allVars
    PROVE  \/ UNCHANGED <<postings, posted, outcome>>
           \/ \E w \in Workers : PostsDeposit(w)
           \/ \E s \in Sessions, kind \in Kinds : PostsSession(s, kind)
           \/ \E c \in Calls : GivesUp(c)
  <1> DEFINE Goal == \/ UNCHANGED <<postings, posted, outcome>>
                     \/ \E w \in Workers : PostsDeposit(w)
                     \/ \E s \in Sessions, kind \in Kinds : PostsSession(s, kind)
                     \/ \E c \in Calls : GivesUp(c)
  <1>1. ASSUME NEW w \in Workers \union Calls, EnsureAccounts(w) \/ Abandon(w)
        PROVE  UNCHANGED postings
    BY <1>1 DEF EnsureAccounts, Ensure, Insert, Abandon
  <1>2. ASSUME NEW w \in Workers, RecordDeposit(w), UNCHANGED outcome  PROVE Goal
    <2>1. CASE EnsureAccounts(w) /\ UNCHANGED vars
      BY <1>1, <1>2, <2>1 DEF vars, entryVars
    <2>2. CASE Commit(w, on[w], "deposit") /\ Record(w)
      BY <1>2, <2>2 DEF TypeInv, BusyOnDeposit, Record, PostsDeposit
    <2>3. CASE Abandon(w) /\ RecordFails(w)
      BY <1>1, <1>2, <2>3 DEF RecordFails
    <2> QED
      BY <1>2, <2>1, <2>2, <2>3 DEF RecordDeposit
  <1>3. ASSUME NEW w \in Workers, WorkerStep(w)  PROVE Goal
    <2>1. CASE TopUpStep(w) /\ UNCHANGED <<ledgerVars, outcome>>
      BY <2>1 DEF TopUpStep, PullFunds, StoreReference, Poll, MarkFailed, Check,
                  MarkFailedGuarded, Credit, ledgerVars, entryVars
    <2> QED
      BY <1>2, <1>3, <2>1 DEF WorkerStep
  <1>4. ASSUME NEW c \in Calls, RecordSession(c)  PROVE Goal
    <2>1. CASE EnsureAccounts(c) /\ UNCHANGED outcome
      BY <1>1, <1>4, <2>1 DEF RecordSession, vars, entryVars
    <2>2. CASE Commit(c, c[1], c[2]) /\ outcome' = [outcome EXCEPT ![c] = "posted"]
      <3>1. PICK s \in Sessions, kind \in {"settlement", "reversal"} : c = <<s, kind>>
        BY DEF Calls
      <3>2. PostsSession(s, kind)
        BY <1>4, <2>2, <3>1 DEF RecordSession, PostsSession, vars, entryVars
      <3> QED
        BY <3>2 DEF Kinds
    <2> QED
      BY <1>4, <2>1, <2>2 DEF RecordSession
  <1>5. ASSUME NEW c \in Calls, SessionCallFails(c)  PROVE Goal
    BY <1>1, <1>5 DEF SessionCallFails, GivesUp, vars, entryVars
  <1>6. ASSUME NEW w \in Workers, Stop(w), Abandon(w), UNCHANGED outcome  PROVE Goal
    BY <1>1, <1>6 DEF Stop
  <1>7. ASSUME NEW w \in Workers, NEW d \in Deposits,
               AddFunds(w, d) \/ Select(w, d), UNCHANGED <<ledgerVars, outcome>>
        PROVE  Goal
    BY <1>7 DEF AddFunds, Select, ledgerVars, entryVars
  <1>8. ASSUME NEW d \in Deposits, NEW st \in OrderStatus, OrderMoves(d, st),
               UNCHANGED <<ledgerVars, outcome>>
        PROVE  Goal
    BY <1>8 DEF OrderMoves, ledgerVars, entryVars
  <1>9. CASE UNCHANGED allVars
    BY <1>9 DEF allVars, vars, ledgerVars, entryVars
  <1> QED
    BY <1>3, <1>4, <1>5, <1>6, <1>7, <1>8, <1>9 DEF DepositLedgerNext, PassSelects

LEMMA DepositBalance ==
    ASSUME TypeInv, CreditInv, LedgerInv, BalanceInv, NEW w \in Workers, PostsDeposit(w)
    PROVE  BalanceInv'
  <1> DEFINE d == on[w]
  <1>1. /\ d \in Deposits /\ d \in Deposits \union Sessions /\ "deposit" \in Kinds
        /\ posted \in [Deposits -> Nat] /\ posted[d] = 0
        /\ posted' = [posted EXCEPT ![d] = @ + 1]
        /\ UNCHANGED outcome
    BY DEF PostsDeposit, Record, TypeInv, TypeOK, CreditInv, CreditedOnce, Kinds
  <1>2. EntryOf(d, "deposit") = {}
    BY <1>1 DEF LedgerInv, EntriesAreWhole
  <1>3. /\ IsFiniteSet(postings')
        /\ Available \in Int
        /\ Available' = Available + AmountOf[d]
    BY <1>1, <1>2, CommitBalance DEF PostsDeposit, LedgerInv, BalanceInv
  <1>4. d \notin PostedDeposits /\ PostedDeposits' = PostedDeposits \union {d}
    BY <1>1 DEF PostedDeposits
  <1>5. \A kind : SessionsWith(kind)' = SessionsWith(kind)
    BY <1>1 DEF SessionsWith
  <1> HIDE DEF d
  <1>6. FiniteBooks'
    BY <1>3, <1>4, <1>5, FS_AddElement DEF BalanceInv, FiniteBooks
  <1>7. SumOf(PostedDeposits') = SumOf(PostedDeposits) + AmountOf[d]
    BY <1>1, <1>4, SumOfAdd DEF BalanceInv, FiniteBooks, PostedDeposits
  <1>8. /\ SumOf(PostedDeposits) \in Int
        /\ SumOf(SessionsWith("settlement")) \in Int
        /\ SumOf(SessionsWith("reversal")) \in Int
        /\ AmountOf[d] \in Int
    <2>1. FiniteBooks
      BY DEF BalanceInv
    <2>2. AmountOf[d] \in Int
      BY <1>1, AmountsAreInt
    <2> QED
      BY <2>1, <2>2, SumsAreInt
  <1> QED
    BY <1>3, <1>5, <1>6, <1>7, <1>8 DEF BalanceInv

LEMMA SessionBalance ==
    ASSUME LedgerInv, BalanceInv, NEW s \in Sessions, NEW kind \in Kinds, PostsSession(s, kind)
    PROVE  BalanceInv'
  <1>1. /\ s \in Deposits \union Sessions /\ kind \in {"settlement", "reversal"}
        /\ <<s, kind>> \in Calls /\ outcome \in [Calls -> Outcomes] /\ outcome[<<s, kind>>] = "open"
        /\ outcome' = [outcome EXCEPT ![<<s, kind>>] = "posted"]
        /\ UNCHANGED posted
    BY DEF PostsSession, LedgerInv, LedgerTypeInv, Calls
  <1>2. EntryOf(s, kind) = {}
    BY <1>1 DEF LedgerInv, EntriesAreWhole
  <1>3. /\ IsFiniteSet(postings')
        /\ Available \in Int
        /\ Available' = IF kind = "reversal" THEN Available - AmountOf[s]
                                             ELSE Available + AmountOf[s]
    BY <1>1, <1>2, CommitBalance DEF PostsSession, LedgerInv, BalanceInv
  <1>4. PostedDeposits' = PostedDeposits
    BY <1>1 DEF PostedDeposits
  <1>5. /\ s \notin SessionsWith(kind)
        /\ SessionsWith(kind)' = SessionsWith(kind) \union {s}
        /\ \A other \in {"settlement", "reversal"} :
               other # kind => SessionsWith(other)' = SessionsWith(other)
    BY <1>1 DEF SessionsWith, Calls
  <1>6. FiniteBooks'
    <2>1. ASSUME NEW k \in {"settlement", "reversal"}  PROVE IsFiniteSet(SessionsWith(k)')
      <3>1. CASE k = kind
        BY <1>5, <3>1, FS_AddElement DEF BalanceInv, FiniteBooks
      <3>2. CASE k # kind
        BY <1>5, <3>2 DEF BalanceInv, FiniteBooks
      <3> QED
        BY <3>1, <3>2
    <2> QED
      BY <1>3, <1>4, <2>1 DEF BalanceInv, FiniteBooks
  <1>7. SumOf(SessionsWith(kind)') = SumOf(SessionsWith(kind)) + AmountOf[s]
    <2>1. SessionsWith(kind) \in SUBSET (Deposits \union Sessions)
      BY DEF SessionsWith
    <2> QED
      BY <1>1, <1>5, <2>1, SumOfAdd DEF BalanceInv, FiniteBooks
  <1>8. /\ SumOf(PostedDeposits) \in Int
        /\ SumOf(SessionsWith("settlement")) \in Int
        /\ SumOf(SessionsWith("reversal")) \in Int
        /\ AmountOf[s] \in Int
    <2>1. FiniteBooks
      BY DEF BalanceInv
    <2>2. AmountOf[s] \in Int
      BY <1>1, AmountsAreInt
    <2> QED
      BY <2>1, <2>2, SumsAreInt
  <1>9. CASE kind = "settlement"
    <2>1. /\ SumOf(SessionsWith("settlement")') = SumOf(SessionsWith("settlement")) + AmountOf[s]
          /\ SessionsWith("reversal")' = SessionsWith("reversal")
      BY <1>5, <1>7, <1>9
    <2> QED
      BY <1>3, <1>4, <1>6, <1>8, <1>9, <2>1 DEF BalanceInv
  <1>10. CASE kind = "reversal"
    <2>1. /\ SumOf(SessionsWith("reversal")') = SumOf(SessionsWith("reversal")) + AmountOf[s]
          /\ SessionsWith("settlement")' = SessionsWith("settlement")
      BY <1>5, <1>7, <1>10
    <2> QED
      BY <1>3, <1>4, <1>6, <1>8, <1>10, <2>1 DEF BalanceInv
  <1> QED
    BY <1>1, <1>9, <1>10

(* A call that is given up is no longer open, and that is all.             *)
LEMMA GivenUpBalance ==
    ASSUME LedgerInv, BalanceInv, NEW c \in Calls, GivesUp(c)
    PROVE  BalanceInv'
  <1>1. \A kind \in {"settlement", "reversal"} : SessionsWith(kind)' = SessionsWith(kind)
    BY DEF GivesUp, SessionsWith, LedgerInv, LedgerTypeInv, Calls
  <1>2. PostedDeposits' = PostedDeposits /\ Available' = Available
    BY DEF GivesUp, PostedDeposits, Available, NetCredit
  <1> QED
    BY <1>1, <1>2 DEF BalanceInv, FiniteBooks, GivesUp

LEMMA InitBalance == DepositLedgerInit => BalanceInv
  <1> SUFFICES ASSUME DepositLedgerInit  PROVE BalanceInv
    OBVIOUS
  <1>1. /\ postings = {} /\ PostedDeposits = {}
        /\ \A kind \in {"settlement", "reversal"} : SessionsWith(kind) = {}
    BY DEF DepositLedgerInit, Init, LedgerInit, PostedDeposits, SessionsWith, Calls
  <1>2. Available = 0 /\ SumOf({}) = 0
    BY <1>1, NetCreditOfNone, SumEmpty DEF Available, SumOf
  <1> QED
    BY <1>1, <1>2, FS_EmptySet DEF BalanceInv, FiniteBooks

LEMMA StepBalance ==
    TypeInv /\ CreditInv /\ LedgerInv /\ BalanceInv /\ [DepositLedgerNext]_allVars => BalanceInv'
  <1> SUFFICES ASSUME TypeInv, CreditInv, LedgerInv, BalanceInv, [DepositLedgerNext]_allVars
               PROVE  BalanceInv'
    OBVIOUS
  <1>1. CASE UNCHANGED <<postings, posted, outcome>>
    BY <1>1 DEF BalanceInv, FiniteBooks, PostedDeposits, SessionsWith, Available, NetCredit, SumOf
  <1> QED
    BY <1>1, StepPosts, DepositBalance, SessionBalance, GivenUpBalance

(* The balance that the merchant sees and spends is what was credited and  *)
(* settled less what was reversed, whatever duplicate accounts the first   *)
(* postings left, in whatever order a session's settlement and reversal    *)
(* are posted and whichever of their calls never gets through.             *)
THEOREM BalanceTellsHistory == DepositLedgerSpec => []BalanceIsHistory
  <1>1. LedgerInv /\ BalanceInv => BalanceIsHistory
    BY DEF BalanceInv, BalanceIsHistory, PostedDeposits
  <1> QED
    BY <1>1, AllInv, InitBalance, StepBalance, PTL DEF DepositLedgerSpec

-----------------------------------------------------------------------------
(* From the provider to the balance: top-ups count for no more than what   *)
(* has settled there at some time.                                         *)
BalanceIsEarned ==
    Available <= SumOf(settledOnce) + SumOf(SessionsWith("settlement"))
                 - SumOf(SessionsWith("reversal"))

SettledIsFinite == IsFiniteSet(settledOnce)

LEMMA StepSettled ==
    ASSUME SettledIsFinite, [Next]_vars
    PROVE  SettledIsFinite'
  <1> USE DEF SettledIsFinite
  <1>1. ASSUME NEW d \in Deposits, NEW st \in OrderStatus, OrderMoves(d, st)
        PROVE  SettledIsFinite'
    <2>1. settledOnce' \in {settledOnce, settledOnce \union {d}}
      BY <1>1 DEF OrderMoves
    <2> QED
      BY <2>1, FS_AddElement
  <1>2. CASE UNCHANGED settledOnce
    BY <1>2
  <1>3. UNCHANGED settledOnce \/ \E d \in Deposits, st \in OrderStatus : OrderMoves(d, st)
    BY Zenon DEF Next, HandlerStep, TopUpStep, AddFunds, Select, PullFunds, StoreReference, Poll, MarkFailed,
           Check, MarkFailedGuarded, Credit, Record, RecordFails, Stop, orderVars, vars
  <1> QED
    BY <1>1, <1>2, <1>3

LEMMA SettledCoversPosted ==
    ASSUME TypeInv, CreditInv, BalanceInv, SettledIsFinite
    PROVE  BalanceIsEarned
  <1>1. PostedDeposits \in SUBSET settledOnce
    BY DEF CreditInv, CreditEarned, PostedIsCredited, PostedDeposits, TypeInv, TypeOK
  <1>2. \A d \in settledOnce : AmountOf[d] \in Nat
    BY AmountOfAssumption DEF TypeInv, TypeOK
  <1>3. SumOf(PostedDeposits) <= SumOf(settledOnce)
    BY <1>1, <1>2, SumMonotone DEF SumOf, SettledIsFinite
  <1>4. SumOf(settledOnce) \in Int
    BY SumOfType DEF TypeInv, TypeOK, SettledIsFinite
  <1>5. /\ SumOf(PostedDeposits) \in Int
        /\ SumOf(SessionsWith("settlement")) \in Int
        /\ SumOf(SessionsWith("reversal")) \in Int
    BY SumsAreInt DEF BalanceInv
  <1> QED
    BY <1>3, <1>4, <1>5 DEF BalanceInv, BalanceIsEarned

(* No race of first postings, no cut-off call and no repeated poll gives   *)
(* the merchant more for its top-ups than has settled at the provider.     *)
THEOREM BalanceStaysEarned == DepositLedgerSpec => []BalanceIsEarned
  <1>1. DepositLedgerInit => SettledIsFinite
    BY FS_EmptySet DEF DepositLedgerInit, Init, SettledIsFinite
  <1>2. SettledIsFinite /\ [Next]_vars => SettledIsFinite'
    BY StepSettled
  <1>3. TypeInv /\ CreditInv /\ BalanceInv /\ SettledIsFinite => BalanceIsEarned
    BY SettledCoversPosted
  <1> QED
    BY <1>1, <1>2, <1>3, AllInv, InitBalance, StepBalance, StepRefines, PTL
    DEF DepositLedgerSpec
=============================================================================
