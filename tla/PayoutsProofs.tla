---------------------------- MODULE PayoutsProofs ----------------------------
(***************************************************************************)
(* Proofs about Payouts for any payouts, users and concurrent handlers,    *)
(* whatever the amounts.  Who pays what and how often does not depend on   *)
(* the balance: a claimed payout may pass the check or not.  The last      *)
(* section is about the balance.                                           *)
(***************************************************************************)
EXTENDS Payouts, SumTheorems

(* The types of everything but the balance that a worker has read, which   *)
(* is a sum over all payouts.                                              *)
RowTypes ==
    /\ status \in [Payouts -> Status]
    /\ initiatedBy \in [Payouts -> Users \union {NoUser}]
    /\ approvedBy \in [Payouts -> Users \union {NoUser}]
    /\ posted \in [Payouts \X Entries -> Nat]
    /\ sent \in [Payouts -> Nat]
    /\ pc \in [Workers -> Steps]
    /\ on \in [Workers -> Payouts \union {NoPayout}]
    /\ by \in [Workers -> Users \union {NoUser}]
    /\ \A w \in Workers : pc[w] # "idle" => on[w] \in Payouts /\ by[w] \in Users

Creating == {"read_held", "insert"}

PreDebit == {"check", "bounce", "debit"}

Executing == PreDebit \union {"send", "store_reference", "refund", "mark_failed"}

(* Whoever creates a payout is alone with it; whoever executes it holds    *)
(* the status processing, and nobody else executes it.                     *)
HoldInv ==
    \A w \in Workers :
        /\ pc[w] \in Creating =>
               /\ status[on[w]] = "none"
               /\ \A v \in Workers : on[v] = on[w] => v = w
        /\ pc[w] = "claim" => status[on[w]] # "none"
        /\ pc[w] \in Executing =>
               /\ status[on[w]] = "processing"
               /\ \A v \in Workers : on[v] = on[w] /\ pc[v] \in Executing => v = w

Untouched(p) == posted[<<p, "payout">>] = 0 /\ posted[<<p, "payout_reversal">>] = 0 /\ sent[p] = 0

(* What has happened to the money, by the status of the payout and by the  *)
(* step of its executor.                                                   *)
MoneyInv ==
    /\ \A p \in Payouts :
           status[p] \in {"none", "pending_approval", "rejected"} => Untouched(p)
    /\ \A w \in Workers :
           /\ pc[w] \in PreDebit => Untouched(on[w])
           /\ pc[w] = "send" => /\ posted[<<on[w], "payout">>] = 1
                                /\ posted[<<on[w], "payout_reversal">>] = 0
                                /\ sent[on[w]] = 0
           /\ pc[w] = "refund" => /\ posted[<<on[w], "payout">>] = 1
                                  /\ posted[<<on[w], "payout_reversal">>] = 0

(* User u may set payout p in motion.                                      *)
Entitled(p, u) ==
    \/ initiatedBy[p] \in Owners
    \/ CanApprove(u) /\ u # initiatedBy[p]

EntitledInv ==
    /\ \A w \in Workers : pc[w] = "claim" => Entitled(on[w], by[w])
    /\ \A p \in Payouts : status[p] \in {"processing", "failed"} => Entitled(p, approvedBy[p])

-----------------------------------------------------------------------------
LEMMA InitInv == Init => RowTypes /\ HoldInv /\ MoneyInv /\ ExecutesOnce /\ EntitledInv
  BY NoPayoutAssumption, RolesAssumption
  DEF Init, RowTypes, Status, Entries, Steps, HoldInv, Creating, Executing, PreDebit,
      MoneyInv, Untouched, EntitledInv, ExecutesOnce

(* Posting adds one entry of one type to one payout.                       *)
LEMMA PostEffect ==
    ASSUME RowTypes, NEW p \in Payouts, NEW entry \in Entries, Post(p, entry)
    PROVE  /\ posted' \in [Payouts \X Entries -> Nat]
           /\ posted'[<<p, entry>>] = posted[<<p, entry>>] + 1
           /\ \A q \in Payouts, e \in Entries :
                  q # p \/ e # entry => posted'[<<q, e>>] = posted[<<q, e>>]
  <1> DEFINE k == <<p, entry>>
  <1>1. k \in Payouts \X Entries
    OBVIOUS
  <1>2. posted' = [posted EXCEPT ![k] = @ + 1]
    BY DEF Post
  <1>3. posted \in [Payouts \X Entries -> Nat]
    BY DEF RowTypes
  <1>4. \A q \in Payouts, e \in Entries : q # p \/ e # entry => <<q, e>> # k
    OBVIOUS
  <1> HIDE DEF k
  <1>5. posted' \in [Payouts \X Entries -> Nat] /\ posted'[k] = posted[k] + 1
    BY <1>1, <1>2, <1>3
  <1>6. \A q \in Payouts, e \in Entries : q # p \/ e # entry => posted'[<<q, e>>] = posted[<<q, e>>]
    BY <1>2, <1>3, <1>4
  <1> QED
    BY <1>5, <1>6 DEF k

(* The only steps that post.                                               *)
LEMMA DebitPosts ==
    ASSUME RowTypes, NEW w \in Workers, Debit(w)
    PROVE  /\ posted' \in [Payouts \X Entries -> Nat]
           /\ posted'[<<on[w], "payout">>] = posted[<<on[w], "payout">>] + 1
           /\ \A q \in Payouts, e \in Entries :
                  q # on[w] \/ e # "payout" => posted'[<<q, e>>] = posted[<<q, e>>]
  <1>1. on[w] \in Payouts /\ Post(on[w], "payout") /\ "payout" \in Entries
    BY DEF RowTypes, Debit, Entries
  <1> QED
    BY <1>1, PostEffect

LEMMA RefundPosts ==
    ASSUME RowTypes, NEW w \in Workers, Refund(w)
    PROVE  /\ posted' \in [Payouts \X Entries -> Nat]
           /\ \A q \in Payouts : posted'[<<q, "payout">>] = posted[<<q, "payout">>]
           /\ \A q \in Payouts : q # on[w] =>
                  posted'[<<q, "payout_reversal">>] = posted[<<q, "payout_reversal">>]
           /\ posted'[<<on[w], "payout_reversal">>] \in
                  {posted[<<on[w], "payout_reversal">>], posted[<<on[w], "payout_reversal">>] + 1}
  <1>1. on[w] \in Payouts /\ "payout_reversal" \in Entries /\ "payout" \in Entries
    BY DEF RowTypes, Refund, Entries
  <1>2. CASE Post(on[w], "payout_reversal")
    <2>1. /\ posted' \in [Payouts \X Entries -> Nat]
          /\ posted'[<<on[w], "payout_reversal">>] = posted[<<on[w], "payout_reversal">>] + 1
          /\ \A q \in Payouts, e \in Entries :
                 q # on[w] \/ e # "payout_reversal" => posted'[<<q, e>>] = posted[<<q, e>>]
      BY <1>1, <1>2, PostEffect
    <2>2. \A q \in Payouts : posted'[<<q, "payout">>] = posted[<<q, "payout">>]
      BY <1>1, <2>1
    <2>3. \A q \in Payouts : q # on[w] =>
              posted'[<<q, "payout_reversal">>] = posted[<<q, "payout_reversal">>]
      BY <1>1, <2>1
    <2> QED
      BY <2>1, <2>2, <2>3
  <1>3. CASE UNCHANGED posted
    BY <1>3 DEF RowTypes
  <1> QED
    BY <1>2, <1>3 DEF Refund

-----------------------------------------------------------------------------
LEMMA StepRowTypes == RowTypes /\ [Next]_vars => RowTypes'
  <1> SUFFICES ASSUME RowTypes, [Next]_vars  PROVE RowTypes'
    OBVIOUS
  <1>1. ASSUME NEW w \in Workers, Debit(w)  PROVE RowTypes'
    BY <1>1, DebitPosts DEF RowTypes, Debit, Goto, Steps, rowVars, journalVars
  <1>2. ASSUME NEW w \in Workers, Refund(w)  PROVE RowTypes'
    BY <1>2, RefundPosts DEF RowTypes, Refund, Goto, Steps, rowVars, journalVars
  <1> USE DEF RowTypes, Status, Steps, Start, Goto, Finish, SetStatus, rowVars, journalVars, workerVars
  <1>3. ASSUME NEW w \in Workers, NEW p \in Payouts, NEW u \in Users,
               CreateReadBalance(w, p, u) \/ ApproveRead(w, p, u)
        PROVE  RowTypes'
    BY <1>3 DEF CreateReadBalance, ApproveRead
  <1>4. ASSUME NEW w \in Workers, CreateReadHeld(w) \/ CheckBalance(w) \/ Stop(w)  PROVE RowTypes'
    BY <1>4 DEF CreateReadHeld, CheckBalance, Stop
  <1>5. ASSUME NEW w \in Workers, CreateInsert(w)  PROVE RowTypes'
    BY <1>5 DEF CreateInsert
  <1>6. ASSUME NEW w \in Workers, Claim(w)  PROVE RowTypes'
    BY <1>6 DEF Claim
  <1>7. ASSUME NEW w \in Workers, Bounce(w) \/ MarkFailed(w)  PROVE RowTypes'
    BY <1>7 DEF Bounce, MarkFailed
  <1>12. ASSUME NEW w \in Workers, StoreReference(w)  PROVE RowTypes'
    BY <1>12 DEF StoreReference
  <1>8. ASSUME NEW w \in Workers, NEW created \in BOOLEAN, SendPayout(w, created)  PROVE RowTypes'
    BY <1>8 DEF SendPayout
  <1>9. ASSUME NEW p \in Payouts, NEW u \in Users, Reject(p, u)  PROVE RowTypes'
    BY <1>9 DEF Reject
  <1>10. ASSUME NEW p \in Payouts, OrderReturned(p)  PROVE RowTypes'
    BY <1>10 DEF OrderReturned
  <1>11. ASSUME NEW s \in Sessions, NEW entry \in SessionEntries, PostSession(s, entry)
        PROVE  RowTypes'
    BY <1>11 DEF PostSession
  <1>13. CASE UNCHANGED vars
    BY <1>13 DEF vars
  <1> QED
    BY <1>1, <1>2, <1>3, <1>4, <1>5, <1>6, <1>7, <1>8, <1>9, <1>10, <1>11, <1>12, <1>13
    DEF Next, ExecuteNext

-----------------------------------------------------------------------------
LEMMA StepHoldInv == RowTypes /\ HoldInv /\ [Next]_vars => HoldInv'
  <1> SUFFICES ASSUME RowTypes, HoldInv, [Next]_vars  PROVE HoldInv'
    OBVIOUS
  <1> USE DEF RowTypes, HoldInv, Creating, PreDebit, Executing, Start, Goto, Finish, SetStatus,
              rowVars, journalVars, workerVars
  <1>1. ASSUME NEW w \in Workers, NEW p \in Payouts, NEW u \in Users, CreateReadBalance(w, p, u)
        PROVE  HoldInv'
    BY <1>1 DEF CreateReadBalance
  <1>2. ASSUME NEW w \in Workers, NEW p \in Payouts, NEW u \in Users, ApproveRead(w, p, u)
        PROVE  HoldInv'
    BY <1>2 DEF ApproveRead
  <1>3. ASSUME NEW w \in Workers, CreateReadHeld(w)  PROVE HoldInv'
    BY <1>3, NoPayoutAssumption DEF CreateReadHeld
  <1>4. ASSUME NEW w \in Workers, CreateInsert(w)  PROVE HoldInv'
    BY <1>4, NoPayoutAssumption DEF CreateInsert
  <1>5. ASSUME NEW w \in Workers, Claim(w)  PROVE HoldInv'
    BY <1>5, NoPayoutAssumption DEF Claim, ClaimFrom
  <1>6. ASSUME NEW w \in Workers, CheckBalance(w) \/ Debit(w) \/ Refund(w)  PROVE HoldInv'
    BY <1>6 DEF CheckBalance, Debit, Refund
  <1>7. ASSUME NEW w \in Workers, Bounce(w) \/ MarkFailed(w) \/ StoreReference(w)  PROVE HoldInv'
    BY <1>7, NoPayoutAssumption DEF Bounce, MarkFailed, StoreReference
  <1>8. ASSUME NEW w \in Workers, NEW created \in BOOLEAN, SendPayout(w, created)  PROVE HoldInv'
    BY <1>8 DEF SendPayout
  <1>9. ASSUME NEW w \in Workers, Stop(w)  PROVE HoldInv'
    BY <1>9, NoPayoutAssumption DEF Stop
  <1>10. ASSUME NEW p \in Payouts, NEW u \in Users, Reject(p, u)  PROVE HoldInv'
    BY <1>10 DEF Reject
  <1>11. ASSUME NEW p \in Payouts, OrderReturned(p)  PROVE HoldInv'
    BY <1>11 DEF OrderReturned
  <1>12. ASSUME NEW s \in Sessions, NEW entry \in SessionEntries, PostSession(s, entry)
        PROVE  HoldInv'
    BY <1>12 DEF PostSession
  <1>13. CASE UNCHANGED vars
    BY <1>13 DEF vars
  <1> QED
    BY <1>1, <1>2, <1>3, <1>4, <1>5, <1>6, <1>7, <1>8, <1>9, <1>10, <1>11, <1>12, <1>13
    DEF Next, ExecuteNext
-----------------------------------------------------------------------------
(* MoneyInv and ExecutesOnce are proved together: a status that no money   *)
(* has moved under makes the next debit the first, a sent request follows  *)
(* a debit, and a reversal follows a request that was not answered well.   *)
OnceInv == MoneyInv /\ ExecutesOnce

(* A step that moves no money, and sends nobody to move it.                *)
LEMMA MoneyFrame ==
    ASSUME RowTypes, OnceInv, UNCHANGED <<posted, sent>>,
           \A p \in Payouts :
               status'[p] \in {"none", "pending_approval", "rejected"} =>
                   \/ status[p] \in {"none", "pending_approval", "rejected"}
                   \/ Untouched(p),
           \A w \in Workers :
               /\ pc'[w] \in PreDebit => on'[w] \in Payouts /\ Untouched(on'[w])
               /\ pc'[w] \in {"send", "refund"} => pc'[w] = pc[w] /\ on'[w] = on[w]
    PROVE  OnceInv'
  BY DEF OnceInv, MoneyInv, ExecutesOnce, Untouched, PreDebit

LEMMA DebitOnce ==
    ASSUME RowTypes, HoldInv, OnceInv, NEW w \in Workers, Debit(w)
    PROVE  OnceInv'
  <1>1. /\ pc[w] = "debit" /\ on[w] \in Payouts /\ Untouched(on[w])
        /\ status[on[w]] = "processing"
        /\ UNCHANGED <<status, sent, on>>
        /\ pc' = [pc EXCEPT ![w] = "send"]
        /\ \A v \in Workers : on[v] = on[w] /\ pc[v] \in Executing => v = w
    BY DEF RowTypes, HoldInv, OnceInv, MoneyInv, Executing, PreDebit, Debit, Goto, rowVars, journalVars
  <1>2. ExecutesOnce'
    <2> SUFFICES ASSUME NEW p \in Payouts
                 PROVE  /\ sent'[p] <= posted'[<<p, "payout">>]
                        /\ posted'[<<p, "payout_reversal">>] <= posted'[<<p, "payout">>]
                        /\ posted'[<<p, "payout">>] <= 1
      BY DEF ExecutesOnce
    <2>1. /\ sent[p] <= posted[<<p, "payout">>]
          /\ posted[<<p, "payout_reversal">>] <= posted[<<p, "payout">>]
          /\ posted[<<p, "payout">>] <= 1
      BY DEF OnceInv, ExecutesOnce
    <2>2. CASE p # on[w]
      BY <1>1, <2>1, <2>2, DebitPosts DEF RowTypes, Entries
    <2>3. CASE p = on[w]
      BY <1>1, <2>3, DebitPosts DEF RowTypes, Untouched, Entries
    <2> QED
      BY <2>2, <2>3
  <1>3. MoneyInv'
    <2>1. ASSUME NEW p \in Payouts, status'[p] \in {"none", "pending_approval", "rejected"}
          PROVE  Untouched(p)'
      BY <1>1, <2>1, DebitPosts DEF OnceInv, MoneyInv, Untouched, Entries
    <2>2. ASSUME NEW v \in Workers, v # w, pc'[v] \in Executing
          PROVE  /\ pc'[v] = pc[v] /\ on'[v] = on[v] /\ on[v] \in Payouts /\ on[v] # on[w]
                 /\ posted'[<<on[v], "payout">>] = posted[<<on[v], "payout">>]
                 /\ posted'[<<on[v], "payout_reversal">>] = posted[<<on[v], "payout_reversal">>]
      BY <1>1, <2>2, DebitPosts DEF RowTypes, Executing, PreDebit, Entries
    <2>3. /\ posted'[<<on[w], "payout">>] = 1
          /\ posted'[<<on[w], "payout_reversal">>] = 0
          /\ pc'[w] = "send" /\ on'[w] = on[w] /\ sent'[on[w]] = 0
      BY <1>1, DebitPosts DEF RowTypes, Untouched, Entries
    <2> QED
      BY <1>1, <2>1, <2>2, <2>3 DEF OnceInv, MoneyInv, Untouched, PreDebit, Executing
  <1> QED
    BY <1>2, <1>3 DEF OnceInv

LEMMA SendOnce ==
    ASSUME RowTypes, HoldInv, OnceInv, NEW w \in Workers, NEW created \in BOOLEAN,
           SendPayout(w, created)
    PROVE  OnceInv'
  <1>1. /\ pc[w] = "send" /\ on[w] \in Payouts
        /\ status[on[w]] = "processing" /\ sent[on[w]] = 0
        /\ posted[<<on[w], "payout">>] = 1 /\ posted[<<on[w], "payout_reversal">>] = 0
        /\ UNCHANGED <<status, posted, on>>
        /\ pc'[w] \in {"store_reference", "refund"}
        /\ \A v \in Workers : v # w => pc'[v] = pc[v]
        /\ sent' = [sent EXCEPT ![on[w]] = @ + 1]
        /\ \A v \in Workers : on[v] = on[w] /\ pc[v] \in Executing => v = w
    BY DEF RowTypes, HoldInv, OnceInv, MoneyInv, Executing, SendPayout, Goto, rowVars, journalVars
  <1>2. ExecutesOnce'
    <2> SUFFICES ASSUME NEW p \in Payouts
                 PROVE  /\ sent'[p] <= posted'[<<p, "payout">>]
                        /\ posted'[<<p, "payout_reversal">>] <= posted'[<<p, "payout">>]
                        /\ posted'[<<p, "payout">>] <= 1
      BY DEF ExecutesOnce
    <2>1. /\ sent[p] <= posted[<<p, "payout">>]
          /\ posted[<<p, "payout_reversal">>] <= posted[<<p, "payout">>]
          /\ posted[<<p, "payout">>] <= 1
      BY DEF OnceInv, ExecutesOnce
    <2>2. CASE p # on[w]
      BY <1>1, <2>1, <2>2 DEF RowTypes, Entries
    <2>3. CASE p = on[w]
      BY <1>1, <2>3 DEF RowTypes, Untouched, Entries
    <2> QED
      BY <2>2, <2>3
  <1>3. MoneyInv'
    BY <1>1 DEF RowTypes, OnceInv, MoneyInv, Untouched, PreDebit, Executing
  <1> QED
    BY <1>2, <1>3 DEF OnceInv

LEMMA RefundOnce ==
    ASSUME RowTypes, HoldInv, OnceInv, NEW w \in Workers, Refund(w)
    PROVE  OnceInv'
  <1>1. /\ pc[w] = "refund" /\ on[w] \in Payouts
        /\ status[on[w]] = "processing"
        /\ posted[<<on[w], "payout">>] = 1 /\ posted[<<on[w], "payout_reversal">>] = 0
        /\ UNCHANGED <<status, sent, on>>
        /\ pc' = [pc EXCEPT ![w] = "mark_failed"]
        /\ \A v \in Workers : on[v] = on[w] /\ pc[v] \in Executing => v = w
    BY DEF RowTypes, HoldInv, OnceInv, MoneyInv, Executing, Refund, Goto, rowVars, journalVars
  <1>2. ExecutesOnce'
    <2> SUFFICES ASSUME NEW p \in Payouts
                 PROVE  /\ sent'[p] <= posted'[<<p, "payout">>]
                        /\ posted'[<<p, "payout_reversal">>] <= posted'[<<p, "payout">>]
                        /\ posted'[<<p, "payout">>] <= 1
      BY DEF ExecutesOnce
    <2>1. /\ sent[p] <= posted[<<p, "payout">>]
          /\ posted[<<p, "payout_reversal">>] <= posted[<<p, "payout">>]
          /\ posted[<<p, "payout">>] <= 1
      BY DEF OnceInv, ExecutesOnce
    <2>2. CASE p # on[w]
      BY <1>1, <2>1, <2>2, RefundPosts DEF RowTypes, Entries
    <2>3. CASE p = on[w]
      BY <1>1, <2>1, <2>3, RefundPosts DEF RowTypes, Untouched, Entries
    <2> QED
      BY <2>2, <2>3
  <1>3. MoneyInv'
    <2>1. ASSUME NEW p \in Payouts, status'[p] \in {"none", "pending_approval", "rejected"}
          PROVE  Untouched(p)'
      BY <1>1, <2>1, RefundPosts DEF OnceInv, MoneyInv, Untouched
    <2>2. ASSUME NEW v \in Workers, v # w, pc'[v] \in Executing
          PROVE  /\ pc'[v] = pc[v] /\ on'[v] = on[v] /\ on[v] \in Payouts /\ on[v] # on[w]
                 /\ posted'[<<on[v], "payout">>] = posted[<<on[v], "payout">>]
                 /\ posted'[<<on[v], "payout_reversal">>] = posted[<<on[v], "payout_reversal">>]
      BY <1>1, <2>2, RefundPosts DEF RowTypes, Executing, PreDebit
    <2>3. pc'[w] = "mark_failed"
      BY <1>1 DEF RowTypes
    <2> QED
      BY <1>1, <2>1, <2>2, <2>3 DEF OnceInv, MoneyInv, Untouched, PreDebit, Executing
  <1> QED
    BY <1>2, <1>3 DEF OnceInv

LEMMA StepOnceInv == RowTypes /\ HoldInv /\ OnceInv /\ [Next]_vars => OnceInv'
  <1> SUFFICES ASSUME RowTypes, HoldInv, OnceInv, [Next]_vars  PROVE OnceInv'
    OBVIOUS
  <1>1. ASSUME NEW w \in Workers, Debit(w)  PROVE OnceInv'
    BY <1>1, DebitOnce
  <1>2. ASSUME NEW w \in Workers, NEW created \in BOOLEAN, SendPayout(w, created)  PROVE OnceInv'
    BY <1>2, SendOnce
  <1>3. ASSUME NEW w \in Workers, Refund(w)  PROVE OnceInv'
    BY <1>3, RefundOnce
  <1>4. \A w \in Workers : pc[w] \in PreDebit => on[w] \in Payouts /\ Untouched(on[w])
    BY DEF RowTypes, OnceInv, MoneyInv, PreDebit
  <1>5. \A p \in Payouts : status[p] \in {"none", "pending_approval", "rejected"} => Untouched(p)
    BY DEF OnceInv, MoneyInv
  <1> USE <1>4, <1>5 DEF RowTypes, PreDebit, Start, Goto, Finish, SetStatus, rowVars, journalVars, workerVars
  <1>6. ASSUME NEW w \in Workers, NEW p \in Payouts, NEW u \in Users,
               CreateReadBalance(w, p, u) \/ ApproveRead(w, p, u)
        PROVE  OnceInv'
    BY <1>6, MoneyFrame DEF CreateReadBalance, ApproveRead
  <1>7. ASSUME NEW w \in Workers, CreateReadHeld(w) \/ CheckBalance(w) \/ Stop(w)  PROVE OnceInv'
    BY <1>7, MoneyFrame DEF CreateReadHeld, CheckBalance, Stop
  <1>8. ASSUME NEW w \in Workers, CreateInsert(w)  PROVE OnceInv'
    BY <1>8, MoneyFrame DEF CreateInsert, HoldInv, Creating
  <1>9. ASSUME NEW w \in Workers, Claim(w)  PROVE OnceInv'
    <2>1. CASE status[on[w]] \in ClaimFrom
      <3>1. Untouched(on[w])
        BY <1>9, <2>1 DEF Claim, ClaimFrom, Status
      <3> QED
        BY <1>9, <2>1, <3>1, MoneyFrame DEF Claim
    <2>2. CASE status[on[w]] \notin ClaimFrom
      BY <1>9, <2>2, MoneyFrame DEF Claim
    <2> QED
      BY <2>1, <2>2
  <1>10. ASSUME NEW w \in Workers, Bounce(w)  PROVE OnceInv'
    BY <1>10, MoneyFrame DEF Bounce
  <1>11. ASSUME NEW w \in Workers, StoreReference(w) \/ MarkFailed(w)  PROVE OnceInv'
    BY <1>11, MoneyFrame DEF StoreReference, MarkFailed
  <1>12. ASSUME NEW p \in Payouts, NEW u \in Users, Reject(p, u)  PROVE OnceInv'
    BY <1>12, MoneyFrame DEF Reject
  <1>13. ASSUME NEW p \in Payouts, OrderReturned(p)  PROVE OnceInv'
    BY <1>13, MoneyFrame DEF OrderReturned
  <1>14. ASSUME NEW s \in Sessions, NEW entry \in SessionEntries, PostSession(s, entry)
        PROVE  OnceInv'
    BY <1>14, MoneyFrame DEF PostSession
  <1>15. CASE UNCHANGED vars
    BY <1>15, MoneyFrame DEF vars
  <1> QED
    BY <1>1, <1>2, <1>3, <1>6, <1>7, <1>8, <1>9, <1>10, <1>11, <1>12, <1>13, <1>14, <1>15
    DEF Next, ExecuteNext
-----------------------------------------------------------------------------
LEMMA StepEntitledInv ==
    RowTypes /\ HoldInv /\ EntitledInv /\ [Next]_vars => EntitledInv'
  <1> SUFFICES ASSUME RowTypes, HoldInv, EntitledInv, [Next]_vars  PROVE EntitledInv'
    OBVIOUS
  <1> USE DEF RowTypes, EntitledInv, Entitled, CanApprove, Start, Goto, Finish, SetStatus,
              rowVars, journalVars, workerVars
  <1>1. ASSUME NEW w \in Workers, NEW p \in Payouts, NEW u \in Users,
               CreateReadBalance(w, p, u) \/ ApproveRead(w, p, u)
        PROVE  EntitledInv'
    BY <1>1 DEF CreateReadBalance, ApproveRead, ApproveRights
  <1>2. ASSUME NEW w \in Workers, CreateReadHeld(w) \/ CheckBalance(w) \/ Stop(w)
        PROVE  EntitledInv'
    BY <1>2 DEF CreateReadHeld, CheckBalance, Stop
  <1>3. ASSUME NEW w \in Workers, CreateInsert(w)  PROVE EntitledInv'
    BY <1>3 DEF CreateInsert, HoldInv, Creating
  <1>4. ASSUME NEW w \in Workers, Claim(w)  PROVE EntitledInv'
    BY <1>4 DEF Claim
  <1>5. ASSUME NEW w \in Workers, Bounce(w) \/ StoreReference(w) \/ MarkFailed(w)
        PROVE  EntitledInv'
    BY <1>5 DEF Bounce, StoreReference, MarkFailed, HoldInv, Executing, PreDebit
  <1>6. ASSUME NEW w \in Workers, NEW created \in BOOLEAN,
               Debit(w) \/ SendPayout(w, created) \/ Refund(w)
        PROVE  EntitledInv'
    BY <1>6 DEF Debit, SendPayout, Refund
  <1>7. ASSUME NEW p \in Payouts, NEW u \in Users, Reject(p, u)  PROVE EntitledInv'
    BY <1>7 DEF Reject
  <1>8. ASSUME NEW p \in Payouts, OrderReturned(p)  PROVE EntitledInv'
    BY <1>8 DEF OrderReturned
  <1>9. ASSUME NEW s \in Sessions, NEW entry \in SessionEntries, PostSession(s, entry)
        PROVE  EntitledInv'
    BY <1>9 DEF PostSession
  <1>10. CASE UNCHANGED vars
    BY <1>10 DEF vars
  <1> QED
    BY <1>1, <1>2, <1>3, <1>4, <1>5, <1>6, <1>7, <1>8, <1>9, <1>10 DEF Next, ExecuteNext

-----------------------------------------------------------------------------
Inv == RowTypes /\ HoldInv /\ OnceInv /\ EntitledInv

LEMMA InvIsInvariant == Spec => []Inv
  <1>1. Init => Inv
    BY InitInv DEF Inv, OnceInv
  <1>2. Inv /\ [Next]_vars => Inv'
    BY StepRowTypes, StepHoldInv, StepOnceInv, StepEntitledInv DEF Inv
  <1> QED
    BY <1>1, <1>2, PTL DEF Spec

(* A payout is debited, sent and refunded at most once each, and in that   *)
(* order, whatever handlers create, approve and bounce it at once.         *)
THEOREM PaidOutOnce == Spec => []ExecutesOnce
  <1>1. Inv => ExecutesOnce
    BY DEF Inv, OnceInv
  <1> QED
    BY <1>1, InvIsInvariant, PTL

(* No payout is sent on the word of one member of the merchant's team who  *)
(* is not an owner.                                                        *)
THEOREM DualControlHolds == Spec => []DualControl
  <1>1. Inv => DualControl
    <2> SUFFICES ASSUME Inv, NEW p \in Payouts, sent[p] > 0
                 PROVE  \/ initiatedBy[p] \in Owners
                        \/ CanApprove(approvedBy[p]) /\ approvedBy[p] # initiatedBy[p]
      BY DEF DualControl
    <2>1. ~Untouched(p)
      BY DEF Untouched
    <2>2. status[p] \in {"processing", "failed"}
      BY <2>1 DEF Inv, RowTypes, Status, OnceInv, MoneyInv
    <2> QED
      BY <2>2 DEF Inv, EntitledInv, Entitled
  <1> QED
    BY <1>1, InvIsInvariant, PTL

(* A rejected payout has cost nothing, although an approval that was under *)
(* way when it was rejected goes on to its claim.                          *)
THEOREM RejectionCostsNothing == Spec => []RejectedUntouched
  <1>1. Inv => RejectedUntouched
    BY DEF Inv, OnceInv, MoneyInv, Untouched, RejectedUntouched
  <1> QED
    BY <1>1, InvIsInvariant, PTL

(* A rejected payout stays rejected, unsent and with the user who rejected *)
(* it on record, whatever was under way.                                   *)
THEOREM RejectionIsFinal == Spec => RejectionFinal
  <1>1. ASSUME Inv, [Next]_vars, NEW p \in Payouts, status[p] = "rejected"
        PROVE  status'[p] = "rejected" /\ sent'[p] = sent[p] /\ approvedBy'[p] = approvedBy[p]
    <2>1. \A w \in Workers : /\ pc[w] \in Executing => on[w] # p
                             /\ pc[w] = "insert" => on[w] # p
      BY <1>1 DEF Inv, HoldInv, Creating
    <2> USE <1>1, <2>1 DEF Inv, RowTypes, Executing, PreDebit, Start, Goto, Finish, SetStatus,
                         rowVars, journalVars, workerVars
    <2>2. ASSUME NEW w \in Workers, NEW q \in Payouts, NEW u \in Users,
                 CreateReadBalance(w, q, u) \/ ApproveRead(w, q, u)
          PROVE  UNCHANGED <<status, sent, approvedBy>>
      BY <2>2 DEF CreateReadBalance, ApproveRead
    <2>3. ASSUME NEW w \in Workers,
                 \/ CreateReadHeld(w) \/ CheckBalance(w) \/ Stop(w) \/ Debit(w) \/ Refund(w)
          PROVE  UNCHANGED <<status, sent, approvedBy>>
      BY <2>3 DEF CreateReadHeld, CheckBalance, Stop, Debit, Refund
    <2>4. ASSUME NEW w \in Workers, CreateInsert(w)
          PROVE  status'[p] = status[p] /\ UNCHANGED <<sent, approvedBy>>
      BY <2>4 DEF CreateInsert
    <2>5. ASSUME NEW w \in Workers, Claim(w)
          PROVE  /\ status'[p] = status[p] /\ approvedBy'[p] = approvedBy[p]
                 /\ UNCHANGED sent
      BY <2>5 DEF Claim, ClaimFrom
    <2>6. ASSUME NEW w \in Workers, Bounce(w) \/ StoreReference(w) \/ MarkFailed(w)
          PROVE  status'[p] = status[p] /\ UNCHANGED <<sent, approvedBy>>
      BY <2>6 DEF Bounce, StoreReference, MarkFailed
    <2>7. ASSUME NEW w \in Workers, NEW created \in BOOLEAN, SendPayout(w, created)
          PROVE  sent'[p] = sent[p] /\ UNCHANGED <<status, approvedBy>>
      BY <2>7 DEF SendPayout
    <2>8. ASSUME NEW q \in Payouts, NEW u \in Users, Reject(q, u)
          PROVE  /\ status'[p] = status[p] /\ approvedBy'[p] = approvedBy[p]
                 /\ UNCHANGED sent
      BY <2>8 DEF Reject
    <2>9. ASSUME NEW q \in Payouts, OrderReturned(q)
          PROVE  UNCHANGED <<status, sent, approvedBy>>
      BY <2>9 DEF OrderReturned
    <2>10. ASSUME NEW s \in Sessions, NEW entry \in SessionEntries, PostSession(s, entry)
          PROVE  UNCHANGED <<status, sent, approvedBy>>
      BY <2>10 DEF PostSession
    <2>11. CASE UNCHANGED vars
      BY <2>11 DEF vars
    <2> QED
      BY <2>2, <2>3, <2>4, <2>5, <2>6, <2>7, <2>8, <2>9, <2>10, <2>11 DEF Next, ExecuteNext
  <1>2. Inv /\ [Next]_vars => [\A p \in Payouts :
             status[p] = "rejected" => /\ status'[p] = "rejected"
                                       /\ sent'[p] = sent[p]
                                       /\ approvedBy'[p] = approvedBy[p]]_vars
    BY <1>1
  <1> QED
    BY <1>2, InvIsInvariant, PTL DEF Spec, RejectionFinal

-----------------------------------------------------------------------------
(* The handlers implement PayoutContract.  Whoever is about to claim may    *)
(* start the payout, and whoever is past the request has made it.          *)
MayClaim ==
    \A w \in Workers :
        pc[w] = "claim" => \/ by[w] \in Owners /\ by[w] = initiatedBy[on[w]]
                           \/ CanApprove(by[w]) /\ by[w] # initiatedBy[on[w]]

RequestMade ==
    \A w \in Workers :
        pc[w] \in {"refund", "mark_failed"} => posted[<<on[w], "payout">>] = 1 /\ sent[on[w]] = 1

ContractInv == MayClaim /\ RequestMade

LEMMA StepContractInv == Inv /\ ContractInv /\ [Next]_vars => ContractInv'
  <1> SUFFICES ASSUME Inv, ContractInv, [Next]_vars  PROVE ContractInv'
    OBVIOUS
  <1> USE DEF Inv, RowTypes, ContractInv, MayClaim, RequestMade, CanApprove, Start, Goto, Finish,
              SetStatus, rowVars, journalVars, workerVars
  <1>1. ASSUME NEW w \in Workers, NEW p \in Payouts, NEW u \in Users,
               CreateReadBalance(w, p, u) \/ ApproveRead(w, p, u)
        PROVE  ContractInv'
    BY <1>1 DEF CreateReadBalance, ApproveRead, ApproveRights
  <1>2. ASSUME NEW w \in Workers, CreateReadHeld(w) \/ CheckBalance(w) \/ Stop(w)
        PROVE  ContractInv'
    BY <1>2 DEF CreateReadHeld, CheckBalance, Stop
  <1>3. ASSUME NEW w \in Workers, CreateInsert(w)  PROVE ContractInv'
    BY <1>3 DEF CreateInsert, HoldInv, Creating
  <1>4. ASSUME NEW w \in Workers, Claim(w)  PROVE ContractInv'
    BY <1>4 DEF Claim
  <1>5. ASSUME NEW w \in Workers, Bounce(w) \/ StoreReference(w) \/ MarkFailed(w)
        PROVE  ContractInv'
    BY <1>5 DEF Bounce, StoreReference, MarkFailed
  <1>6. ASSUME NEW w \in Workers, Debit(w)  PROVE ContractInv'
    <2>1. /\ pc[w] = "debit" /\ pc' = [pc EXCEPT ![w] = "send"] /\ UNCHANGED <<on, by, sent, initiatedBy>>
          /\ \A v \in Workers : on[v] = on[w] /\ pc[v] \in Executing => v = w
      BY <1>6 DEF Debit, HoldInv, Executing, PreDebit
    <2>2. \A v \in Workers : pc'[v] \in {"refund", "mark_failed"} =>
              posted'[<<on[v], "payout">>] = posted[<<on[v], "payout">>]
      BY <1>6, <2>1, DebitPosts DEF Executing, Entries
    <2> QED
      BY <2>1, <2>2
  <1>7. ASSUME NEW w \in Workers, NEW created \in BOOLEAN, SendPayout(w, created)
        PROVE  ContractInv'
    <2>1. /\ pc[w] = "send" /\ sent[on[w]] = 0 /\ posted[<<on[w], "payout">>] = 1
          /\ \A v \in Workers : on[v] = on[w] /\ pc[v] \in Executing => v = w
      BY <1>7 DEF SendPayout, OnceInv, MoneyInv, HoldInv, Executing, PreDebit
    <2> QED
      BY <1>7, <2>1 DEF SendPayout, Executing
  <1>8. ASSUME NEW w \in Workers, Refund(w)  PROVE ContractInv'
    <2>1. \A p \in Payouts : posted'[<<p, "payout">>] = posted[<<p, "payout">>]
      BY <1>8, RefundPosts
    <2> QED
      BY <1>8, <2>1 DEF Refund
  <1>9. ASSUME NEW p \in Payouts, NEW u \in Users, Reject(p, u)  PROVE ContractInv'
    BY <1>9 DEF Reject
  <1>10. ASSUME NEW p \in Payouts, OrderReturned(p)  PROVE ContractInv'
    BY <1>10 DEF OrderReturned
  <1>11. ASSUME NEW s \in Sessions, NEW entry \in SessionEntries, PostSession(s, entry)
        PROVE  ContractInv'
    BY <1>11 DEF PostSession
  <1>12. CASE UNCHANGED vars
    BY <1>12 DEF vars
  <1> QED
    BY <1>1, <1>2, <1>3, <1>4, <1>5, <1>6, <1>7, <1>8, <1>9, <1>10, <1>11, <1>12 DEF Next, ExecuteNext

(* A change of one row moves one payout through the phases.                *)
LEMMA PhaseMoves ==
    ASSUME RowTypes, NEW p \in Payouts, NEW st \in Status, status' = [status EXCEPT ![p] = st],
           UNCHANGED <<posted, sent>>
    PROVE  /\ Phase' = [Phase EXCEPT ![p] = PhaseOf(p)']
           /\ Phase[p] = PhaseOf(p)
           /\ Money' = Money
           /\ Money[p] = MoneyOf(p)
  <1>1. Money' = Money /\ Money[p] = MoneyOf(p)
    BY DEF Money, MoneyOf
  <1>2. \A q \in Payouts : q # p => PhaseOf(q)' = PhaseOf(q)
    BY DEF RowTypes, PhaseOf
  <1>3. Phase' = [Phase EXCEPT ![p] = PhaseOf(p)'] /\ Phase[p] = PhaseOf(p)
    BY <1>2 DEF Phase
  <1> QED
    BY <1>1, <1>3

(* An entry or a request moves the money of one payout.                    *)
LEMMA MoneyMoves ==
    ASSUME NEW p \in Payouts, status' = status,
           \A q \in Payouts : q # p =>
               /\ posted'[<<q, "payout">>] = posted[<<q, "payout">>]
               /\ posted'[<<q, "payout_reversal">>] = posted[<<q, "payout_reversal">>]
               /\ sent'[q] = sent[q]
    PROVE  /\ Money' = [Money EXCEPT ![p] = MoneyOf(p)']
           /\ Money[p] = MoneyOf(p)
           /\ Phase' = Phase
           /\ Phase[p] = PhaseOf(p)
  <1>1. \A q \in Payouts : q # p => MoneyOf(q)' = MoneyOf(q)
    BY DEF MoneyOf
  <1>2. Money' = [Money EXCEPT ![p] = MoneyOf(p)'] /\ Money[p] = MoneyOf(p)
    BY <1>1 DEF Money
  <1>3. Phase' = Phase /\ Phase[p] = PhaseOf(p)
    BY DEF Phase, PhaseOf
  <1> QED
    BY <1>2, <1>3

ContractStep == Contract!Next \/ UNCHANGED <<Phase, initiatedBy, approvedBy, Money>>

LEMMA Stutters ==
    ASSUME UNCHANGED <<status, initiatedBy, approvedBy, posted, sent>>
    PROVE  ContractStep
  BY DEF ContractStep, Phase, PhaseOf, Money, MoneyOf

(* Creating, starting and rejecting a payout.                              *)
LEMMA CreateInsertIsRequest ==
    ASSUME Inv, NEW w \in Workers, CreateInsert(w)
    PROVE  ContractStep
  <1>1. PICK p \in Payouts : p = on[w]
    BY DEF CreateInsert, Inv, RowTypes
  <1>2. PICK u \in Users : u = by[w]
    BY DEF CreateInsert, Inv, RowTypes
  <1>3. /\ status[p] = "none"
        /\ status' = [status EXCEPT ![p] = "pending_approval"]
        /\ initiatedBy' = [initiatedBy EXCEPT ![p] = u]
        /\ UNCHANGED <<approvedBy, posted, sent>>
    BY <1>1, <1>2 DEF CreateInsert, Inv, HoldInv, Creating, journalVars
  <1>4. PhaseOf(p) = "absent" /\ PhaseOf(p)' = "requested"
    BY <1>3 DEF PhaseOf, Inv, RowTypes
  <1>5. /\ Phase' = [Phase EXCEPT ![p] = PhaseOf(p)']
        /\ Phase[p] = PhaseOf(p) /\ Money' = Money
    BY <1>3, PhaseMoves DEF Inv, Status
  <1>6. Contract!Request(p, u)
    BY <1>3, <1>4, <1>5 DEF Contract!Request, Contract!Move
  <1> QED
    BY <1>6 DEF ContractStep, Contract!Next, Users

LEMMA ClaimIsStart ==
    ASSUME Inv, MayClaim, NEW w \in Workers, Claim(w)
    PROVE  ContractStep
  <1>1. PICK p \in Payouts : p = on[w]
    BY DEF Claim, Inv, RowTypes
  <1>2. PICK u \in Users : u = by[w]
    BY DEF Claim, Inv, RowTypes
  <1>3. CASE status[p] \in ClaimFrom
    <2>1. /\ status[p] = "pending_approval"
          /\ status' = [status EXCEPT ![p] = "processing"]
          /\ approvedBy' = [approvedBy EXCEPT ![p] = u]
          /\ UNCHANGED <<initiatedBy, posted, sent>>
      BY <1>1, <1>2, <1>3 DEF Claim, ClaimFrom, Inv, RowTypes, Status, journalVars
    <2>2. PhaseOf(p) = "requested" /\ PhaseOf(p)' = "executing"
      BY <2>1 DEF PhaseOf, Inv, RowTypes
    <2>3. /\ Phase' = [Phase EXCEPT ![p] = PhaseOf(p)']
          /\ Phase[p] = PhaseOf(p) /\ Money' = Money
      BY <2>1, PhaseMoves DEF Inv, Status
    <2>4. Contract!MayStart(p, u)
      BY <1>1, <1>2 DEF Claim, MayClaim, CanApprove, Contract!MayStart
    <2>5. Contract!Start(p, u)
      BY <2>1, <2>2, <2>3, <2>4 DEF Contract!Start, Contract!Move
    <2> QED
      BY <2>5 DEF ContractStep, Contract!Next, Users
  <1>4. CASE status[p] \notin ClaimFrom
    <2>1. UNCHANGED <<status, initiatedBy, approvedBy, posted, sent>>
      BY <1>1, <1>4 DEF Claim, rowVars, journalVars
    <2> QED
      BY <2>1, Stutters
  <1> QED
    BY <1>3, <1>4

LEMMA RejectIsReject ==
    ASSUME Inv, NEW p \in Payouts, NEW u \in Users, Reject(p, u)
    PROVE  ContractStep
  <1>1. /\ status[p] = "pending_approval"
        /\ status' = [status EXCEPT ![p] = "rejected"]
        /\ approvedBy' = [approvedBy EXCEPT ![p] = u]
        /\ u \in Owners \union Admins
        /\ UNCHANGED <<initiatedBy, posted, sent>>
    BY DEF Reject, CanApprove, journalVars
  <1>2. PhaseOf(p) = "requested" /\ PhaseOf(p)' = "rejected"
    BY <1>1 DEF PhaseOf, Inv, RowTypes
  <1>3. /\ Phase' = [Phase EXCEPT ![p] = PhaseOf(p)']
        /\ Phase[p] = PhaseOf(p) /\ Money' = Money
    BY <1>1, PhaseMoves DEF Inv, Status
  <1>4. Contract!Reject(p, u)
    BY <1>1, <1>2, <1>3 DEF Contract!Reject, Contract!Move
  <1> QED
    BY <1>4 DEF ContractStep, Contract!Next, Users

(* The end of an execution: put back, failed, or neither.                  *)
LEMMA BounceIsPutBack ==
    ASSUME Inv, NEW w \in Workers, Bounce(w)
    PROVE  ContractStep
  <1>1. PICK p \in Payouts : p = on[w]
    BY DEF Bounce, Inv, RowTypes
  <1>2. status[p] = "processing" /\ Untouched(p)
    BY <1>1 DEF Bounce, Inv, HoldInv, OnceInv, MoneyInv, Executing, PreDebit
  <1>3. CASE SetStatus(p, "pending_approval")
    <2>1. /\ status' = [status EXCEPT ![p] = "pending_approval"]
          /\ UNCHANGED <<initiatedBy, approvedBy, posted, sent>>
      BY <1>3 DEF Bounce, SetStatus, journalVars
    <2>2. PhaseOf(p) = "executing" /\ PhaseOf(p)' = "requested"
      BY <1>2, <2>1 DEF PhaseOf, Inv, RowTypes
    <2>3. /\ Phase' = [Phase EXCEPT ![p] = PhaseOf(p)']
          /\ Phase[p] = PhaseOf(p) /\ Money' = Money /\ Money[p] = MoneyOf(p)
      BY <2>1, PhaseMoves DEF Inv, Status
    <2>4. MoneyOf(p) = "none"
      BY <1>2 DEF MoneyOf, Untouched
    <2>5. Contract!PutBack(p)
      BY <2>1, <2>2, <2>3, <2>4 DEF Contract!PutBack, Contract!Move
    <2> QED
      BY <2>5 DEF ContractStep, Contract!Next
  <1>4. CASE UNCHANGED rowVars
    <2>1. UNCHANGED <<status, initiatedBy, approvedBy, posted, sent>>
      BY <1>4 DEF Bounce, rowVars, journalVars
    <2> QED
      BY <2>1, Stutters
  <1> QED
    BY <1>1, <1>3, <1>4 DEF Bounce

LEMMA MarkFailedIsFail ==
    ASSUME Inv, RequestMade, NEW w \in Workers, MarkFailed(w)
    PROVE  ContractStep
  <1>1. PICK p \in Payouts : p = on[w]
    BY DEF MarkFailed, Inv, RowTypes
  <1>2. status[p] = "processing"
    BY <1>1 DEF MarkFailed, Inv, HoldInv, Executing
  <1>3. posted[<<p, "payout">>] = 1 /\ sent[p] = 1
    BY <1>1 DEF MarkFailed, RequestMade
  <1>4. posted[<<p, "payout_reversal">>] \in {0, 1}
    <2>1. posted[<<p, "payout_reversal">>] \in Nat
      BY DEF Inv, RowTypes, Entries
    <2> QED
      BY <1>3, <2>1 DEF Inv, OnceInv, ExecutesOnce
  <1>5. CASE SetStatus(p, "failed")
    <2>1. /\ status' = [status EXCEPT ![p] = "failed"]
          /\ UNCHANGED <<initiatedBy, approvedBy, posted, sent>>
      BY <1>5 DEF MarkFailed, SetStatus, journalVars
    <2>2. PhaseOf(p) = "executing" /\ PhaseOf(p)' = "failed"
      BY <1>2, <2>1 DEF PhaseOf, Inv, RowTypes
    <2>3. /\ Phase' = [Phase EXCEPT ![p] = PhaseOf(p)']
          /\ Phase[p] = PhaseOf(p) /\ Money' = Money /\ Money[p] = MoneyOf(p)
      BY <2>1, PhaseMoves DEF Inv, Status
    <2>4. MoneyOf(p) \in {"requested", "refunded"}
      BY <1>3, <1>4 DEF MoneyOf
    <2>5. Contract!Fail(p)
      BY <2>1, <2>2, <2>3, <2>4 DEF Contract!Fail, Contract!Move
    <2> QED
      BY <2>5 DEF ContractStep, Contract!Next
  <1>6. CASE UNCHANGED rowVars
    <2>1. UNCHANGED <<status, initiatedBy, approvedBy, posted, sent>>
      BY <1>6 DEF MarkFailed, rowVars, journalVars
    <2> QED
      BY <2>1, Stutters
  <1> QED
    BY <1>1, <1>5, <1>6 DEF MarkFailed

(* The reference is stored with the status that the claim has set.         *)
LEMMA StoreReferenceStutters ==
    ASSUME Inv, NEW w \in Workers, StoreReference(w)
    PROVE  ContractStep
  <1>1. status[on[w]] = "processing"
    BY DEF StoreReference, Inv, HoldInv, Executing
  <1>2. UNCHANGED <<status, initiatedBy, approvedBy, posted, sent>>
    BY <1>1 DEF StoreReference, Inv, RowTypes, rowVars, journalVars
  <1> QED
    BY <1>2, Stutters

(* The three moves of the money.                                           *)
LEMMA DebitIsDebit ==
    ASSUME Inv, NEW w \in Workers, Debit(w)
    PROVE  ContractStep
  <1>1. PICK p \in Payouts : p = on[w]
    BY DEF Debit, Inv, RowTypes
  <1>2. status[p] = "processing" /\ Untouched(p)
    BY <1>1 DEF Debit, Inv, HoldInv, OnceInv, MoneyInv, Executing, PreDebit
  <1>3. UNCHANGED <<status, initiatedBy, approvedBy, sent>>
    BY DEF Debit, rowVars, journalVars
  <1>4. /\ posted'[<<p, "payout">>] = 1
        /\ posted'[<<p, "payout_reversal">>] = 0
        /\ \A q \in Payouts : q # p =>
               /\ posted'[<<q, "payout">>] = posted[<<q, "payout">>]
               /\ posted'[<<q, "payout_reversal">>] = posted[<<q, "payout_reversal">>]
    BY <1>1, <1>2, DebitPosts DEF Inv, Untouched, Entries
  <1>5. MoneyOf(p) = "none" /\ MoneyOf(p)' = "debited" /\ PhaseOf(p) = "executing"
    BY <1>2, <1>3, <1>4 DEF MoneyOf, Untouched, PhaseOf
  <1>6. /\ Money' = [Money EXCEPT ![p] = MoneyOf(p)']
        /\ Money[p] = MoneyOf(p) /\ Phase' = Phase /\ Phase[p] = PhaseOf(p)
    BY <1>3, <1>4, MoneyMoves
  <1>7. Contract!Debit(p)
    BY <1>3, <1>5, <1>6 DEF Contract!Debit, Contract!Pay
  <1> QED
    BY <1>7 DEF ContractStep, Contract!Next

LEMMA SendIsSend ==
    ASSUME Inv, NEW w \in Workers, NEW created \in BOOLEAN, SendPayout(w, created)
    PROVE  ContractStep
  <1>1. PICK p \in Payouts : p = on[w]
    BY DEF SendPayout, Inv, RowTypes
  <1>2. /\ status[p] = "processing" /\ sent[p] = 0
        /\ posted[<<p, "payout">>] = 1 /\ posted[<<p, "payout_reversal">>] = 0
    BY <1>1 DEF SendPayout, Inv, HoldInv, OnceInv, MoneyInv, Executing
  <1>3. UNCHANGED <<status, initiatedBy, approvedBy, posted>>
    BY DEF SendPayout, rowVars, journalVars
  <1>4. sent'[p] = 1 /\ \A q \in Payouts : q # p => sent'[q] = sent[q]
    BY <1>1, <1>2 DEF SendPayout, Inv, RowTypes
  <1>5. MoneyOf(p) = "debited" /\ MoneyOf(p)' = "requested" /\ PhaseOf(p) = "executing"
    BY <1>2, <1>3, <1>4 DEF MoneyOf, PhaseOf
  <1>6. /\ Money' = [Money EXCEPT ![p] = MoneyOf(p)']
        /\ Money[p] = MoneyOf(p) /\ Phase' = Phase /\ Phase[p] = PhaseOf(p)
    BY <1>3, <1>4, MoneyMoves
  <1>7. Contract!Send(p)
    BY <1>3, <1>5, <1>6 DEF Contract!Send, Contract!Pay
  <1> QED
    BY <1>7 DEF ContractStep, Contract!Next

LEMMA RefundIsRefund ==
    ASSUME Inv, RequestMade, NEW w \in Workers, Refund(w)
    PROVE  ContractStep
  <1>1. PICK p \in Payouts : p = on[w]
    BY DEF Refund, Inv, RowTypes
  <1>2. /\ status[p] = "processing" /\ sent[p] = 1
        /\ posted[<<p, "payout">>] = 1 /\ posted[<<p, "payout_reversal">>] = 0
    BY <1>1 DEF Refund, RequestMade, Inv, HoldInv, OnceInv, MoneyInv, Executing
  <1>3. UNCHANGED <<status, initiatedBy, approvedBy, sent>>
    BY DEF Refund, rowVars, journalVars
  <1>4. /\ posted'[<<p, "payout">>] = 1
        /\ posted'[<<p, "payout_reversal">>] \in {0, 1}
        /\ \A q \in Payouts : q # p =>
               /\ posted'[<<q, "payout">>] = posted[<<q, "payout">>]
               /\ posted'[<<q, "payout_reversal">>] = posted[<<q, "payout_reversal">>]
    BY <1>1, <1>2, RefundPosts DEF Inv
  <1>5. MoneyOf(p) = "requested" /\ PhaseOf(p) = "executing"
    BY <1>2 DEF MoneyOf, PhaseOf
  <1>6. /\ Money' = [Money EXCEPT ![p] = MoneyOf(p)']
        /\ Money[p] = MoneyOf(p) /\ Phase' = Phase /\ Phase[p] = PhaseOf(p)
    BY <1>3, <1>4, MoneyMoves
  <1>7. CASE posted'[<<p, "payout_reversal">>] = 1
    <2>1. MoneyOf(p)' = "refunded"
      BY <1>2, <1>3, <1>4, <1>7 DEF MoneyOf
    <2>2. Contract!Refund(p)
      BY <1>3, <1>5, <1>6, <2>1 DEF Contract!Refund, Contract!Pay
    <2> QED
      BY <2>2 DEF ContractStep, Contract!Next
  <1>8. CASE posted'[<<p, "payout_reversal">>] = 0
    <2>1. MoneyOf(p)' = MoneyOf(p)
      BY <1>2, <1>3, <1>4, <1>8 DEF MoneyOf
    <2>2. Money' = Money
      BY <1>6, <2>1 DEF Money
    <2> QED
      BY <1>3, <1>6, <2>2 DEF ContractStep
  <1> QED
    BY <1>4, <1>7, <1>8

LEMMA StepIsContractStep == Inv /\ ContractInv /\ [Next]_vars => ContractStep
  <1> SUFFICES ASSUME Inv, MayClaim, RequestMade, [Next]_vars  PROVE ContractStep
    BY DEF ContractInv
  <1>1. ASSUME NEW w \in Workers, NEW p \in Payouts, NEW u \in Users,
               CreateReadBalance(w, p, u) \/ ApproveRead(w, p, u)
        PROVE  ContractStep
    BY <1>1, Stutters DEF CreateReadBalance, ApproveRead, rowVars, journalVars
  <1>2. ASSUME NEW w \in Workers, CreateReadHeld(w) \/ CheckBalance(w) \/ Stop(w)
        PROVE  ContractStep
    BY <1>2, Stutters DEF CreateReadHeld, CheckBalance, Stop, rowVars, journalVars
  <1>3. ASSUME NEW p \in Payouts, OrderReturned(p)  PROVE ContractStep
    BY <1>3, Stutters DEF OrderReturned, rowVars, journalVars
  <1>4. ASSUME NEW s \in Sessions, NEW entry \in SessionEntries, PostSession(s, entry)
        PROVE  ContractStep
    BY <1>4, Stutters DEF PostSession, rowVars, journalVars
  <1>5. CASE UNCHANGED vars
    BY <1>5, Stutters DEF vars, rowVars, journalVars
  <1> QED
    BY <1>1, <1>2, <1>3, <1>4, <1>5, CreateInsertIsRequest, ClaimIsStart, RejectIsReject,
       BounceIsPutBack, MarkFailedIsFail, StoreReferenceStutters, DebitIsDebit, SendIsSend,
       RefundIsRefund
    DEF Next, ExecuteNext

(* The handlers, with all their races, bounces and crashes, keep the       *)
(* contract: who may start a payout, that a rejection is the end of it,    *)
(* and that its money takes one path, at most once.                        *)
THEOREM ImplementsContract == Spec => ContractHolds
  <1>1. Init => Contract!Init /\ ContractInv
    <2> SUFFICES ASSUME Init  PROVE Contract!Init /\ ContractInv
      OBVIOUS
    <2>1. \A p \in Payouts : PhaseOf(p) = "absent" /\ MoneyOf(p) = "none"
      BY DEF Init, PhaseOf, MoneyOf, Entries
    <2>2. Contract!Init
      BY <2>1 DEF Init, Contract!Init, Phase, Money
    <2>3. ContractInv
      BY DEF Init, ContractInv, MayClaim, RequestMade
    <2> QED
      BY <2>2, <2>3
  <1>2. Inv /\ ContractInv /\ [Next]_vars => [Contract!Next]_(Contract!contractVars)
    BY StepIsContractStep DEF ContractStep, Contract!contractVars
  <1> QED
    BY <1>1, <1>2, InvIsInvariant, StepContractInv, PTL DEF Spec, ContractHolds, Contract!Spec

-----------------------------------------------------------------------------
(* The balance.                                                            *)
NetOf(p) == Amount[p] * (posted[<<p, "payout_reversal">>] - posted[<<p, "payout">>])

Settled(s) == IF <<s, "settlement">> \in sessionPosted THEN Amount[s] ELSE 0

Reversed(s) == IF <<s, "reversal">> \in sessionPosted THEN Amount[s] ELSE 0

IncomeOf(s) == Settled(s) - Reversed(s)

LEMMA NetType ==
    ASSUME RowTypes, NEW p \in Payouts
    PROVE  NetOf(p) \in Int
  <1>1. /\ posted[<<p, "payout_reversal">>] \in Int
        /\ posted[<<p, "payout">>] \in Int
    BY DEF RowTypes, Entries
  <1>2. Amount[p] \in Int
    BY AmountAssumption
  <1> QED
    BY <1>1, <1>2 DEF NetOf

LEMMA IncomeOfType == \A s \in Sessions : IncomeOf(s) \in Int
  BY AmountAssumption DEF IncomeOf, Settled, Reversed

LEMMA IncomeType == Income \in Int
  <1> DEFINE net == [s \in Sessions |-> IncomeOf(s)]
  <1>1. Income = SumFunctionOnSet(net, Sessions)
    BY DEF Income, SumFunction, IncomeOf, Settled, Reversed
  <1>2. \A s \in Sessions : net[s] \in Int
    BY IncomeOfType
  <1> HIDE DEF net
  <1> QED
    BY <1>1, <1>2, SumType, SessionsAssumption

LEMMA AvailableType ==
    ASSUME RowTypes
    PROVE  Available \in Int
  <1> DEFINE net == [p \in Payouts |-> NetOf(p)]
  <1>1. Available = Income + SumFunctionOnSet(net, Payouts)
    BY DEF Available, SumFunction, NetOf
  <1>2. \A p \in Payouts : net[p] \in Int
    BY NetType
  <1> HIDE DEF net
  <1> QED
    BY <1>1, <1>2, SumType, IncomeType, PayoutsAssumption

LEMMA StepTypeOK == RowTypes /\ TypeOK /\ [Next]_vars => TypeOK'
  <1> SUFFICES ASSUME RowTypes, TypeOK, [Next]_vars  PROVE TypeOK'
    OBVIOUS
  <1>1. RowTypes'
    BY StepRowTypes
  <1> SUFFICES /\ reference' \in SUBSET Payouts
               /\ order' \in [Payouts -> {"none", "accepted", "returned"}]
               /\ seen' \in [Workers -> Int]
               /\ sessionPosted' \subseteq Sessions \X SessionEntries
               /\ late' \in Nat
    BY <1>1 DEF RowTypes, TypeOK
  <1> DEFINE Rest == /\ reference' \in SUBSET Payouts
                     /\ order' \in [Payouts -> {"none", "accepted", "returned"}]
                     /\ seen' \in [Workers -> Int]
                     /\ sessionPosted' \subseteq Sessions \X SessionEntries
                     /\ late' \in Nat
  <1> USE DEF TypeOK, Start, Goto, Finish, SetStatus, rowVars, journalVars, sessionVars, workerVars
  <1>2. ASSUME NEW w \in Workers, NEW p \in Payouts, NEW u \in Users, CreateReadBalance(w, p, u)
        PROVE  Rest
    BY <1>2, AvailableType DEF CreateReadBalance
  <1>3. ASSUME NEW w \in Workers, NEW p \in Payouts, NEW u \in Users, ApproveRead(w, p, u)
        PROVE  Rest
    BY <1>3 DEF ApproveRead
  <1>4. ASSUME NEW w \in Workers, CreateReadHeld(w) \/ CreateInsert(w) \/ Claim(w)  PROVE Rest
    BY <1>4 DEF CreateReadHeld, CreateInsert, Claim
  <1>5. ASSUME NEW w \in Workers, CheckBalance(w) \/ Debit(w) \/ Refund(w)  PROVE Rest
    BY <1>5 DEF CheckBalance, Debit, Refund
  <1>6. ASSUME NEW w \in Workers, Bounce(w) \/ MarkFailed(w) \/ Stop(w)  PROVE Rest
    BY <1>6 DEF Bounce, MarkFailed, Stop
  <1>7. ASSUME NEW w \in Workers, StoreReference(w)  PROVE Rest
    BY <1>7 DEF StoreReference, RowTypes
  <1>8. ASSUME NEW w \in Workers, NEW created \in BOOLEAN, SendPayout(w, created)  PROVE Rest
    BY <1>8 DEF SendPayout
  <1>9. ASSUME NEW p \in Payouts, NEW u \in Users, Reject(p, u)  PROVE Rest
    BY <1>9 DEF Reject
  <1>10. ASSUME NEW p \in Payouts, OrderReturned(p)  PROVE Rest
    BY <1>10 DEF OrderReturned
  <1>11. ASSUME NEW s \in Sessions, NEW entry \in SessionEntries, PostSession(s, entry)
        PROVE  Rest
    BY <1>11, AmountAssumption DEF PostSession
  <1>12. CASE UNCHANGED vars
    BY <1>12 DEF vars
  <1> QED
    BY <1>2, <1>3, <1>4, <1>5, <1>6, <1>7, <1>8, <1>9, <1>10, <1>11, <1>12 DEF Next, ExecuteNext

(* The types of all variables, the balance a worker has read included.     *)
THEOREM TypeCorrect == Spec => []TypeOK
  <1>1. Init => TypeOK
    BY DEF Init, TypeOK, Status, Entries, Steps
  <1>2. Inv => RowTypes
    BY DEF Inv
  <1> QED
    BY <1>1, <1>2, InvIsInvariant, StepTypeOK, PTL DEF Spec

-----------------------------------------------------------------------------
(* What one entry does to the balance.                                     *)
LEMMA AvailableMoves ==
    ASSUME RowTypes, RowTypes', UNCHANGED sessionPosted, NEW p \in Payouts,
           \A q \in Payouts, e \in Entries : q # p => posted'[<<q, e>>] = posted[<<q, e>>]
    PROVE  Available' = Available + NetOf(p)' - NetOf(p)
  <1> DEFINE old == [q \in Payouts |-> NetOf(q)]
             new == [q \in Payouts |-> NetOf(q)']
  <1>0. Income' = Income /\ Income \in Int
    BY IncomeType DEF Income
  <1>1. Available = Income + SumFunctionOnSet(old, Payouts)
    BY DEF Available, SumFunction, NetOf
  <1>2. Available' = Income + SumFunctionOnSet(new, Payouts)
    BY <1>0 DEF Available, SumFunction, NetOf
  <1>3. \A q \in Payouts : old[q] \in Int
    BY NetType
  <1>4. \A q \in Payouts : new[q] \in Int
    <2> SUFFICES ASSUME NEW q \in Payouts  PROVE NetOf(q)' \in Int
      OBVIOUS
    <2>1. Amount[q] \in Int /\ posted'[<<q, "payout_reversal">>] \in Int /\ posted'[<<q, "payout">>] \in Int
      BY AmountAssumption DEF RowTypes, Entries
    <2> QED
      BY <2>1 DEF NetOf
  <1>5. \A q \in Payouts \ {p} : new[q] = old[q]
    BY DEF NetOf, Entries
  <1>6. old[p] = NetOf(p) /\ new[p] = NetOf(p)'
    OBVIOUS
  <1> HIDE DEF old, new
  <1>7. SumFunctionOnSet(new, Payouts) = SumFunctionOnSet(old, Payouts) + new[p] - old[p]
    BY <1>3, <1>4, <1>5, SumChange, PayoutsAssumption
  <1>8. SumFunctionOnSet(old, Payouts) \in Int
    BY <1>3, SumType, PayoutsAssumption
  <1> QED
    BY <1>0, <1>1, <1>2, <1>3, <1>4, <1>6, <1>7, <1>8

(* An entry of a session adds its amount to the balance or takes it away.  *)
LEMMA SessionMoves ==
    ASSUME RowTypes, NEW s \in Sessions, NEW entry \in SessionEntries, PostSession(s, entry)
    PROVE  Available' = IF entry = "reversal" THEN Available - Amount[s] ELSE Available + Amount[s]
  <1> DEFINE old == [r \in Sessions |-> IncomeOf(r)]
             new == [r \in Sessions |-> IncomeOf(r)']
             rest == SumFunction([p \in Payouts |-> NetOf(p)])
  <1>1. Income = SumFunctionOnSet(old, Sessions) /\ Income' = SumFunctionOnSet(new, Sessions)
    BY DEF Income, SumFunction, IncomeOf, Settled, Reversed
  <1>2. \A r \in Sessions : old[r] \in Int /\ new[r] \in Int
    BY AmountAssumption DEF IncomeOf, Settled, Reversed
  <1>3. \A r \in Sessions \ {s} : new[r] = old[r]
    BY DEF PostSession, IncomeOf, Settled, Reversed
  <1>4. new[s] = IF entry = "reversal" THEN old[s] - Amount[s] ELSE old[s] + Amount[s]
    BY AmountAssumption DEF PostSession, SessionEntries, IncomeOf, Settled, Reversed
  <1>5. Available = Income + rest /\ Available' = Income' + rest
    BY DEF Available, NetOf, PostSession
  <1>6. rest \in Int
    <2> DEFINE net == [p \in Payouts |-> NetOf(p)]
    <2>1. rest = SumFunctionOnSet(net, Payouts)
      BY DEF SumFunction
    <2>2. \A p \in Payouts : net[p] \in Int
      BY NetType
    <2> HIDE DEF net, rest
    <2> QED
      BY <2>1, <2>2, SumType, PayoutsAssumption
  <1> HIDE DEF old, new, rest
  <1>7. SumFunctionOnSet(new, Sessions) = SumFunctionOnSet(old, Sessions) + new[s] - old[s]
    BY <1>2, <1>3, SumChange, SessionsAssumption
  <1>8. SumFunctionOnSet(old, Sessions) \in Int /\ Amount[s] \in Int
    BY <1>2, SumType, SessionsAssumption, AmountAssumption
  <1> QED
    BY <1>1, <1>2, <1>4, <1>5, <1>6, <1>7, <1>8

(* The share of a worker that has passed the check and not yet debited.    *)
Pending(w) == IF pc[w] = "debit" THEN Amount[on[w]] ELSE 0

PendingSum == SumFunction([w \in Workers |-> Pending(w)])

(* One payout of at most M cents for each worker but one.                  *)
Slack(M) == IF Workers = {} THEN 0 ELSE (Cardinality(Workers) - 1) * M

(* Why the overdraft is bounded: what passed the check is covered by the   *)
(* balance, the slack and what was reversed since, already before it is    *)
(* debited.  Each check that passes starts the account of reversals anew.  *)
FundsInv(M) == late \in Nat /\ PendingSum <= Available + late + Slack(M)

LEMMA PendingType ==
    ASSUME RowTypes, NEW w \in Workers
    PROVE  Pending(w) \in Int
  <1>1. pc[w] = "debit" => Amount[on[w]] \in Int
    BY AmountAssumption DEF RowTypes
  <1> QED
    BY <1>1 DEF Pending

LEMMA PendingSumType ==
    ASSUME RowTypes, IsFiniteSet(Workers)
    PROVE  PendingSum \in Int
  <1> DEFINE f == [w \in Workers |-> Pending(w)]
  <1>1. PendingSum = SumFunctionOnSet(f, Workers)
    BY DEF PendingSum, SumFunction
  <1>2. \A w \in Workers : f[w] \in Int
    BY PendingType
  <1> HIDE DEF f
  <1> QED
    BY <1>1, <1>2, SumType

(* A worker's step changes no share but its own.                           *)
LEMMA PendingMoves ==
    ASSUME RowTypes, RowTypes', IsFiniteSet(Workers), NEW w \in Workers,
           \A v \in Workers : v # w => pc'[v] = pc[v] /\ on'[v] = on[v]
    PROVE  PendingSum' = PendingSum + Pending(w)' - Pending(w)
  <1> DEFINE old == [v \in Workers |-> Pending(v)]
             new == [v \in Workers |-> Pending(v)']
  <1>1. PendingSum = SumFunctionOnSet(old, Workers)
    BY DEF PendingSum, SumFunction
  <1>2. PendingSum' = SumFunctionOnSet(new, Workers)
    BY DEF PendingSum, SumFunction
  <1>3. \A v \in Workers : old[v] \in Int
    BY PendingType
  <1>4. \A v \in Workers : new[v] \in Int
    <2> SUFFICES ASSUME NEW v \in Workers  PROVE Pending(v)' \in Int
      OBVIOUS
    <2>1. pc'[v] = "debit" => Amount[on'[v]] \in Int
      BY AmountAssumption DEF RowTypes
    <2> QED
      BY <2>1 DEF Pending
  <1>5. \A v \in Workers \ {w} : new[v] = old[v]
    BY DEF Pending
  <1>6. old[w] = Pending(w) /\ new[w] = Pending(w)'
    OBVIOUS
  <1> HIDE DEF old, new
  <1> QED
    BY <1>1, <1>2, <1>3, <1>4, <1>5, <1>6, SumChange

(* Whoever passes the check finds its own amount covered, and every other  *)
(* worker has at most one payout pending.                                  *)
LEMMA CheckedIsCovered ==
    ASSUME RowTypes, RowTypes', IsFiniteSet(Workers),
           NEW M \in Nat, \A p \in Payouts : Amount[p] <= M,
           NEW w \in Workers, pc'[w] = "debit", on'[w] \in Payouts, Amount[on'[w]] <= Available
    PROVE  PendingSum' <= Available + Slack(M)
  <1> DEFINE new == [v \in Workers |-> Pending(v)']
             others == Workers \ {w}
  <1>1. PendingSum' = SumFunctionOnSet(new, Workers)
    BY DEF PendingSum, SumFunction
  <1>2. \A v \in Workers : new[v] \in Int /\ new[v] <= M
    <2> SUFFICES ASSUME NEW v \in Workers  PROVE Pending(v)' \in Int /\ Pending(v)' <= M
      OBVIOUS
    <2>1. pc'[v] = "debit" => Amount[on'[v]] \in Int /\ Amount[on'[v]] <= M
      BY AmountAssumption DEF RowTypes
    <2> QED
      BY <2>1 DEF Pending
  <1>3. new[w] <= Available
    BY DEF Pending
  <1>4. /\ IsFiniteSet(others)
        /\ Cardinality(others) = Cardinality(Workers) - 1
        /\ Workers # {}
        /\ \A v \in others : v \in Workers
    BY FS_RemoveElement
  <1> HIDE DEF new
  <1>5. SumFunctionOnSet(new, Workers) = new[w] + SumFunctionOnSet(new, others)
    BY <1>2, SumRemove
  <1> HIDE DEF others
  <1>6. SumFunctionOnSet(new, others) <= Cardinality(others) * M /\ SumFunctionOnSet(new, others) \in Int
    <2>1. M \in Int /\ \A v \in others : new[v] \in Int /\ new[v] <= M
      BY <1>2, <1>4
    <2> QED
      BY <1>4, <2>1, SumBound, SumType
  <1>7. Slack(M) = Cardinality(others) * M /\ Slack(M) \in Int
    BY <1>4, FS_CardinalityType DEF Slack
  <1>8. Available \in Int /\ new[w] \in Int
    BY <1>2, AvailableType
  <1> QED
    BY <1>1, <1>3, <1>5, <1>6, <1>7, <1>8

(* Steps after which worker w has passed no check and nothing was posted.  *)
LEMMA FundsFrame ==
    ASSUME RowTypes, RowTypes', IsFiniteSet(Workers), NEW M, FundsInv(M), Slack(M) \in Int,
           UNCHANGED <<posted, sessionPosted, late>>, NEW w \in Workers, pc'[w] # "debit",
           \A v \in Workers : v # w => pc'[v] = pc[v] /\ on'[v] = on[v]
    PROVE  FundsInv(M)'
  <1>1. PendingSum' = PendingSum + Pending(w)' - Pending(w)
    BY PendingMoves
  <1>2. Pending(w)' = 0
    BY DEF Pending
  <1>3. Pending(w) \in Int /\ Pending(w) >= 0
    <2>1. pc[w] = "debit" => Amount[on[w]] \in Nat
      BY AmountAssumption DEF RowTypes
    <2> QED
      BY <2>1 DEF Pending
  <1>4. PendingSum \in Int /\ Available \in Int
    BY PendingSumType, AvailableType
  <1>5. Available' = Available /\ Slack(M)' = Slack(M)
    BY DEF Available, Income, Slack
  <1>6. PendingSum <= Available + late + Slack(M) /\ late \in Nat
    BY DEF FundsInv
  <1>7. PendingSum' <= Available + late + Slack(M)
    BY <1>1, <1>2, <1>3, <1>4, <1>6
  <1> QED
    BY <1>5, <1>6, <1>7 DEF FundsInv

(* The debit spends what was pending.                                      *)
LEMMA DebitFunds ==
    ASSUME RowTypes, RowTypes', IsFiniteSet(Workers), NEW M, FundsInv(M), Slack(M) \in Int,
           NEW w \in Workers, Debit(w)
    PROVE  FundsInv(M)'
  <1>0. PICK p \in Payouts : p = on[w]
    BY DEF RowTypes, Debit
  <1>1. p = on[w] /\ pc[w] = "debit" /\ pc'[w] = "send"
    BY <1>0 DEF RowTypes, Debit, Goto
  <1>2. PendingSum' = PendingSum + Pending(w)' - Pending(w)
    BY PendingMoves DEF RowTypes, Debit, Goto
  <1>3. Pending(w)' = 0 /\ Pending(w) = Amount[p]
    BY <1>1 DEF Pending
  <1>4. Available' = Available + NetOf(p)' - NetOf(p)
    <2>1. \A q \in Payouts, e \in Entries : q # p => posted'[<<q, e>>] = posted[<<q, e>>]
      BY <1>0, DebitPosts
    <2> QED
      BY <1>1, <2>1, AvailableMoves DEF Debit, sessionVars
  <1>5. NetOf(p)' = NetOf(p) - Amount[p]
    <2>1. /\ posted'[<<p, "payout">>] = posted[<<p, "payout">>] + 1
          /\ posted'[<<p, "payout_reversal">>] = posted[<<p, "payout_reversal">>]
          /\ posted[<<p, "payout">>] \in Int /\ posted[<<p, "payout_reversal">>] \in Int
      BY <1>1, DebitPosts DEF RowTypes, Entries
    <2>2. Amount[p] \in Int
      BY <1>1, AmountAssumption
    <2> QED
      BY <2>1, <2>2 DEF NetOf
  <1>6. Amount[p] \in Int /\ NetOf(p) \in Int /\ PendingSum \in Int /\ Available \in Int
    BY <1>1, AmountAssumption, NetType, PendingSumType, AvailableType
  <1>7. /\ PendingSum <= Available + late + Slack(M)
        /\ late \in Nat /\ late' = late /\ Slack(M)' = Slack(M)
    BY DEF FundsInv, Slack, Debit, sessionVars
  <1>8. PendingSum' <= Available' + late + Slack(M)
    BY <1>2, <1>3, <1>4, <1>5, <1>6, <1>7
  <1> QED
    BY <1>7, <1>8 DEF FundsInv

(* A refund adds to the balance, if it is posted at all.                   *)
LEMMA RefundFunds ==
    ASSUME RowTypes, RowTypes', IsFiniteSet(Workers), NEW M, FundsInv(M), Slack(M) \in Int,
           NEW w \in Workers, Refund(w)
    PROVE  FundsInv(M)'
  <1>0. PICK p \in Payouts : p = on[w]
    BY DEF RowTypes, Refund
  <1>1. p = on[w] /\ pc[w] # "debit" /\ pc'[w] # "debit"
    BY <1>0 DEF RowTypes, Refund, Goto
  <1>2. PendingSum' = PendingSum + Pending(w)' - Pending(w)
    BY PendingMoves DEF RowTypes, Refund, Goto
  <1>3. Pending(w)' = 0 /\ Pending(w) = 0
    BY <1>1 DEF Pending
  <1>4. Available' = Available + NetOf(p)' - NetOf(p)
    <2>1. \A q \in Payouts, e \in Entries : q # p => posted'[<<q, e>>] = posted[<<q, e>>]
      BY <1>0, RefundPosts DEF Entries
    <2> QED
      BY <1>1, <2>1, AvailableMoves DEF Refund, sessionVars
  <1>5. NetOf(p)' \in {NetOf(p), NetOf(p) + Amount[p]}
    <2>1. /\ posted'[<<p, "payout">>] = posted[<<p, "payout">>]
          /\ posted'[<<p, "payout_reversal">>] \in
                 {posted[<<p, "payout_reversal">>], posted[<<p, "payout_reversal">>] + 1}
          /\ posted[<<p, "payout">>] \in Int /\ posted[<<p, "payout_reversal">>] \in Int
      BY <1>1, RefundPosts DEF RowTypes, Entries
    <2>2. Amount[p] \in Int
      BY <1>1, AmountAssumption
    <2> QED
      BY <2>1, <2>2 DEF NetOf
  <1>6. Amount[p] \in Nat /\ NetOf(p) \in Int /\ PendingSum \in Int /\ Available \in Int
    BY <1>1, AmountAssumption, NetType, PendingSumType, AvailableType
  <1>7. /\ PendingSum <= Available + late + Slack(M)
        /\ late \in Nat /\ late' = late /\ Slack(M)' = Slack(M)
    BY DEF FundsInv, Slack, Refund, sessionVars
  <1>8. PendingSum' <= Available' + late + Slack(M)
    BY <1>2, <1>3, <1>4, <1>5, <1>6, <1>7
  <1> QED
    BY <1>7, <1>8 DEF FundsInv

(* A reversal counts as late, and a settlement helps.                      *)
LEMMA SessionFunds ==
    ASSUME RowTypes, IsFiniteSet(Workers), NEW M, FundsInv(M), Slack(M) \in Int,
           NEW s \in Sessions, NEW entry \in SessionEntries, PostSession(s, entry)
    PROVE  FundsInv(M)'
  <1>1. Amount[s] \in Nat
    BY AmountAssumption
  <1>2. PendingSum' = PendingSum /\ Slack(M)' = Slack(M)
    BY DEF PostSession, PendingSum, Pending, Slack, workerVars
  <1>3. PendingSum \in Int /\ Available \in Int
    BY PendingSumType, AvailableType
  <1>4. late' = IF entry = "reversal" THEN late + Amount[s] ELSE late
    BY DEF PostSession
  <1>5. Available' + late' >= Available + late /\ late' \in Nat /\ Available' \in Int
    BY <1>1, <1>3, <1>4, SessionMoves DEF FundsInv
  <1>6. PendingSum <= Available + late + Slack(M) /\ late \in Nat
    BY DEF FundsInv
  <1>7. PendingSum <= Available' + late' + Slack(M)
    <2>1. \A a, b, c, d, k \in Int : a <= b + k /\ c + d >= b => a <= c + d + k
      OBVIOUS
    <2>2. Available + late \in Int /\ late' \in Int
      BY <1>3, <1>5, <1>6
    <2> QED
      BY <1>3, <1>5, <1>6, <2>1, <2>2
  <1> QED
    BY <1>2, <1>5, <1>7 DEF FundsInv

LEMMA StepFunds ==
    ASSUME IsFiniteSet(Workers), NEW M \in Nat, \A p \in Payouts : Amount[p] <= M,
           RowTypes, FundsInv(M), [Next]_vars
    PROVE  FundsInv(M)'
  <1>0. RowTypes' /\ Slack(M) \in Int
    BY StepRowTypes, FS_CardinalityType DEF Slack
  <1>1. ASSUME NEW w \in Workers, CheckBalance(w)  PROVE FundsInv(M)'
    <2>1. CASE Amount[on[w]] > Available
      <3>1. Amount[on[w]] \in Int /\ Available \in Int
        BY <1>1, AvailableType, AmountAssumption DEF CheckBalance, RowTypes
      <3> QED
        BY <1>0, <1>1, <2>1, <3>1, FundsFrame DEF CheckBalance, Goto, RowTypes
    <2>2. CASE Amount[on[w]] <= Available
      <3>1. Amount[on[w]] \in Int /\ Available \in Int
        BY <1>1, AvailableType, AmountAssumption DEF CheckBalance, RowTypes
      <3>2. /\ pc' = [pc EXCEPT ![w] = "debit"] /\ UNCHANGED <<on, posted, sessionPosted>>
            /\ on[w] \in Payouts /\ late' = 0
        BY <1>1, <2>2, <3>1 DEF CheckBalance, Goto, RowTypes
      <3>3. PendingSum' <= Available + Slack(M)
        BY <1>0, <2>2, <3>2, CheckedIsCovered DEF RowTypes
      <3>4. Available' = Available /\ Slack(M)' = Slack(M)
        BY <3>2 DEF Available, Income, Slack
      <3> QED
        BY <3>1, <3>2, <3>3, <3>4 DEF FundsInv
    <2> QED
      BY <1>1, <2>1, <2>2 DEF CheckBalance
  <1>2. ASSUME NEW w \in Workers, Debit(w) \/ Refund(w)  PROVE FundsInv(M)'
    BY <1>0, <1>2, DebitFunds, RefundFunds
  <1>3. CASE UNCHANGED <<posted, sessionVars, pc, on>>
    BY <1>3 DEF FundsInv, PendingSum, Pending, Available, Income, Slack, sessionVars
  <1>4. ASSUME NEW w \in Workers, NEW step \in Steps \ {"debit"}, UNCHANGED journalVars,
               pc' = [pc EXCEPT ![w] = step],
               \A v \in Workers : v # w => on'[v] = on[v]
        PROVE  FundsInv(M)'
    <2>1. pc'[w] # "debit" /\ \A v \in Workers : v # w => pc'[v] = pc[v]
      BY <1>4 DEF RowTypes
    <2> QED
      BY <1>0, <1>4, <2>1, FundsFrame DEF journalVars, sessionVars
  <1> USE DEF RowTypes, Steps, Start, Goto, Finish
  <1>5. ASSUME NEW w \in Workers, NEW p \in Payouts, NEW u \in Users,
               CreateReadBalance(w, p, u) \/ ApproveRead(w, p, u)
        PROVE  FundsInv(M)'
    BY <1>4, <1>5 DEF CreateReadBalance, ApproveRead
  <1>6. ASSUME NEW w \in Workers, CreateReadHeld(w) \/ CreateInsert(w) \/ Claim(w)
        PROVE  FundsInv(M)'
    BY <1>4, <1>6 DEF CreateReadHeld, CreateInsert, Claim
  <1>7. ASSUME NEW w \in Workers, Bounce(w) \/ StoreReference(w) \/ MarkFailed(w) \/ Stop(w)
        PROVE  FundsInv(M)'
    BY <1>4, <1>7 DEF Bounce, StoreReference, MarkFailed, Stop
  <1>8. ASSUME NEW w \in Workers, NEW created \in BOOLEAN, SendPayout(w, created)
        PROVE  FundsInv(M)'
    BY <1>4, <1>8 DEF SendPayout
  <1>9. ASSUME NEW p \in Payouts, NEW u \in Users, Reject(p, u)  PROVE FundsInv(M)'
    BY <1>3, <1>9 DEF Reject, journalVars, workerVars
  <1>10. ASSUME NEW p \in Payouts, OrderReturned(p)  PROVE FundsInv(M)'
    BY <1>3, <1>10 DEF OrderReturned, journalVars, workerVars
  <1>11. ASSUME NEW s \in Sessions, NEW entry \in SessionEntries, PostSession(s, entry)
         PROVE  FundsInv(M)'
    BY <1>0, <1>11, SessionFunds
  <1>12. CASE UNCHANGED vars
    BY <1>3, <1>12 DEF vars, journalVars, workerVars
  <1> QED
    BY <1>1, <1>2, <1>5, <1>6, <1>7, <1>8, <1>9, <1>10, <1>11, <1>12 DEF Next, ExecuteNext

LEMMA InitFunds ==
    ASSUME IsFiniteSet(Workers), NEW M \in Nat, Init
    PROVE  FundsInv(M)
  <1> DEFINE net == [p \in Payouts |-> NetOf(p)]
             income == [s \in Sessions |-> IncomeOf(s)]
             none == [w \in Workers |-> Pending(w)]
  <1>1. \A p \in Payouts : net[p] = 0
    <2> SUFFICES ASSUME NEW p \in Payouts  PROVE NetOf(p) = 0
      OBVIOUS
    <2>1. posted[<<p, "payout_reversal">>] = 0 /\ posted[<<p, "payout">>] = 0
      BY DEF Init, Entries
    <2> QED
      BY <2>1, AmountAssumption DEF NetOf
  <1>2. \A w \in Workers : none[w] = 0
    BY DEF Init, Pending
  <1>6. \A s \in Sessions : income[s] = 0
    BY DEF Init, IncomeOf, Settled, Reversed
  <1>3. /\ Available = Income + SumFunctionOnSet(net, Payouts)
        /\ Income = SumFunctionOnSet(income, Sessions)
        /\ PendingSum = SumFunctionOnSet(none, Workers)
    BY DEF Available, Income, PendingSum, SumFunction, NetOf, IncomeOf, Settled, Reversed
  <1> HIDE DEF net, income, none
  <1>4. Available = 0 /\ PendingSum = 0 /\ late = 0
    BY <1>1, <1>2, <1>3, <1>6, SumZero, PayoutsAssumption, SessionsAssumption DEF Init
  <1>5. Slack(M) \in Nat
    <2>1. CASE Workers = {}
      BY <2>1 DEF Slack
    <2>2. CASE Workers # {}
      <3>1. Cardinality(Workers) - 1 \in Nat
        BY <2>2, FS_EmptySet, FS_CardinalityType
      <3> QED
        BY <2>2, <3>1 DEF Slack
    <2> QED
      BY <2>1, <2>2
  <1> QED
    BY <1>4, <1>5 DEF FundsInv

(* The balance, the pending payouts and the slack, whatever the largest    *)
(* amount is.                                                              *)
LEMMA FundsIsInvariant ==
    ASSUME IsFiniteSet(Workers), NEW M \in Nat, \A p \in Payouts : Amount[p] <= M
    PROVE  Spec => []FundsInv(M)
  <1>1. Init => FundsInv(M)
    BY InitFunds
  <1>2. Inv /\ FundsInv(M) /\ [Next]_vars => FundsInv(M)'
    BY StepFunds DEF Inv
  <1> QED
    BY <1>1, <1>2, InvIsInvariant, PTL DEF Spec

LEMMA FundsBoundOverdraft ==
    ASSUME IsFiniteSet(Workers), RowTypes, NEW M \in Nat, FundsInv(M),
           \A p \in Payouts : Amount[p] <= M,
           M = 0 \/ \E p \in Payouts : Amount[p] = M
    PROVE  OverdraftBounded
  <1>1. PendingSum \in Nat
    <2> DEFINE f == [w \in Workers |-> Pending(w)]
    <2>1. PendingSum = SumFunctionOnSet(f, Workers)
      BY DEF PendingSum, SumFunction
    <2>2. \A w \in Workers : f[w] \in Nat
      BY AmountAssumption DEF Pending, RowTypes
    <2> HIDE DEF f
    <2> QED
      BY <2>1, <2>2, SumNat
  <1>2. Slack(M) = 0 \/ Slack(M) = (Cardinality(Workers) - 1) * M
    BY DEF Slack
  <1>3. Available \in Int /\ late \in Nat /\ Slack(M) \in Int /\ Available + late >= -Slack(M)
    <2>1. Slack(M) \in Int /\ Available \in Int
      BY AvailableType, FS_CardinalityType DEF Slack
    <2> QED
      BY <1>1, <2>1 DEF FundsInv
  <1>4. CASE M = 0
    <2>1. Slack(M) = 0
      BY <1>4, FS_CardinalityType DEF Slack
    <2>2. Available + late >= 0
      BY <1>3, <2>1
    <2> QED
      BY <2>2 DEF OverdraftBounded, NeverOverdrawn
  <1>5. CASE \E p \in Payouts : Amount[p] = M
    <2>1. CASE Slack(M) = 0
      BY <1>3, <2>1 DEF OverdraftBounded, NeverOverdrawn
    <2>2. CASE Slack(M) = (Cardinality(Workers) - 1) * M
      <3>1. PICK p \in Payouts : Amount[p] = M
        BY <1>5
      <3>2. Available + late >= -((Cardinality(Workers) - 1) * Amount[p])
        BY <1>3, <2>2, <3>1
      <3> QED
        BY <3>2 DEF OverdraftBounded
    <2> QED
      BY <1>2, <2>1, <2>2
  <1> QED
    BY <1>4, <1>5

(* However executions race past the balance check, whatever the provider   *)
(* refuses, whatever sessions reverse and wherever handlers stop: payouts  *)
(* overdraw the ledger by at most the largest of them for each concurrent  *)
(* handler but one, besides what was reversed since a check last passed.   *)
THEOREM OverdraftIsBounded ==
    ASSUME IsFiniteSet(Workers)
    PROVE  Spec => []OverdraftBounded
  <1>1. PICK M \in Nat : /\ \A p \in Payouts : Amount[p] <= M
                         /\ M = 0 \/ \E p \in Payouts : Amount[p] = M
    <2>1. CASE Payouts = {}
      BY <2>1
    <2>2. CASE Payouts # {}
      <3>1. \A p \in Payouts : Amount[p] \in Int
        BY AmountAssumption
      <3>2. PICK p \in Payouts : \A q \in Payouts : Amount[q] <= Amount[p]
        BY <2>2, <3>1, GreatestValue, PayoutsAssumption
      <3> QED
        BY <3>2, AmountAssumption
    <2> QED
      BY <2>1, <2>2
  <1>2. Spec => []FundsInv(M)
    BY <1>1, FundsIsInvariant
  <1>3. Inv /\ FundsInv(M) => OverdraftBounded
    BY <1>1, FundsBoundOverdraft DEF Inv
  <1> QED
    BY <1>2, <1>3, InvIsInvariant, PTL

(* One handler at a time: what is missing from the balance was reversed by *)
(* sessions after the last check that passed, between it and its debit or  *)
(* later; the payouts themselves overdraw nothing.                         *)
THEOREM SerialNeverOverdraws ==
    ASSUME NEW w, Workers = {w}
    PROVE  Spec => []NeverOverdrawn
  <1>1. IsFiniteSet(Workers) /\ Cardinality(Workers) = 1
    BY FS_Singleton
  <1>2. OverdraftBounded => NeverOverdrawn
    <2> SUFFICES ASSUME NEW p \in Payouts,
                        Available + late >= -((Cardinality(Workers) - 1) * Amount[p])
                 PROVE  Available + late >= 0
      BY DEF OverdraftBounded, NeverOverdrawn
    <2>1. (Cardinality(Workers) - 1) * Amount[p] = 0
      BY <1>1, AmountAssumption
    <2> QED
      BY <2>1
  <1> QED
    BY <1>1, <1>2, OverdraftIsBounded, PTL
=============================================================================
