--------------------------- MODULE DepositLedger ---------------------------
(***************************************************************************)
(* Wallet top-ups with the ledger they post to: record_deposit statement   *)
(* by statement, in competition with the postings of payment sessions for  *)
(* the merchant's first accounts.                                          *)
(***************************************************************************)
EXTENDS Deposits, Integers

CONSTANTS
    Sessions,       \* sessions of the merchant that are settled or reversed meanwhile
    AmountOf        \* amount_cents of the deposits and sessions

\* The record_ calls of sessions.  Each is made at most once, by whoever moved the session
\* (PaymentSession); the two of one session may be made by different handlers.
Calls == Sessions \X {"settlement", "reversal"}

ASSUME SessionsAssumption ==
    Sessions \intersect Deposits = {} /\ Calls \intersect Workers = {}
ASSUME AmountOfAssumption == AmountOf \in [Deposits \union Sessions -> Nat \ {0}]

VARIABLES
    accounts, postings, stage,          \* see Ledger
    outcome                             \* how far each call of a session has come

INSTANCE Ledger WITH Posters <- Workers \union Calls,
                     Subjects <- Deposits \union Sessions,
                     Amount <- AmountOf

ledgerVars == <<accounts, postings, stage>>
allVars == <<vars, ledgerVars, outcome>>

Outcomes == {"open", "posted", "lost"}

DepositLedgerTypeOK ==
    /\ TypeOK
    /\ LedgerTypeOK
    /\ outcome \in [Calls -> Outcomes]

DepositLedgerInit ==
    /\ Init
    /\ LedgerInit
    /\ outcome = [c \in Calls |-> "open"]

\* One statement of record_deposit, while the worker stands at the post.
RecordDeposit(w) ==
    \/ /\ pc[w] = "post"
       /\ EnsureAccounts(w)
       /\ UNCHANGED vars
    \/ Commit(w, on[w], "deposit") /\ Record(w)
    \/ Abandon(w) /\ RecordFails(w)

\* One statement of record_settlement or record_reversal, made or not, early or late: the
\* two of a session run side by side, a reversal without a settlement too.
RecordSession(c) ==
    /\ outcome[c] = "open"
    /\ UNCHANGED vars
    /\ \/ EnsureAccounts(c) /\ UNCHANGED outcome
       \/ Commit(c, c[1], c[2]) /\ outcome' = [outcome EXCEPT ![c] = "posted"]

\* The call fails, or its process does, and is not made again: its caller has moved the
\* session before.
SessionCallFails(c) ==
    /\ outcome[c] = "open"
    /\ Abandon(c)
    /\ outcome' = [outcome EXCEPT ![c] = "lost"]
    /\ UNCHANGED vars

WorkerStep(w) ==
    /\ UNCHANGED outcome
    /\ \/ TopUpStep(w) /\ UNCHANGED ledgerVars
       \/ RecordDeposit(w)

PassSelects(w, d) == Select(w, d) /\ UNCHANGED <<ledgerVars, outcome>>

DepositLedgerNext ==
    \/ \E w \in Workers :
           \/ \E d \in Deposits : AddFunds(w, d) /\ UNCHANGED <<ledgerVars, outcome>>
           \/ \E d \in Deposits : PassSelects(w, d)
           \/ WorkerStep(w)
           \/ Stop(w) /\ Abandon(w) /\ UNCHANGED outcome
    \/ \E d \in Deposits, st \in OrderStatus :
           OrderMoves(d, st) /\ UNCHANGED <<ledgerVars, outcome>>
    \/ \E c \in Calls : RecordSession(c) \/ SessionCallFails(c)

\* As in Deposits.
DepositLedgerFairness ==
    /\ \A w \in Workers : WF_allVars(WorkerStep(w))
    /\ \A d \in Deposits : SF_allVars(\E w \in Workers : PassSelects(w, d))

DepositLedgerSpec ==
    DepositLedgerInit /\ [][DepositLedgerNext]_allVars /\ DepositLedgerFairness

-----------------------------------------------------------------------------
(* Properties *)

SumOf(S) == SumFunctionOnSet(AmountOf, S)

SessionsWith(kind) == {s \in Sessions : outcome[<<s, kind>>] = "posted"}

\* However the first postings of top-ups and sessions race for the accounts, whatever
\* duplicates they leave, in whatever order a session's settlement and reversal come and
\* wherever a call is cut off: the balance is what was credited and settled less what was
\* reversed, and a call that was cut off has left nothing in it.
BalanceIsHistory ==
    Available = SumOf({d \in Deposits : posted[d] > 0})
                + SumOf(SessionsWith("settlement")) - SumOf(SessionsWith("reversal"))
=============================================================================
