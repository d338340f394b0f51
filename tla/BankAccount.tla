----------------------------- MODULE BankAccount -----------------------------
(***************************************************************************)
(* The bank account of one merchant: add_bank_account onboards a new one   *)
(* at the provider and replaces the stored one, get_bank_account refreshes *)
(* its verification status.  The status is written for the merchant, not   *)
(* for the account that was asked about.  A step is one database statement *)
(* or one provider call.                                                   *)
(***************************************************************************)
EXTENDS Naturals

CONSTANTS
    Accounts,       \* external accounts that the provider can be asked to make
    Workers,        \* the requests in flight at the same time
    NoAccount,      \* no account: the one of an idle worker, or nothing stored
    MaxFaults       \* bound on crashes, failing statements and failing provider calls

ASSUME NoAccountAssumption == NoAccount \notin Accounts
ASSUME MaxFaultsAssumption == MaxFaults \in Nat

VARIABLES
    stored,         \* merchants.mt_external_account_id (with counterparty and last four)
    status,         \* merchants.bank_account_status
    external,       \* verification status at the provider, "none" before it exists
    pc, on, word,   \* step of each worker, its account and the status it holds
    faults          \* faults so far

rowVars == <<stored, status>>
workerVars == <<pc, on, word>>
vars == <<rowVars, external, workerVars, faults>>

Status == {"none", "unverified", "pending_verification", "verified", "denied"}

Steps == {"idle", "create", "prenote", "store_account", "ask", "store_status"}

TypeOK ==
    /\ stored \in Accounts \union {NoAccount}
    /\ status \in Status
    /\ external \in [Accounts -> Status]
    /\ pc \in [Workers -> Steps]
    /\ on \in [Workers -> Accounts \union {NoAccount}]
    /\ word \in [Workers -> Status]
    /\ faults \in 0 .. MaxFaults

Init ==
    /\ stored = NoAccount
    /\ status = "none"
    /\ external = [a \in Accounts |-> "none"]
    /\ pc = [w \in Workers |-> "idle"]
    /\ on = [w \in Workers |-> NoAccount]
    /\ word = [w \in Workers |-> "none"]
    /\ faults = 0

-----------------------------------------------------------------------------
Start(w, a, st, step) ==
    /\ pc' = [pc EXCEPT ![w] = step]
    /\ on' = [on EXCEPT ![w] = a]
    /\ word' = [word EXCEPT ![w] = st]

Hold(w, st, step) == Start(w, on[w], st, step)

Finish(w) == Start(w, NoAccount, "none", "idle")

Fault == faults < MaxFaults /\ faults' = faults + 1

-----------------------------------------------------------------------------
(* add_bank_account *)

AddBankAccount(w, a) ==
    /\ pc[w] = "idle"
    /\ external[a] = "none"
    /\ \A v \in Workers : on[v] # a
    /\ Start(w, a, "none", "create")
    /\ UNCHANGED <<rowVars, external, faults>>

\* A failing call is reported, whether the account was made or not.
CreateAccount(w) ==
    /\ pc[w] = "create"
    /\ \/ /\ external' = [external EXCEPT ![on[w]] = "unverified"]
          /\ \/ Hold(w, "none", "prenote") /\ UNCHANGED faults
             \/ Finish(w) /\ Fault
       \/ Finish(w) /\ Fault /\ UNCHANGED external
    /\ UNCHANGED rowVars

\* Mutant: the provider's word for the prenote is stored, not the account's status.
PrenoteVerbatim(w) ==
    /\ pc[w] = "prenote"
    /\ external' = [external EXCEPT ![on[w]] = "pending_verification"]
    /\ Hold(w, "submitted", "store_account")
    /\ UNCHANGED <<rowVars, faults>>

\* Mutant: without an answer the prenote is taken for sent.
PrenoteHopeful(w) ==
    /\ pc[w] = "prenote"
    /\ \/ external' = [external EXCEPT ![on[w]] = "pending_verification"]
       \/ UNCHANGED external
    /\ Hold(w, "pending_verification", "store_account")
    /\ UNCHANGED <<rowVars, faults>>

\* Best effort: an account whose prenote fails, or seems to, is stored as unverified.
Prenote(w) ==
    /\ pc[w] = "prenote"
    /\ \/ /\ external' = [external EXCEPT ![on[w]] = "pending_verification"]
          /\ \E st \in {"pending_verification", "unverified"} : Hold(w, st, "store_account")
       \/ Hold(w, "unverified", "store_account") /\ UNCHANGED external
    /\ UNCHANGED <<rowVars, faults>>

StoreAccount(w) ==
    /\ pc[w] = "store_account"
    /\ \/ /\ stored' = on[w]
          /\ status' = word[w]
          /\ UNCHANGED faults
       \/ Fault /\ UNCHANGED rowVars
    /\ Finish(w)
    /\ UNCHANGED external

-----------------------------------------------------------------------------
(* get_bank_account *)

GetBankAccount(w) ==
    /\ pc[w] = "idle"
    /\ stored # NoAccount
    /\ Start(w, stored, status, "ask")
    /\ UNCHANGED <<rowVars, external, faults>>

\* Mutant: a verified account is not looked at again.
IsNewsOnceVerified(latest, current) == latest # current /\ current # "verified"

IsNews(latest, current) == latest # current

\* Mutant: an unanswered question gives the status of a missing account.
AskStatusOrNone(w) ==
    /\ pc[w] = "ask"
    /\ \/ /\ IF IsNews(external[on[w]], word[w])
             THEN Hold(w, external[on[w]], "store_status")
             ELSE Finish(w)
          /\ UNCHANGED faults
       \/ Fault /\ Hold(w, "none", "store_status")
    /\ UNCHANGED <<rowVars, external>>

AskStatus(w) ==
    /\ pc[w] = "ask"
    /\ \/ /\ IF IsNews(external[on[w]], word[w])
             THEN Hold(w, external[on[w]], "store_status")
             ELSE Finish(w)
          /\ UNCHANGED faults
       \/ Fault /\ Finish(w)
    /\ UNCHANGED <<rowVars, external>>

\* The merchant's status, whichever account is stored by now.
StoreStatus(w) ==
    /\ pc[w] = "store_status"
    /\ \/ status' = word[w] /\ UNCHANGED faults
       \/ Fault /\ UNCHANGED status
    /\ Finish(w)
    /\ UNCHANGED <<stored, external>>

-----------------------------------------------------------------------------
(* The environment *)

Stop(w) ==
    /\ pc[w] # "idle"
    /\ Fault
    /\ Finish(w)
    /\ UNCHANGED <<rowVars, external>>

\* The prenote clears or not.
PrenoteEnds(a, st) ==
    /\ external[a] = "pending_verification"
    /\ st \in {"verified", "denied"}
    /\ external' = [external EXCEPT ![a] = st]
    /\ UNCHANGED <<rowVars, workerVars, faults>>

HandlerStep(w) ==
    \/ CreateAccount(w)
    \/ Prenote(w)
    \/ StoreAccount(w)
    \/ AskStatus(w)
    \/ StoreStatus(w)

Next ==
    \/ \E w \in Workers :
           \/ \E a \in Accounts : AddBankAccount(w, a)
           \/ GetBankAccount(w)
           \/ HandlerStep(w)
           \/ Stop(w)
    \/ \E a \in Accounts, st \in Status : PrenoteEnds(a, st)

\* Handlers run to their end and the merchant keeps looking at the account.  Strong
\* fairness, because the bound on Workers is the model's.
Fairness ==
    /\ \A w \in Workers : WF_vars(HandlerStep(w))
    /\ SF_vars(\E w \in Workers : GetBankAccount(w))

Spec == Init /\ [][Next]_vars /\ Fairness

-----------------------------------------------------------------------------
(* Properties *)

\* The stored account exists at the provider and has a status, and without one there is
\* none, whatever fails and whichever request overtakes which.
RowIsReal ==
    /\ stored = NoAccount <=> status = "none"
    /\ stored # NoAccount => external[stored] # "none"

\* A status shows an outcome of a prenote only if an onboarded account had that outcome;
\* it may be an account that was replaced while its status was under way.
OutcomeIsReal ==
    /\ status \in {"verified", "denied"} => \E a \in Accounts : external[a] = status
    /\ status = "pending_verification" =>
           \E a \in Accounts : external[a] \notin {"none", "unverified"}

\* 007_merchant_mt_bank.sql says the status mirrors the provider's.  A status of the
\* account that was replaced may be written over it, but does not stay: once an account
\* is stored for good and its prenote is over, its outcome is shown for good.
StatusSettles ==
    \A a \in Accounts, st \in {"verified", "denied"} :
        <>[](stored = a /\ external[a] = st) => <>[](status = st)
=============================================================================
