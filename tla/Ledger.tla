------------------------------- MODULE Ledger -------------------------------
(***************************************************************************)
(* The double-entry ledger of one merchant.  Each record_ call makes sure  *)
(* that the merchant's accounts exist, looks them up and posts one journal *)
(* entry in a transaction of its own.  Calls of different handlers run at  *)
(* the same time and may be cut off after any statement.  No index makes   *)
(* an account unique, so two first calls may create it twice.              *)
(***************************************************************************)
EXTENDS Integers, Functions

CONSTANTS
    Posters,        \* the record_ calls in flight at the same time
    Subjects,       \* the sessions and deposits that entries are about
    Amount          \* amount_cents of each subject

VARIABLES
    accounts,       \* how many rows ledger_accounts has of each name
    postings,       \* rows of ledger_postings, committed with their journal entry
    stage           \* the next statement of each call

\* The accounts that entries post to; Receivables and Revenue are provisioned likewise.
Names == {"Cash", "Settlement"}

TypeOfName(name) == IF name = "Cash" THEN "asset" ELSE "liability"

Kinds == {"settlement", "deposit", "reversal"}

Sides == {"debit", "credit"}

\* A call goes through these in turn; an insert only where no account was seen.
Stages == {"ensure_cash", "insert_cash", "ensure_settlement", "insert_settlement", "commit"}

Posting == [subject : Subjects, kind : Kinds, name : Names, number : Nat, side : Sides]

LedgerTypeOK ==
    /\ accounts \in [Names -> Nat]
    /\ postings \subseteq Posting
    /\ stage \in [Posters -> Stages]

LedgerInit ==
    /\ accounts = [name \in Names |-> 0]
    /\ postings = {}
    /\ stage = [w \in Posters |-> "ensure_cash"]

-----------------------------------------------------------------------------
(* ensure_merchant_accounts: one INSERT ... WHERE NOT EXISTS per account.  Two *)
(* such statements that overlap do not see each other's row, so the look and   *)
(* the insertion are two steps.                                                *)

GoOn(w, step) == stage' = [stage EXCEPT ![w] = step]

Ensure(w, name, here, insert, after) ==
    /\ stage[w] = here
    /\ GoOn(w, IF accounts[name] = 0 THEN insert ELSE after)
    /\ UNCHANGED <<accounts, postings>>

Insert(w, name, here, after) ==
    /\ stage[w] = here
    /\ accounts' = [accounts EXCEPT ![name] = @ + 1]
    /\ GoOn(w, after)
    /\ UNCHANGED postings

EnsureAccounts(w) ==
    \/ Ensure(w, "Cash", "ensure_cash", "insert_cash", "ensure_settlement")
    \/ Insert(w, "Cash", "insert_cash", "ensure_settlement")
    \/ Ensure(w, "Settlement", "ensure_settlement", "insert_settlement", "commit")
    \/ Insert(w, "Settlement", "insert_settlement", "commit")

-----------------------------------------------------------------------------
(* get_account, and the transaction: one journal entry, its postings,         *)
(* verify_balance, commit.  The look-ups are part of the transaction's step:   *)
(* rows of ledger_accounts never change, so that one found earlier is one that *)
(* may be found now.                                                           *)

\* Money that comes in debits Cash and credits Settlement; a reversal does the opposite.
SidesOf(kind) == IF kind = "reversal" THEN [Cash |-> "credit", Settlement |-> "debit"]
                 ELSE [Cash |-> "debit", Settlement |-> "credit"]

Lines(at, subject, kind) ==
    {[subject |-> subject, kind |-> kind, name |-> name, number |-> at[name],
      side |-> SidesOf(kind)[name]] : name \in Names}

\* What verify_balance adds up: an entry has one line per account.
SideTotal(subject, kind, side) ==
    LET On(name) == IF SidesOf(kind)[name] = side THEN Amount[subject] ELSE 0
    IN On("Cash") + On("Settlement")

\* verify_balance
Balanced(subject, kind) ==
    /\ SideTotal(subject, kind, "debit") = SideTotal(subject, kind, "credit")
    /\ SideTotal(subject, kind, "debit") > 0

\* Any row of the name will do for the query.  The postings become visible together; an
\* unbalanced entry is rolled back.
Commit(w, subject, kind) ==
    /\ stage[w] = "commit"
    /\ \E cash \in 1 .. accounts["Cash"], settlement \in 1 .. accounts["Settlement"] :
           LET at == [Cash |-> cash, Settlement |-> settlement]
           IN  postings' = postings \union
                   IF Balanced(subject, kind) THEN Lines(at, subject, kind) ELSE {}
    /\ GoOn(w, "ensure_cash")
    /\ UNCHANGED accounts

\* A failing statement, or a crash, ends the call; the accounts it created stay.
Abandon(w) ==
    /\ GoOn(w, "ensure_cash")
    /\ UNCHANGED <<accounts, postings>>

-----------------------------------------------------------------------------
(* What is read from the ledger *)

NetCredit(lines) ==
    SumFunction([p \in lines |-> IF p.side = "credit" THEN Amount[p.subject]
                                                    ELSE -Amount[p.subject]])

\* Mutant: the balance of the account that get_account would return.
AvailableOfOneAccount ==
    NetCredit({p \in postings : TypeOfName(p.name) = "liability" /\ p.number = 1})

\* merchant_available_cents: over all of the merchant's liability accounts.
Available == NetCredit({p \in postings : TypeOfName(p.name) = "liability"})
=============================================================================
