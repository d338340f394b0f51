------------------------- MODULE BankAccountProofs -------------------------
(***************************************************************************)
(* Proofs about BankAccount for any number of accounts and of concurrent   *)
(* requests.                                                               *)
(***************************************************************************)
EXTENDS BankAccount, TLAPS

(* A busy worker works on an account. *)
TypeInv ==
    /\ TypeOK
    /\ \A w \in Workers : pc[w] # "idle" => on[w] \in Accounts

(* An account whose status is now has been at status st. *)
Past(now, st) ==
    \/ st = "none"
    \/ st = "unverified" /\ now # "none"
    \/ st = "pending_verification" /\ now \notin {"none", "unverified"}
    \/ st \in {"verified", "denied"} /\ now = st

(* The account a request makes is its own until the prenote is out. *)
MakingInv ==
    \A w \in Workers :
        /\ pc[w] = "create" => external[on[w]] = "none"
        /\ pc[w] = "prenote" => external[on[w]] = "unverified"
        /\ pc[w] \in {"create", "prenote"} =>
               \A v \in Workers \ {w} : pc[v] \in {"create", "prenote"} => on[v] # on[w]

(* What a worker is about to write is a status its account has reached. *)
WordInv ==
    \A w \in Workers :
        /\ pc[w] \in {"store_account", "store_status"} =>
               word[w] # "none" /\ Past(external[on[w]], word[w])
        /\ pc[w] \in {"ask", "store_status"} => stored # NoAccount /\ external[on[w]] # "none"

(* RowIsReal and OutcomeIsReal in terms of Past. *)
RowInv ==
    /\ RowIsReal
    /\ status # "none" => \E a \in Accounts : Past(external[a], status)

BankInv == MakingInv /\ WordInv /\ RowInv

-----------------------------------------------------------------------------
LEMMA InitInv == Init => TypeInv /\ BankInv
  BY NoAccountAssumption, MaxFaultsAssumption
  DEF Init, TypeInv, TypeOK, BankInv, MakingInv, WordInv, RowInv, RowIsReal, Status, Steps

LEMMA HandlerTypeInv ==
    ASSUME TypeInv, NEW w \in Workers, HandlerStep(w)
    PROVE  TypeInv'
  <1> USE MaxFaultsAssumption
      DEF TypeInv, TypeOK, Status, Steps, Start, Hold, Finish, Fault, rowVars, workerVars
  <1>1. CASE CreateAccount(w)
    BY <1>1 DEF CreateAccount
  <1>2. CASE Prenote(w)
    BY <1>2 DEF Prenote
  <1>3. CASE StoreAccount(w)
    BY <1>3 DEF StoreAccount
  <1>4. CASE AskStatus(w)
    BY <1>4 DEF AskStatus
  <1>5. CASE StoreStatus(w)
    BY <1>5 DEF StoreStatus
  <1> QED
    BY <1>1, <1>2, <1>3, <1>4, <1>5 DEF HandlerStep

LEMMA StepTypeInv == TypeInv /\ [Next]_vars => TypeInv'
  <1> SUFFICES ASSUME TypeInv, [Next]_vars  PROVE TypeInv'
    OBVIOUS
  <1> USE MaxFaultsAssumption
      DEF TypeInv, TypeOK, Status, Steps, Start, Hold, Finish, Fault, rowVars, workerVars
  <1>1. ASSUME NEW w \in Workers, NEW a \in Accounts, AddBankAccount(w, a)  PROVE TypeInv'
    BY <1>1 DEF AddBankAccount
  <1>2. ASSUME NEW w \in Workers, GetBankAccount(w)  PROVE TypeInv'
    BY <1>2 DEF GetBankAccount
  <1>3. ASSUME NEW w \in Workers, HandlerStep(w)  PROVE TypeInv'
    BY <1>3, HandlerTypeInv
  <1>4. ASSUME NEW w \in Workers, Stop(w)  PROVE TypeInv'
    BY <1>4 DEF Stop
  <1>5. ASSUME NEW a \in Accounts, NEW st \in Status, PrenoteEnds(a, st)  PROVE TypeInv'
    BY <1>5 DEF PrenoteEnds
  <1>6. CASE UNCHANGED vars
    BY <1>6 DEF vars
  <1> QED
    BY <1>1, <1>2, <1>3, <1>4, <1>5, <1>6 DEF Next

-----------------------------------------------------------------------------
(* The provider's statuses only move forward. *)

Forward ==
    \A a \in Accounts, st \in Status : Past(external[a], st) => Past(external'[a], st)

LEMMA RowKept ==
    ASSUME TypeInv, RowInv, Forward, UNCHANGED rowVars
    PROVE  RowInv'
  <1>1. stored # NoAccount => Past(external[stored], "unverified")
    BY DEF RowInv, RowIsReal, Past
  <1>2. stored # NoAccount => Past(external'[stored], "unverified")
    BY <1>1 DEF Forward, TypeInv, TypeOK, Status
  <1>3. stored # NoAccount => external'[stored] # "none"
    BY <1>2 DEF Past
  <1>4. RowIsReal'
    BY <1>3 DEF RowInv, RowIsReal, rowVars
  <1>5. status # "none" => \E a \in Accounts : Past(external[a], status)
    BY DEF RowInv
  <1>6. status \in Status /\ status' = status
    BY DEF TypeInv, TypeOK, rowVars
  <1>7. status' # "none" => \E a \in Accounts : Past(external'[a], status)
    BY <1>5, <1>6 DEF Forward
  <1> QED
    BY <1>4, <1>6, <1>7 DEF RowInv, Past

(* A step of worker w changes at most the account it is making, *)
Quiet(w) ==
    /\ \A v \in Workers \ {w} : pc'[v] = pc[v] /\ on'[v] = on[v] /\ word'[v] = word[v]
    /\ stored # NoAccount => stored' # NoAccount
    /\ \A a \in Accounts :
           external'[a] # external[a] => a = on[w] /\ pc[w] \in {"create", "prenote"}

(* and is left with an account and a word that hold. *)
Sound(w) ==
    /\ pc'[w] = "create" =>
           external'[on'[w]] = "none" /\ \A v \in Workers \ {w} : on[v] # on'[w]
    /\ pc'[w] = "prenote" =>
           external'[on'[w]] = "unverified" /\ pc[w] = "create" /\ on'[w] = on[w]
    /\ pc'[w] \in {"store_account", "store_status"} =>
           word'[w] # "none" /\ Past(external'[on'[w]], word'[w])
    /\ pc'[w] \in {"ask", "store_status"} => stored' # NoAccount /\ external'[on'[w]] # "none"

LEMMA WorkerKept ==
    ASSUME TypeInv, TypeInv', MakingInv, WordInv, Forward, NEW w \in Workers, Quiet(w), Sound(w)
    PROVE  MakingInv' /\ WordInv'
  <1>1. ASSUME NEW v \in Workers \ {w}, pc[v] # "idle"
        PROVE  /\ on[v] \in Accounts
               /\ \A st \in Status : Past(external[on[v]], st) => Past(external'[on[v]], st)
               /\ external[on[v]] # "none" => external'[on[v]] # "none"
               /\ pc[v] \in {"create", "prenote"} => external'[on[v]] = external[on[v]]
    <2>1. on[v] \in Accounts /\ \A st \in Status : Past(external[on[v]], st) => Past(external'[on[v]], st)
      BY <1>1 DEF TypeInv, Forward
    <2>2. external[on[v]] # "none" => external'[on[v]] # "none"
      BY <2>1 DEF Past, Status
    <2>3. pc[v] \in {"create", "prenote"} => external'[on[v]] = external[on[v]]
      BY <2>1 DEF Quiet, MakingInv
    <2> QED
      BY <2>1, <2>2, <2>3
  <1>2. ASSUME NEW v \in Workers
        PROVE  /\ pc'[v] = "create" => external'[on'[v]] = "none"
               /\ pc'[v] = "prenote" => external'[on'[v]] = "unverified"
    BY <1>1 DEF Quiet, Sound, MakingInv
  <1>3. ASSUME NEW v \in Workers, NEW u \in Workers \ {v},
               pc'[v] \in {"create", "prenote"}, pc'[u] \in {"create", "prenote"}
        PROVE  on'[u] # on'[v]
    BY <1>3 DEF Quiet, Sound, MakingInv
  <1>4. ASSUME NEW v \in Workers
        PROVE  /\ pc'[v] \in {"store_account", "store_status"} =>
                      word'[v] # "none" /\ Past(external'[on'[v]], word'[v])
               /\ pc'[v] \in {"ask", "store_status"} =>
                      stored' # NoAccount /\ external'[on'[v]] # "none"
    <2>1. CASE v = w
      BY <2>1 DEF Sound
    <2>2. CASE v # w
      <3>1. pc'[v] = pc[v] /\ on'[v] = on[v] /\ word'[v] = word[v] /\ word[v] \in Status
        BY <2>2 DEF Quiet, TypeInv, TypeOK
      <3>2. pc'[v] \in {"store_account", "store_status"} =>
                word'[v] # "none" /\ Past(external'[on'[v]], word'[v])
        BY <1>1, <2>2, <3>1 DEF WordInv
      <3>3. pc'[v] \in {"ask", "store_status"} =>
                stored' # NoAccount /\ external'[on'[v]] # "none"
        BY <1>1, <2>2, <3>1 DEF WordInv, Quiet
      <3> QED
        BY <3>1, <3>2, <3>3
    <2> QED
      BY <2>1, <2>2
  <1>5. MakingInv'
    BY <1>2, <1>3 DEF MakingInv
  <1>6. WordInv'
    BY <1>4 DEF WordInv, Past
  <1> QED
    BY <1>5, <1>6

LEMMA CreateKeeps ==
    ASSUME TypeInv, BankInv, NEW w \in Workers, CreateAccount(w) \/ Prenote(w)
    PROVE  Forward /\ Quiet(w) /\ Sound(w) /\ UNCHANGED rowVars
  <1> USE DEF TypeInv, TypeOK, Start, Hold, Finish, rowVars
  <1>1. PICK a \in Accounts : a = on[w]
    BY DEF CreateAccount, Prenote
  <1>2. CASE CreateAccount(w)
    <2>1. pc[w] = "create" /\ external[a] = "none" /\ UNCHANGED rowVars
      BY <1>1, <1>2 DEF CreateAccount, BankInv, MakingInv
    <2>2. /\ external' = external \/ external' = [external EXCEPT ![a] = "unverified"]
          /\ \/ pc'[w] = "idle"
             \/ pc'[w] = "prenote" /\ on'[w] = a /\ external'[a] = "unverified"
          /\ \A v \in Workers \ {w} : pc'[v] = pc[v] /\ on'[v] = on[v] /\ word'[v] = word[v]
      BY <1>1, <1>2 DEF CreateAccount
    <2>3. Forward
      BY <2>1, <2>2 DEF Forward, Past
    <2>4. Quiet(w)
      BY <1>1, <2>1, <2>2 DEF Quiet
    <2>5. Sound(w)
      BY <1>1, <2>1, <2>2 DEF Sound
    <2> QED
      BY <2>1, <2>3, <2>4, <2>5
  <1>3. CASE Prenote(w)
    <2>1. pc[w] = "prenote" /\ external[a] = "unverified" /\ UNCHANGED rowVars
      BY <1>1, <1>3 DEF Prenote, BankInv, MakingInv
    <2>2. /\ pc'[w] = "store_account" /\ on'[w] = a
          /\ \/ /\ external' = [external EXCEPT ![a] = "pending_verification"]
                /\ word'[w] \in {"pending_verification", "unverified"}
             \/ external' = external /\ word'[w] = "unverified"
          /\ \A v \in Workers \ {w} : pc'[v] = pc[v] /\ on'[v] = on[v] /\ word'[v] = word[v]
      BY <1>1, <1>3 DEF Prenote
    <2>3. Forward
      BY <2>1, <2>2 DEF Forward, Past
    <2>4. Quiet(w)
      BY <1>1, <2>1, <2>2 DEF Quiet
    <2>5. Sound(w)
      BY <2>1, <2>2 DEF Sound, Past
    <2> QED
      BY <2>1, <2>3, <2>4, <2>5
  <1> QED
    BY <1>2, <1>3

LEMMA StoreKeeps ==
    ASSUME TypeInv, BankInv, NEW w \in Workers, StoreAccount(w) \/ StoreStatus(w)
    PROVE  Forward /\ Quiet(w) /\ Sound(w) /\ RowInv'
  <1> USE DEF TypeInv, TypeOK, Start, Hold, Finish, rowVars
  <1>1. PICK a \in Accounts : a = on[w]
    BY DEF StoreAccount, StoreStatus
  <1>2. /\ external' = external
        /\ pc'[w] = "idle"
        /\ \A v \in Workers \ {w} : pc'[v] = pc[v] /\ on'[v] = on[v] /\ word'[v] = word[v]
    BY DEF StoreAccount, StoreStatus
  <1>3. word[w] # "none" /\ Past(external[a], word[w])
    BY <1>1 DEF StoreAccount, StoreStatus, BankInv, WordInv
  <1>4. a # NoAccount /\ external[a] # "none"
    BY <1>3, NoAccountAssumption DEF Past
  <1>5. \/ UNCHANGED rowVars
        \/ stored' = a /\ status' = word[w]
        \/ stored' = stored /\ stored # NoAccount /\ status' = word[w]
    BY <1>1 DEF StoreAccount, StoreStatus, BankInv, WordInv
  <1>6. Forward
    BY <1>2 DEF Forward
  <1>7. Quiet(w)
    BY <1>2, <1>4, <1>5 DEF Quiet
  <1>8. Sound(w)
    BY <1>2 DEF Sound
  <1>9. ASSUME UNCHANGED rowVars  PROVE RowInv'
    BY <1>6, <1>9, RowKept DEF BankInv
  <1>10. ASSUME stored' \in {a, stored} \ {NoAccount}, status' = word[w]  PROVE RowInv'
    <2>1. external'[stored'] # "none"
      BY <1>2, <1>4, <1>10 DEF BankInv, RowInv, RowIsReal
    <2> QED
      BY <1>2, <1>3, <1>10, <2>1 DEF RowInv, RowIsReal
  <1> QED
    BY <1>4, <1>5, <1>6, <1>7, <1>8, <1>9, <1>10

LEMMA ReadKeeps ==
    ASSUME TypeInv, BankInv, NEW w \in Workers,
           \/ \E a \in Accounts : AddBankAccount(w, a)
           \/ GetBankAccount(w) \/ AskStatus(w) \/ Stop(w)
    PROVE  Forward /\ Quiet(w) /\ Sound(w) /\ UNCHANGED rowVars
  <1> USE DEF TypeInv, TypeOK, Start, Hold, Finish, rowVars
  <1>1. /\ UNCHANGED <<rowVars, external>>
        /\ \A v \in Workers \ {w} : pc'[v] = pc[v] /\ on'[v] = on[v] /\ word'[v] = word[v]
    BY DEF AddBankAccount, GetBankAccount, AskStatus, Stop
  <1>2. Forward /\ Quiet(w)
    BY <1>1 DEF Forward, Quiet
  <1>3. ASSUME NEW a \in Accounts, AddBankAccount(w, a)  PROVE Sound(w)
    BY <1>3 DEF AddBankAccount, Sound
  <1>4. ASSUME GetBankAccount(w)  PROVE Sound(w)
    BY <1>4 DEF GetBankAccount, Sound, BankInv, RowInv, RowIsReal
  <1>5. ASSUME AskStatus(w)  PROVE Sound(w)
    <2>1. PICK a \in Accounts : a = on[w]
      BY <1>5 DEF AskStatus
    <2>2. external[a] \in Status \ {"none"} /\ stored # NoAccount
      BY <1>5, <2>1 DEF AskStatus, BankInv, WordInv
    <2>3. \/ pc'[w] = "idle"
          \/ pc'[w] = "store_status" /\ on'[w] = a /\ word'[w] = external[a]
      BY <1>5, <2>1 DEF AskStatus
    <2> QED
      BY <1>1, <2>2, <2>3 DEF Sound, Past, Status
  <1>6. ASSUME Stop(w)  PROVE Sound(w)
    BY <1>6 DEF Stop, Sound
  <1> QED
    BY <1>1, <1>2, <1>3, <1>4, <1>5, <1>6

LEMMA PrenoteEndKeeps ==
    ASSUME TypeInv, BankInv, NEW a \in Accounts, NEW st \in Status, PrenoteEnds(a, st)
    PROVE  BankInv'
  <1> USE DEF TypeInv, TypeOK, rowVars, workerVars
  <1>1. /\ external[a] = "pending_verification" /\ st \in {"verified", "denied"}
        /\ external' = [external EXCEPT ![a] = st]
        /\ UNCHANGED <<rowVars, workerVars>>
    BY DEF PrenoteEnds
  <1>2. Forward
    BY <1>1 DEF Forward, Past
  <1>3. RowInv'
    BY <1>1, <1>2, RowKept DEF BankInv
  <1>4. MakingInv'
    BY <1>1 DEF BankInv, MakingInv
  <1>5. WordInv'
    <2> SUFFICES ASSUME NEW w \in Workers, pc[w] # "idle"
                 PROVE  /\ Past(external[on[w]], word[w]) => Past(external'[on[w]], word[w])
                        /\ external[on[w]] # "none" => external'[on[w]] # "none"
      BY <1>1 DEF BankInv, WordInv
    <2>1. on[w] \in Accounts /\ word[w] \in Status
      OBVIOUS
    <2> QED
      BY <1>1, <1>2, <2>1 DEF Forward
  <1> QED
    BY <1>3, <1>4, <1>5 DEF BankInv

LEMMA StepBankInv == TypeInv /\ BankInv /\ [Next]_vars => BankInv'
  <1> SUFFICES ASSUME TypeInv, BankInv, [Next]_vars  PROVE BankInv'
    OBVIOUS
  <1>1. TypeInv'
    BY StepTypeInv
  <1>2. ASSUME NEW w \in Workers, Forward, Quiet(w), Sound(w), UNCHANGED rowVars \/ RowInv'
        PROVE  BankInv'
    BY <1>1, <1>2, WorkerKept, RowKept DEF BankInv
  <1>3. ASSUME NEW w \in Workers, HandlerStep(w)  PROVE BankInv'
    BY <1>2, <1>3, CreateKeeps, StoreKeeps, ReadKeeps DEF HandlerStep
  <1>4. ASSUME NEW w \in Workers,
               \/ \E a \in Accounts : AddBankAccount(w, a)
               \/ GetBankAccount(w) \/ Stop(w)
        PROVE  BankInv'
    BY <1>2, <1>4, ReadKeeps
  <1>5. ASSUME NEW a \in Accounts, NEW st \in Status, PrenoteEnds(a, st)  PROVE BankInv'
    BY <1>5, PrenoteEndKeeps
  <1>6. CASE UNCHANGED vars
    BY <1>6 DEF vars, rowVars, workerVars, BankInv, MakingInv, WordInv, RowInv, RowIsReal
  <1> QED
    BY <1>3, <1>4, <1>5, <1>6 DEF Next

LEMMA BankInvariant == Spec => [](TypeInv /\ BankInv)
  BY InitInv, StepTypeInv, StepBankInv, PTL DEF Spec

-----------------------------------------------------------------------------
(* The types of all variables, for any number of accounts and requests.    *)
THEOREM TypeCorrect == Spec => []TypeOK
  <1>1. TypeInv => TypeOK
    BY DEF TypeInv
  <1> QED
    BY <1>1, BankInvariant, PTL

(* The stored account exists at the provider, whatever fails and whichever *)
(* request overtakes which.                                                *)
THEOREM StoredIsReal == Spec => []RowIsReal
  <1>1. BankInv => RowIsReal
    BY DEF BankInv, RowInv
  <1> QED
    BY <1>1, BankInvariant, PTL

(* An outcome that is shown is one that some account had.                  *)
THEOREM ShownIsReal == Spec => []OutcomeIsReal
  <1>1. BankInv => OutcomeIsReal
    BY DEF BankInv, RowInv, OutcomeIsReal, Past
  <1> QED
    BY <1>1, BankInvariant, PTL
=============================================================================
