------------------------ MODULE IdempotencyKeysProofs ------------------------
(***************************************************************************)
(* Proofs about IdempotencyKeys for any sets of keys, bodies and requests. *)
(***************************************************************************)
EXTENDS IdempotencyKeys, TLAPS

(* A request in flight has a key and a body.                               *)
RequestFits ==
    \A w \in Workers : pc[w] # "idle" => key[w] \in Keys /\ body[w] \in Bodies

(* The owner of a key: it took the key, nobody else did, and the session   *)
(* it has made, if any, is the only one.                                   *)
OwnerInv ==
    \A w \in Workers :
        pc[w] \in {"work", "complete"} =>
            /\ state[key[w]] = "in_progress"
            /\ hash[key[w]] = body[w]
            /\ \A v \in Workers : pc[v] \in {"work", "complete"} /\ key[v] = key[w] => v = w
            /\ pc[w] = "work" => made[key[w]] = <<>>
            /\ pc[w] = "complete" => made[key[w]] = <<body[w]>> /\ mine[w] = 1

(* What a row's state says of the sessions made and the answers given.     *)
RowInv ==
    \A k \in Keys :
        /\ state[k] = "absent" => hash[k] = NoBody /\ made[k] = <<>>
        /\ state[k] = "in_progress" =>
               hash[k] \in Bodies /\ (made[k] = <<>> \/ made[k] = <<hash[k]>>)
        /\ state[k] = "completed" =>
               hash[k] \in Bodies /\ made[k] = <<hash[k]>> /\ response[k] = 1

AnswerInv ==
    \A a \in answers : state[a[1]] = "completed" /\ a = <<a[1], hash[a[1]], 1>>

Inv == TypeOK /\ RequestFits /\ OwnerInv /\ RowInv /\ AnswerInv

-----------------------------------------------------------------------------
LEMMA InitInv == Init => Inv
  BY DEF Init, Inv, TypeOK, RequestFits, OwnerInv, RowInv, AnswerInv, State, Steps

LEMMA BeginInv ==
    ASSUME Inv, NEW w \in Workers, NEW k \in Keys, NEW b \in Bodies, Begin(w, k, b)
    PROVE  Inv'
  <1> USE DEF Inv, TypeOK, RequestFits, Start, rowVars, State, Steps
  <1>1. CASE state[k] = "absent"
    <2>0. /\ pc[w] = "idle"
          /\ state' = [state EXCEPT ![k] = "in_progress"]
          /\ hash' = [hash EXCEPT ![k] = b]
          /\ Start(w, k, b, "work")
          /\ UNCHANGED <<response, made, answers>>
      BY <1>1 DEF Begin, MayAcquire
    <2>1. TypeOK' /\ RequestFits'
      BY <2>0
    <2>2. \A v \in Workers : pc[v] \in {"work", "complete"} => key[v] # k
      BY <1>1 DEF OwnerInv
    <2>3. OwnerInv'
      <3> SUFFICES ASSUME NEW v \in Workers, pc'[v] \in {"work", "complete"}
                   PROVE  OwnerInv!(v)'
        BY DEF OwnerInv
      <3>1. CASE v = w
        BY <1>1, <2>0, <2>2, <3>1 DEF RowInv
      <3>2. CASE v # w
        BY <1>1, <2>0, <2>2, <3>2 DEF OwnerInv
      <3> QED
        BY <3>1, <3>2
    <2>4. RowInv' /\ AnswerInv'
      BY <1>1, <2>0 DEF RowInv, AnswerInv
    <2> QED
      BY <2>1, <2>3, <2>4
  <1>2. CASE state[k] # "absent"
    <2>0. /\ pc[w] = "idle"
          /\ Start(w, k, b, "lookup")
          /\ UNCHANGED <<state, hash, response, made, answers>>
      BY <1>2 DEF Begin, MayAcquire
    <2> QED
      BY <2>0 DEF OwnerInv, RowInv, AnswerInv
  <1> QED
    BY <1>1, <1>2

LEMMA LookupInv ==
    ASSUME Inv, NEW w \in Workers, Lookup(w)
    PROVE  Inv'
  <1> USE DEF Inv, TypeOK, RequestFits, Lookup, Finish, IsReplay, rowVars, State, Steps
  <1>1. answers' \in SUBSET (Keys \X Bodies \X Nat) /\ AnswerInv'
    BY DEF AnswerInv, RowInv, Answer
  <1>2. TypeOK' /\ RequestFits'
    BY <1>1
  <1>3. OwnerInv' /\ RowInv'
    BY DEF OwnerInv, RowInv
  <1> QED
    BY <1>1, <1>2, <1>3

LEMMA WorkInv ==
    ASSUME Inv, NEW w \in Workers, NEW succeeds \in BOOLEAN, Work(w, succeeds)
    PROVE  Inv'
  <1> USE DEF Inv, TypeOK, RequestFits, rowVars, State, Steps
  <1>0. /\ pc[w] = "work" /\ key[w] \in Keys /\ body[w] \in Bodies
        /\ made[key[w]] = <<>>
        /\ UNCHANGED <<state, hash, response, answers>>
    BY DEF Work, OwnerInv
  <1>1. CASE ~succeeds
    <2>0. Finish(w) /\ UNCHANGED made
      BY <1>1 DEF Work
    <2>1. TypeOK' /\ RequestFits'
      BY <1>0, <2>0 DEF Finish
    <2>2. OwnerInv' /\ RowInv' /\ AnswerInv'
      BY <1>0, <2>0 DEF Finish, OwnerInv, RowInv, AnswerInv
    <2> QED
      BY <2>1, <2>2
  <1>2. CASE succeeds
    <2>1. made' = [made EXCEPT ![key[w]] = <<body[w]>>]
      <3>1. Append(made[key[w]], body[w]) = <<body[w]>>
        BY <1>0
      <3>2. made' = [made EXCEPT ![key[w]] = Append(made[key[w]], body[w])]
        BY <1>2 DEF Work
      <3> QED
        BY <3>1, <3>2
    <2>2. mine' = [mine EXCEPT ![w] = 1]
      <3>1. made'[key[w]] = <<body[w]>>
        BY <1>0, <2>1
      <3>2. Len(made'[key[w]]) = 1
        BY <3>1
      <3>3. mine' = [mine EXCEPT ![w] = Len(made'[key[w]])]
        BY <1>2 DEF Work
      <3> QED
        BY <3>2, <3>3
    <2>3. pc' = [pc EXCEPT ![w] = "complete"] /\ UNCHANGED <<key, body>>
      BY <1>2 DEF Work
    <2>4. TypeOK' /\ RequestFits'
      <3>1. <<body[w]>> \in Seq(Bodies)
        BY <1>0
      <3> QED
        BY <1>0, <2>1, <2>2, <2>3, <3>1
    <2>5. OwnerInv'
      BY <1>0, <2>1, <2>2, <2>3 DEF OwnerInv
    <2>6. RowInv' /\ AnswerInv'
      BY <1>0, <2>1 DEF OwnerInv, RowInv, AnswerInv
    <2> QED
      BY <2>4, <2>5, <2>6
  <1> QED
    BY <1>1, <1>2

LEMMA CompleteInv ==
    ASSUME Inv, NEW w \in Workers, Complete(w)
    PROVE  Inv'
  <1> USE DEF Inv, TypeOK, RequestFits, Complete, Finish, State, Steps
  <1>1. TypeOK' /\ RequestFits'
    BY DEF Answer
  <1>2. OwnerInv'
    BY DEF OwnerInv
  <1>3. RowInv'
    BY DEF OwnerInv, RowInv
  <1>4. AnswerInv'
    BY DEF OwnerInv, AnswerInv, Answer
  <1> QED
    BY <1>1, <1>2, <1>3, <1>4

LEMMA OtherInv ==
    ASSUME Inv,
           \/ \E w \in Workers : Stop(w)
           \/ \E k \in Keys : Reap(k)
           \/ UNCHANGED vars
    PROVE  Inv'
  <1> USE DEF Inv, TypeOK, RequestFits, State, Steps
  <1>1. ASSUME NEW w \in Workers, Stop(w)  PROVE Inv'
    BY <1>1 DEF Stop, Finish, OwnerInv, RowInv, AnswerInv, rowVars
  <1>2. ASSUME NEW k \in Keys, Reap(k)  PROVE Inv'
    <2>1. TypeOK' /\ RequestFits'
      BY <1>2 DEF Reap, requestVars
    <2>2. OwnerInv'
      BY <1>2 DEF Reap, requestVars, OwnerInv
    <2>3. RowInv' /\ AnswerInv'
      BY <1>2 DEF Reap, RowInv, AnswerInv
    <2> QED
      BY <2>1, <2>2, <2>3
  <1>3. CASE UNCHANGED vars
    BY <1>3 DEF vars, rowVars, requestVars, OwnerInv, RowInv, AnswerInv
  <1> QED
    BY <1>1, <1>2, <1>3

LEMMA StepInv == Inv /\ [Next]_vars => Inv'
  BY BeginInv, LookupInv, WorkInv, CompleteInv, OtherInv DEF Next, RequestStep

-----------------------------------------------------------------------------
(* The invariant gives the two properties.                                 *)
LEMMA InvWorkDoneOnce == Inv => WorkDoneOnce
  <1> SUFFICES ASSUME Inv, NEW k \in Keys
               PROVE  /\ Len(made[k]) <= 1
                      /\ \A i \in 1 .. Len(made[k]) : made[k][i] = hash[k]
    BY DEF WorkDoneOnce
  <1>1. made[k] = <<>> \/ made[k] = <<hash[k]>>
    BY DEF Inv, TypeOK, State, RowInv
  <1>2. Len(<<hash[k]>>) = 1 /\ <<hash[k]>>[1] = hash[k]
    OBVIOUS
  <1>3. Len(<<>>) = 0
    OBVIOUS
  <1>4. CASE made[k] = <<>>
    BY <1>3, <1>4
  <1>5. CASE made[k] = <<hash[k]>>
    BY <1>2, <1>5
  <1> QED
    BY <1>1, <1>4, <1>5

LEMMA InvAnswersAgree == Inv => AnswersAgree
  <1> SUFFICES ASSUME Inv, NEW a \in answers
               PROVE  /\ a[3] \in DOMAIN made[a[1]]
                      /\ made[a[1]][a[3]] = a[2]
                      /\ \A other \in answers : other[1] = a[1] => other = a
    BY DEF AnswersAgree
  <1>1. a[1] \in Keys /\ state[a[1]] = "completed" /\ a = <<a[1], hash[a[1]], 1>>
    BY DEF Inv, TypeOK, AnswerInv
  <1>2. made[a[1]] = <<hash[a[1]]>>
    BY <1>1 DEF Inv, RowInv
  <1>3. a[2] = hash[a[1]] /\ a[3] = 1
    BY <1>1
  <1>4. \A other \in answers : other[1] = a[1] => other = a
    BY <1>1 DEF Inv, AnswerInv
  <1> QED
    BY <1>2, <1>3, <1>4

(* The types of all variables, for any number of keys and requests.        *)
THEOREM TypeCorrect == Spec => []TypeOK
  <1>1. Inv => TypeOK
    BY DEF Inv
  <1> QED
    BY <1>1, InitInv, StepInv, PTL DEF Spec

(* The work behind a key is done at most once in the life of its row.      *)
THEOREM WorksOnce == Spec => []WorkDoneOnce
  BY InitInv, StepInv, InvWorkDoneOnce, PTL DEF Spec

(* All answers under a key are one session, made for the body that asked.  *)
THEOREM AnswersAlwaysAgree == Spec => []AnswersAgree
  BY InitInv, StepInv, InvAnswersAgree, PTL DEF Spec

-----------------------------------------------------------------------------
(* The requests implement KeyContract.                                     *)
ContractStep == Contract!Next \/ UNCHANGED <<hash, made, Kept, answers>>

LEMMA BeginIsTake ==
    ASSUME Inv, NEW w \in Workers, NEW k \in Keys, NEW b \in Bodies, Begin(w, k, b)
    PROVE  ContractStep
  <1>1. CASE state[k] = "absent"
    <2>1. /\ state' = [state EXCEPT ![k] = "in_progress"]
          /\ hash' = [hash EXCEPT ![k] = b]
          /\ UNCHANGED <<made, answers>>
      BY <1>1 DEF Begin, MayAcquire
    <2>2. hash[k] = NoBody
      BY <1>1 DEF Inv, RowInv
    <2>3. Kept' = Kept
      BY <1>1, <2>1 DEF Kept, Inv, TypeOK
    <2>4. Contract!Take(k, b)
      BY <2>1, <2>2, <2>3 DEF Contract!Take
    <2> QED
      BY <2>4 DEF ContractStep, Contract!Next
  <1>2. CASE state[k] # "absent"
    BY <1>2 DEF Begin, MayAcquire, rowVars, ContractStep, Kept
  <1> QED
    BY <1>1, <1>2

LEMMA LookupIsTell ==
    ASSUME Inv, NEW w \in Workers, Lookup(w)
    PROVE  ContractStep
  <1>1. PICK k \in Keys : k = key[w]
    BY DEF Lookup, Inv, RequestFits
  <1>2. UNCHANGED <<hash, made, Kept>>
    BY DEF Lookup, rowVars, Kept
  <1>3. CASE IsReplay(k, body[w])
    <2>1. state[k] = "completed" /\ hash[k] = body[w] /\ response[k] = 1
      BY <1>3 DEF IsReplay, Inv, RowInv
    <2>2. answers' = answers \union {<<k, hash[k], 1>>}
      BY <1>1, <1>3, <2>1 DEF Lookup, Answer
    <2>3. Contract!Tell(k)
      BY <1>2, <2>1, <2>2 DEF Contract!Tell, Contract!Result, Kept
    <2> QED
      BY <2>3 DEF ContractStep, Contract!Next
  <1>4. CASE ~IsReplay(k, body[w])
    BY <1>1, <1>2, <1>4 DEF Lookup, ContractStep
  <1> QED
    BY <1>3, <1>4

LEMMA WorkIsMake ==
    ASSUME Inv, NEW w \in Workers, NEW succeeds \in BOOLEAN, Work(w, succeeds)
    PROVE  ContractStep
  <1>1. PICK k \in Keys : k = key[w]
    BY DEF Work, Inv, RequestFits
  <1>2. /\ hash[k] = body[w] /\ hash[k] \in Bodies /\ made[k] = <<>>
        /\ UNCHANGED <<hash, Kept, answers>>
    BY <1>1 DEF Work, rowVars, Kept, Inv, OwnerInv, RowInv
  <1>3. CASE succeeds
    <2>1. Append(made[k], body[w]) = <<hash[k]>>
      BY <1>2
    <2>2. made' = [made EXCEPT ![k] = Append(made[k], body[w])]
      BY <1>1, <1>3 DEF Work
    <2>3. Contract!Make(k)
      BY <1>2, <2>1, <2>2 DEF Contract!Make
    <2> QED
      BY <2>3 DEF ContractStep, Contract!Next
  <1>4. CASE ~succeeds
    BY <1>2, <1>4 DEF Work, ContractStep
  <1> QED
    BY <1>3, <1>4

LEMMA CompleteIsKeep ==
    ASSUME Inv, NEW w \in Workers, Complete(w)
    PROVE  ContractStep
  <1>1. PICK k \in Keys : k = key[w]
    BY DEF Complete, Inv, RequestFits
  <1>2. /\ state[k] = "in_progress" /\ hash[k] = body[w]
        /\ made[k] = <<body[w]>> /\ mine[w] = 1
    BY <1>1 DEF Complete, Inv, OwnerInv
  <1>3. made[k] # <<>> /\ k \notin Kept
    BY <1>2 DEF Kept
  <1>4. Kept' = Kept \union {k}
    BY <1>1 DEF Complete, Kept, Inv, TypeOK
  <1>5. answers' \in {answers, answers \union {<<k, hash[k], 1>>}} /\ UNCHANGED <<hash, made>>
    BY <1>1, <1>2 DEF Complete, Answer
  <1>6. Contract!Keep(k)
    BY <1>3, <1>4, <1>5 DEF Contract!Keep, Contract!Result
  <1> QED
    BY <1>6 DEF ContractStep, Contract!Next

LEMMA ReapIsForget ==
    ASSUME Inv, NEW k \in Keys, Reap(k)
    PROVE  ContractStep
  <1>1. hash[k] \in Bodies
    BY DEF Reap, Reapable, Inv, TypeOK, State, RowInv
  <1>2. Kept' = Kept \ {k}
    BY DEF Reap, Kept, Inv, TypeOK
  <1>3. Contract!Forget(k)
    BY <1>1, <1>2 DEF Reap, Contract!Forget
  <1> QED
    BY <1>3 DEF ContractStep, Contract!Next

(* However requests interleave and die, a key behaves like the contract's: *)
(* taken for one body, worked for once, kept, and only then answered from. *)
THEOREM ImplementsContract == Spec => ContractHolds
  <1>1. Init => Contract!Init
    BY DEF Init, Contract!Init, Kept
  <1>2. Inv /\ [Next]_vars => [Contract!Next]_(Contract!contractVars)
    <2> SUFFICES ASSUME Inv, [Next]_vars  PROVE ContractStep
      BY DEF ContractStep, Contract!contractVars
    <2>1. ASSUME NEW w \in Workers, Stop(w)  PROVE ContractStep
      BY <2>1 DEF Stop, rowVars, ContractStep, Kept
    <2>2. CASE UNCHANGED vars
      BY <2>2 DEF vars, rowVars, ContractStep, Kept
    <2> QED
      BY <2>1, <2>2, BeginIsTake, LookupIsTell, WorkIsMake, CompleteIsKeep, ReapIsForget
      DEF Next, RequestStep
  <1> QED
    BY <1>1, <1>2, InitInv, StepInv, PTL DEF Spec, ContractHolds, Contract!Spec
=============================================================================
