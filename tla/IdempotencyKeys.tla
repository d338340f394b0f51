--------------------------- MODULE IdempotencyKeys ---------------------------
(***************************************************************************)
(* Idempotency keys of one merchant, as create_session and confirm_payment *)
(* use them: begin takes the key or answers from it, the handler does its  *)
(* work, complete stores the response, and the poller reaps keys a day     *)
(* after they were taken.  A step is one database transaction or one       *)
(* statement of it that another request can come before.                   *)
(***************************************************************************)
EXTENDS Naturals, Sequences

CONSTANTS
    Keys,           \* values of the Idempotency-Key header
    Bodies,         \* request bodies; different bodies have different hashes
    Workers,        \* requests that can be in flight at the same time
    NoKey, NoBody

ASSUME NoKeyAssumption == NoKey \notin Keys
ASSUME NoBodyAssumption == NoBody \notin Bodies

VARIABLES
    state,          \* idempotency_keys.state, "absent" without a row
    hash,           \* idempotency_keys.request_hash
    response,       \* the session in idempotency_keys.response_body, 0 for NULL
    made,           \* bodies of the sessions made under a key, in the life of its row
    answers,        \* observation: <<key, body, session>> answered in that life
    pc, key, body,  \* step, key and body of each request
    mine            \* the session a request has made

rowVars == <<state, hash, response>>
requestVars == <<pc, key, body, mine>>
vars == <<rowVars, made, answers, requestVars>>

State == {"absent", "in_progress", "completed"}

Steps == {"idle", "lookup", "work", "complete"}

TypeOK ==
    /\ state \in [Keys -> State]
    /\ hash \in [Keys -> Bodies \union {NoBody}]
    /\ response \in [Keys -> Nat]
    /\ made \in [Keys -> Seq(Bodies)]
    /\ answers \in SUBSET (Keys \X Bodies \X Nat)
    /\ pc \in [Workers -> Steps]
    /\ key \in [Workers -> Keys \union {NoKey}]
    /\ body \in [Workers -> Bodies \union {NoBody}]
    /\ mine \in [Workers -> Nat]

Init ==
    /\ state = [k \in Keys |-> "absent"]
    /\ hash = [k \in Keys |-> NoBody]
    /\ response = [k \in Keys |-> 0]
    /\ made = [k \in Keys |-> <<>>]
    /\ answers = {}
    /\ pc = [w \in Workers |-> "idle"]
    /\ key = [w \in Workers |-> NoKey]
    /\ body = [w \in Workers |-> NoBody]
    /\ mine = [w \in Workers |-> 0]

-----------------------------------------------------------------------------
Start(w, k, b, step) ==
    /\ pc' = [pc EXCEPT ![w] = step]
    /\ key' = [key EXCEPT ![w] = k]
    /\ body' = [body EXCEPT ![w] = b]
    /\ UNCHANGED mine

Finish(w) ==
    /\ pc' = [pc EXCEPT ![w] = "idle"]
    /\ key' = [key EXCEPT ![w] = NoKey]
    /\ body' = [body EXCEPT ![w] = NoBody]
    /\ mine' = [mine EXCEPT ![w] = 0]

Answer(w, session) == answers' = answers \union {<<key[w], body[w], session>>}

\* Mutant: a key in progress is taken over by a retry.
MayAcquireUnfinished(k) == state[k] # "completed"

MayAcquire(k) == state[k] = "absent"

\* try_acquire_key, INSERT ... ON CONFLICT DO NOTHING: of concurrent requests one inserts.
Begin(w, k, b) ==
    /\ pc[w] = "idle"
    /\ IF MayAcquire(k)
       THEN /\ state' = [state EXCEPT ![k] = "in_progress"]
            /\ hash' = [hash EXCEPT ![k] = b]
            /\ UNCHANGED response
            /\ Start(w, k, b, "work")
       ELSE /\ UNCHANGED rowVars
            /\ Start(w, k, b, "lookup")
    /\ UNCHANGED <<made, answers>>

\* Mutant: the key alone decides.
IsReplayOfKey(k, b) == state[k] = "completed"

\* The same body again, and its response is there.
IsReplay(k, b) == state[k] = "completed" /\ hash[k] = b

\* The SELECT after the conflict: the stored response for a replay, an error for another
\* body, for a key in progress, and for a row that the reaper has taken meanwhile.
Lookup(w) ==
    /\ pc[w] = "lookup"
    /\ IF IsReplay(key[w], body[w]) THEN Answer(w, response[key[w]]) ELSE UNCHANGED answers
    /\ Finish(w)
    /\ UNCHANGED <<rowVars, made>>

\* The work of the handler.  Whatever fails (no such bank, a lost claim, the provider)
\* ends the request and leaves the key in progress.
Work(w, succeeds) ==
    /\ pc[w] = "work"
    /\ IF succeeds
       THEN /\ made' = [made EXCEPT ![key[w]] = Append(@, body[w])]
            /\ mine' = [mine EXCEPT ![w] = Len(made'[key[w]])]
            /\ pc' = [pc EXCEPT ![w] = "complete"]
            /\ UNCHANGED <<key, body>>
       ELSE Finish(w) /\ UNCHANGED made
    /\ UNCHANGED <<rowVars, answers>>

\* Mutant: the state is left to the answer's status.
CompleteOk(w) ==
    /\ pc[w] = "complete"
    /\ state' = [state EXCEPT ![key[w]] = "ok"]
    /\ response' = [response EXCEPT ![key[w]] = mine[w]]
    /\ Answer(w, mine[w])
    /\ Finish(w)
    /\ UNCHANGED <<hash, made>>

\* complete_key, unconditional; an answer may still be lost on its way.
Complete(w) ==
    /\ pc[w] = "complete"
    /\ state' = [state EXCEPT ![key[w]] = "completed"]
    /\ response' = [response EXCEPT ![key[w]] = mine[w]]
    /\ Answer(w, mine[w]) \/ UNCHANGED answers
    /\ Finish(w)
    /\ UNCHANGED <<hash, made>>

\* A crash, or an error passed up.
Stop(w) ==
    /\ pc[w] # "idle"
    /\ Finish(w)
    /\ UNCHANGED <<rowVars, made, answers>>

\* Mutant: the reaper is careful with keys in progress.
ReapableFinished(k) == state[k] = "completed"

Reapable(k) == state[k] # "absent"

\* reap_expired.  A request takes seconds and a key a day: no owner is still at work.
Reap(k) ==
    /\ Reapable(k)
    /\ \A w \in Workers : key[w] = k => pc[w] = "lookup"
    /\ state' = [state EXCEPT ![k] = "absent"]
    /\ hash' = [hash EXCEPT ![k] = NoBody]
    /\ response' = [response EXCEPT ![k] = 0]
    /\ made' = [made EXCEPT ![k] = <<>>]
    /\ answers' = {a \in answers : a[1] # k}
    /\ UNCHANGED requestVars

RequestStep(w) ==
    \/ Lookup(w)
    \/ \E succeeds \in BOOLEAN : Work(w, succeeds)
    \/ Complete(w)
    \/ Stop(w)

Next ==
    \/ \E w \in Workers :
           \/ \E k \in Keys, b \in Bodies : Begin(w, k, b)
           \/ RequestStep(w)
    \/ \E k \in Keys : Reap(k)

\* Requests end, one way or another.  The reaper runs every minute on keys a day old:
\* strongly fair because in a day the owner has long ended.
Fairness ==
    /\ \A w \in Workers : WF_vars(RequestStep(w))
    /\ \A k \in Keys : SF_vars(Reap(k))

Spec == Init /\ [][Next]_vars /\ Fairness

-----------------------------------------------------------------------------
(* Properties *)

\* However often a request is repeated under its key, concurrently or after a crash, one
\* session at most is made for it, and for the body that took the key.
WorkDoneOnce ==
    \A k \in Keys : /\ Len(made[k]) <= 1
                    /\ \A i \in 1 .. Len(made[k]) : made[k][i] = hash[k]

\* Every answer under a key is the same session, and one made for the body that asked:
\* retries never see a second session, nor a reused key somebody else's.
AnswersAgree ==
    \A a \in answers :
        /\ a[3] \in DOMAIN made[a[1]]
        /\ made[a[1]][a[3]] = a[2]
        /\ \A other \in answers : other[1] = a[1] => other = a

\* The contract, read off the rows: a key stands for the body whose hash it has.
Kept == {k \in Keys : state[k] = "completed"}

Contract == INSTANCE KeyContract WITH claim <- hash, kept <- Kept, told <- answers

\* Whatever requests race, die or come again, a key is taken, worked for, kept and
\* answered from as if there were no concurrency.
ContractHolds == Contract!Spec

\* A request that died cannot block its key for ever.
KeyReleased == \A k \in Keys : state[k] = "in_progress" ~> state[k] # "in_progress"
=============================================================================
