---------------------------- MODULE SessionStream ----------------------------
(***************************************************************************)
(* The payment page's event stream on top of the session's life: every two *)
(* seconds the server reads the row and sends its status, until the client *)
(* is gone, a read fails or the status is one that it takes for the end.   *)
(***************************************************************************)
EXTENDS PaymentSession

CONSTANT Clients        \* pages that may be open at the same time

VARIABLES
    watching,       \* the session each client has a stream of, or NoSession
    told            \* the status each open stream has sent last, "pending" without one

streamVars == <<watching, told>>
allVars == <<vars, streamVars>>

StreamTypeOK ==
    /\ watching \in [Clients -> Sessions \union {NoSession}]
    /\ told \in [Clients -> Status]

StreamInit ==
    /\ watching = [c \in Clients |-> NoSession]
    /\ told = [c \in Clients |-> "pending"]

\* The status read on the way in is sent at once.
Watch(c, s) ==
    /\ watching[c] = NoSession
    /\ watching' = [watching EXCEPT ![c] = s]
    /\ told' = [told EXCEPT ![c] = status[s]]

\* The stream ends on the server's side, or the client hangs up (the page does so when
\* it sees the end), or a read fails.
Close(c) ==
    /\ watching[c] # NoSession
    /\ watching' = [watching EXCEPT ![c] = NoSession]
    /\ told' = [told EXCEPT ![c] = "pending"]

\* Mutant: the loop sends the row it has read on the way in.
TickOfFirstRead(c) ==
    /\ watching[c] # NoSession
    /\ IF told[c] = "completed" THEN Close(c) ELSE UNCHANGED streamVars

\* A session that failed or was taken back keeps its stream open.
EndsStream(st) == st \in {"completed", "expired"}

Tick(c) ==
    /\ watching[c] # NoSession
    /\ LET st == status[watching[c]] IN
           IF EndsStream(st) THEN Close(c)
           ELSE told' = [told EXCEPT ![c] = st] /\ UNCHANGED watching

StreamNext ==
    \/ Next /\ UNCHANGED streamVars
    \/ /\ \E c \in Clients : Tick(c) \/ Close(c) \/ \E s \in Sessions : Watch(c, s)
       /\ UNCHANGED vars

\* The loop of an open stream goes on.
StreamsFair == \A c \in Clients : WF_streamVars(Tick(c) /\ UNCHANGED vars)

StreamSpec ==
    /\ Init /\ StreamInit
    /\ [][StreamNext]_allVars
    /\ DeliveryFair /\ StreamsFair

-----------------------------------------------------------------------------
(* Properties *)

\* Whatever handlers make of a session meanwhile, a client that stays on its stream is
\* brought up to date, or let go: the stream of a completed session ends.
StreamKeepsUp ==
    \A c \in Clients, s \in Sessions :
        (watching[c] = s /\ told[c] # status[s])
            ~> (watching[c] = s => told[c] = status[s])
=============================================================================
