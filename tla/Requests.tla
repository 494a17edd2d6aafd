------------------------------ MODULE Requests ------------------------------
(***************************************************************************)
(* What the example promises those who write requests, with no messages,   *)
(* queues, routes or network in it: a request that was written is told how *)
(* the write went, one that went out waits for a reply, and one that waits *)
(* is given one reply at most, its own. RequestResponse implements this    *)
(* module, up to requests that are given the same number.                  *)
(***************************************************************************)
EXTENDS Sequences

CONSTANTS
    Requests,
    Handled,            \* the requests of a type that a stage handles
    Reply,              \* of a request
    SharesNumber(_, _)  \* whether two requests are taken for each other

VARIABLES
    state,   \* of each request
    replies  \* that the callback of each request was given

requestsVars == <<state, replies>>

Init ==
    /\ state \in [Requests -> {"idle", "written"}]
    /\ replies = [r \in Requests |-> <<>>]

Move(r, from, to) == state[r] = from /\ state' = [state EXCEPT ![r] = to]

Write(r) == Move(r, "idle", "written") /\ UNCHANGED replies
Fail(r) == Move(r, "written", "failed") /\ UNCHANGED replies
Wait(r) == Move(r, "written", "waiting") /\ UNCHANGED replies

\* Only for a request of the same number that has waited.
Refuse(r) ==
    /\ \E q \in Requests : SharesNumber(q, r) /\ state[q] \in {"waiting", "answered"}
    /\ Move(r, "written", "refused") /\ UNCHANGED replies

\* A request that is mistaken for another is one that went out.
Answer(r, q) ==
    /\ q = r \/ SharesNumber(q, r)
    /\ state[q] # "idle"
    /\ Move(r, "waiting", "answered")
    /\ replies' = [replies EXCEPT ![r] = Append(@, Reply[q])]

Conclude(r) == Fail(r) \/ Wait(r) \/ Refuse(r)

Next ==
    \E r \in Requests :
        \/ Write(r) \/ Conclude(r)
        \/ \E q \in Requests : Answer(r, q)

Spec == Init /\ [][Next]_requestsVars

\* The network may lose any reply, but a write is told how it went.
FairSpec == Spec /\ \A r \in Handled : WF_requestsVars(Conclude(r))

==============================================================================
