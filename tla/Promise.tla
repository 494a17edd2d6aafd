------------------------------- MODULE Promise -------------------------------
(***************************************************************************)
(* What caller's futures promise their users, with no threads, locks or    *)
(* storage in it: an outcome is settled at most once, and every subscriber *)
(* that did not withdraw before that is told that outcome, exactly once.   *)
(* FutureInterface implements this module.                                 *)
(***************************************************************************)

CONSTANTS
    Listeners,   \* who may subscribe
    Outcomes,    \* what the promise may settle to
    Nothing      \* the outcome of an open promise, and what nobody was told

VARIABLES
    outcome,      \* Nothing, then one member of Outcomes for ever
    subscribers,  \* listeners entitled to the outcome
    told          \* [Listeners -> Outcomes \cup {Nothing}]

promiseVars == <<outcome, subscribers, told>>

\* A promise may also be born settled, as makeEmptyFutureInterface's is.
Init ==
    /\ outcome \in Outcomes \cup {Nothing}
    /\ subscribers = {}
    /\ told = [l \in Listeners |-> Nothing]

Settle(o) ==
    /\ outcome = Nothing
    /\ outcome' = o
    /\ UNCHANGED <<subscribers, told>>

Subscribe(l) ==
    /\ l \notin subscribers
    /\ subscribers' = subscribers \cup {l}
    /\ UNCHANGED <<outcome, told>>

\* Withdrawing is only of use while the outcome is open: after it, the
\* subscriber may be told at any time.
Withdraw(l) ==
    /\ outcome = Nothing
    /\ l \in subscribers
    /\ subscribers' = subscribers \ {l}
    /\ UNCHANGED <<outcome, told>>

Tell(l) ==
    /\ outcome # Nothing
    /\ l \in subscribers
    /\ told[l] = Nothing
    /\ told' = [told EXCEPT ![l] = outcome]
    /\ UNCHANGED <<outcome, subscribers>>

Next ==
    \/ \E o \in Outcomes : Settle(o)
    \/ \E l \in Listeners : Subscribe(l) \/ Withdraw(l) \/ Tell(l)

Spec == Init /\ [][Next]_promiseVars

\* Once the outcome is settled, a subscriber does not wait for ever.
FairTell(l) == WF_promiseVars(Tell(l))

FairSpec == Spec /\ \A l \in Listeners : FairTell(l)

==============================================================================
