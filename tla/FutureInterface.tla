--------------------------- MODULE FutureInterface ---------------------------
(***************************************************************************)
(* One FutureInterface<T> (caller/async) shared by any number of threads:  *)
(* reporters, threads that add and remove listeners, and threads blocked   *)
(* in wait() or result().                                                  *)
(*                                                                         *)
(* Every access to the shared state is made under m_mutex, so a section    *)
(* from lock to unlock is one action.  What the code does outside the      *)
(* mutex is a step of its own: reportResult unlocks between writing the    *)
(* value and calling reportFinished; sendEvent unlocks before it posts the *)
(* event to each listener; a thread released from the condition variable   *)
(* takes the mutex again.                                                  *)
(***************************************************************************)
EXTENDS Naturals

CONSTANTS
    Threads,     \* threads that hold a copy of the interface or of a Future
    Listeners,   \* FutureEventListener objects, each registered at most once
    Throwers,    \* the listeners whose postEvent throws
    Values,      \* results of type T; {} for FutureInterface<void>
    Errors,      \* error codes given to reportErrorCode
    Exceptions,  \* exceptions given to reportException
    Unwritten,   \* content of m_storeData before the first placement new
    NoError,     \* default-constructed error code
    NoException, \* null exception_ptr
    Default,     \* T()
    NotTold,     \* a listener that saw no event
    NotRead      \* a thread whose result() has not returned

Nulls == {Unwritten, NoError, NoException, Default, NotTold, NotRead}

ASSUME FutureAssumption ==
    /\ Throwers \subseteq Listeners
    /\ Nulls \cap (Values \cup Errors \cup Exceptions) = {}
    /\ Unwritten # Default

VARIABLES
    \* FutureInterfaceBaseImpl
    m_state, m_storeData, m_errorCode, m_exceptionPtr,
    m_signal,    \* listeners waiting for the completion
    waitSet,     \* threads blocked in m_waitCondition
    \* the threads
    pc,
    tempSignal,  \* listeners the thread still has to post to, outside the mutex
    event,       \* the FutureEvent it posts to them
    \* history
    added,       \* listeners whose registration is over
    removed,     \* listeners removeListener took out of m_signal
    dropped,     \* listeners skipped because an earlier one threw
    posts,       \* number of events each listener got
    told,        \* what it saw in the last one
    read,        \* what the thread's last wait ended in result() with
    spurious     \* whether its last wait ended without a notification

future == <<m_state, m_storeData, m_errorCode, m_exceptionPtr>>
threads == <<pc, tempSignal, event>>
telling == <<dropped, posts, told>>
reading == <<read, spurious>>
vars == <<future, m_signal, waitSet, threads, added, removed, telling, reading>>

HasStore == Values # {}
Locations == {"idle", "publish", "posting", "waiting", "waitingResult", "reading"}
Waiting == {"waiting", "waitingResult"}

FutureEvents ==
    [event : {"None", "Finished", "Canceled"}, errorCode : Errors \cup {NoError},
     exceptionPtr : Exceptions \cup {NoException}]

FutureEvent(kind, code, exc) ==
    [event |-> kind, errorCode |-> code, exceptionPtr |-> exc]

NoEvent == FutureEvent("None", NoError, NoException)

\* What a listener sees of an event: the storage is shared, so its content is
\* the one at the time the listener looks.
Seen(e, store) ==
    [event |-> e.event, errorCode |-> e.errorCode, exceptionPtr |-> e.exceptionPtr,
     result |-> IF e.event = "Finished" THEN store ELSE Default]

News ==
    [event : {"Finished", "Canceled"}, errorCode : Errors \cup {NoError},
     exceptionPtr : Exceptions \cup {NoException},
     result : Values \cup {Unwritten, Default}]

ASSUME NotToldAssumption == NotTold \notin News

TypeOK ==
    /\ m_state \in {"Pending", "Finished", "Canceled"}
    /\ m_storeData \in Values \cup {Unwritten}
    /\ m_errorCode \in Errors \cup {NoError}
    /\ m_exceptionPtr \in Exceptions \cup {NoException}
    /\ m_signal \in SUBSET Listeners
    /\ waitSet \in SUBSET Threads
    /\ pc \in [Threads -> Locations]
    /\ tempSignal \in [Threads -> SUBSET Listeners]
    /\ event \in [Threads -> FutureEvents]
    /\ added \in SUBSET Listeners
    /\ removed \in SUBSET Listeners
    /\ dropped \in SUBSET Listeners
    /\ posts \in [Listeners -> Nat]
    /\ told \in [Listeners -> News \cup {NotTold}]
    /\ read \in [Threads -> Values \cup Exceptions \cup {Unwritten, Default, NotRead}]
    /\ spurious \in [Threads -> BOOLEAN]

------------------------------------------------------------------------------
\* A new interface is pending; one from makeEmptyFutureInterface was canceled
\* before anybody else could see it.
Init ==
    /\ m_state \in {"Pending", "Canceled"}
    /\ m_storeData = Unwritten
    /\ m_errorCode = NoError
    /\ m_exceptionPtr = NoException
    /\ m_signal = {}
    /\ waitSet = {}
    /\ pc = [t \in Threads |-> "idle"]
    /\ tempSignal = [t \in Threads |-> {}]
    /\ event = [t \in Threads |-> NoEvent]
    /\ added = {} /\ removed = {} /\ dropped = {}
    /\ posts = [l \in Listeners |-> 0]
    /\ told = [l \in Listeners |-> NotTold]
    /\ read = [t \in Threads |-> NotRead]
    /\ spurious = [t \in Threads |-> FALSE]

\* The thread leaves the mutex with these listeners left to post e to.
StartPosting(t, listeners, e) ==
    /\ tempSignal' = [tempSignal EXCEPT ![t] = listeners]
    /\ event' = [event EXCEPT ![t] = e]
    /\ pc' = [pc EXCEPT ![t] = IF listeners = {} THEN "idle" ELSE "posting"]

sendEvent(t, e) == m_signal' = {} /\ StartPosting(t, m_signal, e)

\* The state changes whatever it was.
StoreState(which) == m_state' = which

switchStateTo(which) == m_state = "Pending" /\ m_state' = which

\* The common part of the four report functions; a report that finds the
\* future completed returns at once and changes nothing.
CompleteSilently(t, which, e) ==
    /\ switchStateTo(which)
    /\ sendEvent(t, e)
    /\ UNCHANGED <<waitSet, m_storeData, added, removed, telling, reading>>

Complete(t, which, e) ==
    /\ switchStateTo(which)
    /\ waitSet' = {}
    /\ sendEvent(t, e)
    /\ UNCHANGED <<m_storeData, added, removed, telling, reading>>

reportErrorCode(t, code) ==
    /\ pc[t] = "idle"
    /\ m_errorCode' = code
    /\ UNCHANGED m_exceptionPtr
    /\ Complete(t, "Canceled", FutureEvent("Canceled", code, NoException))

reportException(t, exc) ==
    /\ pc[t] = "idle"
    /\ m_exceptionPtr' = exc
    /\ UNCHANGED m_errorCode
    /\ Complete(t, "Canceled", FutureEvent("Canceled", NoError, exc))

reportCanceled(t) ==
    /\ pc[t] = "idle"
    /\ UNCHANGED <<m_errorCode, m_exceptionPtr>>
    /\ Complete(t, "Canceled", FutureEvent("Canceled", NoError, NoException))

\* Called by itself on a future that stores nothing, or after reportResult
\* has written the value and left the mutex.
reportFinished(t) ==
    /\ pc[t] = IF HasStore THEN "publish" ELSE "idle"
    /\ UNCHANGED <<m_errorCode, m_exceptionPtr>>
    /\ Complete(t, "Finished", FutureEvent("Finished", NoError, NoException))

\* The thread wrote its value, but the future was completed meanwhile.
reportFinishedTooLate(t) ==
    /\ pc[t] = "publish"
    /\ m_state # "Pending"
    /\ pc' = [pc EXCEPT ![t] = "idle"]
    /\ UNCHANGED <<future, m_signal, waitSet, tempSignal, event, added, removed,
                   telling, reading>>

\* The first half of reportResult: the placement new, under the mutex.
reportResult(t, v) ==
    /\ m_state = "Pending"
    /\ pc[t] = "idle"
    /\ m_storeData' = v
    /\ pc' = [pc EXCEPT ![t] = "publish"]
    /\ UNCHANGED <<m_state, m_errorCode, m_exceptionPtr, m_signal, waitSet,
                   tempSignal, event, added, removed, telling, reading>>

------------------------------------------------------------------------------
\* A listener's handler ran; if it threw, sendEvent's loop is abandoned.
postEvent(t, l) ==
    LET rest == tempSignal[t] \ {l}
        left == IF l \in Throwers THEN {} ELSE rest
    IN  /\ pc[t] = "posting"
        /\ l \in tempSignal[t]
        /\ posts' = [posts EXCEPT ![l] = @ + 1]
        /\ told' = [told EXCEPT ![l] = Seen(event[t], m_storeData)]
        /\ dropped' = dropped \cup (rest \ left)
        /\ StartPosting(t, left, event[t])
        /\ UNCHANGED <<future, m_signal, waitSet, added, removed, reading>>

\* addListener that always appends, without looking at the state.
AddListenerUnchecked(t, l) ==
    /\ pc[t] = "idle"
    /\ l \notin added
    /\ added' = added \cup {l}
    /\ m_signal' = m_signal \cup {l}
    /\ UNCHANGED <<future, waitSet, threads, removed, telling, reading>>

\* addListener that tells of a cancellation without its reason.
AddListenerForgetful(t, l) ==
    /\ pc[t] = "idle"
    /\ l \notin added
    /\ added' = added \cup {l}
    /\ \/ /\ m_state = "Pending"
          /\ m_signal' = m_signal \cup {l}
          /\ UNCHANGED threads
       \/ /\ m_state # "Pending"
          /\ StartPosting(t, {l}, FutureEvent(m_state, NoError, NoException))
          /\ UNCHANGED m_signal
    /\ UNCHANGED <<future, waitSet, removed, telling, reading>>

\* A pending future keeps the listener; a completed one has the calling
\* thread post to it, outside the mutex.
addListener(t, l) ==
    /\ pc[t] = "idle"
    /\ l \notin added
    /\ added' = added \cup {l}
    /\ \/ /\ m_state = "Pending"
          /\ m_signal' = m_signal \cup {l}
          /\ UNCHANGED threads
       \/ /\ m_state = "Canceled"
          /\ StartPosting(t, {l}, FutureEvent("Canceled", m_errorCode, m_exceptionPtr))
          /\ UNCHANGED m_signal
       \/ /\ m_state = "Finished"
          /\ StartPosting(t, {l}, FutureEvent("Finished", NoError, NoException))
          /\ UNCHANGED m_signal
    /\ UNCHANGED <<future, waitSet, removed, telling, reading>>

removeListener(t, l) ==
    /\ pc[t] = "idle"
    /\ m_signal' = m_signal \ {l}
    /\ removed' = removed \cup (m_signal \cap {l})
    /\ UNCHANGED <<future, waitSet, threads, added, telling, reading>>

------------------------------------------------------------------------------
\* wait() that blocks without looking at the state.
WaitUnchecked(t, blocked, next) ==
    /\ pc[t] = "idle"
    /\ spurious' = [spurious EXCEPT ![t] = FALSE]
    /\ read' = [read EXCEPT ![t] = NotRead]
    /\ pc' = [pc EXCEPT ![t] = blocked]
    /\ waitSet' = waitSet \cup {t}
    /\ UNCHANGED <<future, m_signal, tempSignal, event, added, removed, telling>>

\* wait(): the thread goes on to next at once, or is blocked first.
wait(t, blocked, next) ==
    /\ pc[t] = "idle"
    /\ spurious' = [spurious EXCEPT ![t] = FALSE]
    /\ read' = [read EXCEPT ![t] = NotRead]
    /\ \/ /\ m_state # "Pending"
          /\ pc' = [pc EXCEPT ![t] = next]
          /\ UNCHANGED waitSet
       \/ /\ m_state = "Pending"
          /\ pc' = [pc EXCEPT ![t] = blocked]
          /\ waitSet' = waitSet \cup {t}
    /\ UNCHANGED <<future, m_signal, tempSignal, event, added, removed, telling>>

\* The two callers of wait(): a user's, and Future::result, which reads next.
WaitDone(t) == wait(t, "waiting", "idle")
WaitResult(t) == HasStore /\ wait(t, "waitingResult", "reading")

\* A thread that was released has the mutex again; it does not look at the state. A
\* user's wait() returns; that it was woken for nothing matters to result() alone.
WakeUp(t) ==
    /\ pc[t] \in Waiting
    /\ t \notin waitSet
    /\ pc' = [pc EXCEPT ![t] = IF @ = "waiting" THEN "idle" ELSE "reading"]
    /\ spurious' = [spurious EXCEPT ![t] = @ /\ pc[t] = "waitingResult"]
    /\ UNCHANGED <<future, m_signal, waitSet, tempSignal, event, added, removed,
                   telling, read>>

\* std::condition_variable may release a thread nobody notified.
SpuriousWakeUp(t) ==
    /\ t \in waitSet
    /\ waitSet' = waitSet \ {t}
    /\ spurious' = [spurious EXCEPT ![t] = TRUE]
    /\ UNCHANGED <<future, m_signal, threads, added, removed, telling, read>>

\* What FutureInterface::result() gives: the exception it throws, T(), or
\* whatever the storage holds.
ResultOf(state, store, exc) ==
    IF state # "Canceled" THEN store
    ELSE IF exc # NoException THEN exc ELSE Default

result(t) ==
    /\ pc[t] = "reading"
    /\ read' = [read EXCEPT ![t] = ResultOf(m_state, m_storeData, m_exceptionPtr)]
    /\ pc' = [pc EXCEPT ![t] = "idle"]
    /\ UNCHANGED <<future, m_signal, waitSet, tempSignal, event, added, removed,
                   telling, spurious>>

------------------------------------------------------------------------------
Report(t) ==
    \/ \E code \in Errors : reportErrorCode(t, code)
    \/ \E exc \in Exceptions : reportException(t, exc)
    \/ reportCanceled(t)
    \/ \E v \in Values : reportResult(t, v)
    \/ reportFinished(t)
    \/ reportFinishedTooLate(t)

Listen(t) == \E l \in Listeners : addListener(t, l) \/ removeListener(t, l)

Await(t) == WaitDone(t) \/ WaitResult(t) \/ WakeUp(t) \/ SpuriousWakeUp(t) \/ result(t)

Next ==
    \E t \in Threads :
        \/ Report(t) \/ Listen(t) \/ Await(t)
        \/ \E l \in Listeners : postEvent(t, l)

Spec == Init /\ [][Next]_vars

\* Nobody has to call anything, but a call that was begun goes on: a thread
\* outside the mutex gets to its next step.
GoOn(t) ==
    \/ reportFinished(t) /\ pc[t] = "publish"
    \/ reportFinishedTooLate(t)
    \/ \E l \in Listeners : postEvent(t, l)
    \/ WakeUp(t)
    \/ result(t)

FairSpec == Spec /\ \A t \in Threads : WF_vars(GoOn(t))

------------------------------------------------------------------------------
\* The news a completed future carries.
Outcome ==
    Seen(FutureEvent(m_state, m_errorCode, m_exceptionPtr), m_storeData)

Completed == m_state # "Pending"

\* Every listener, whichever thread told it and however late, saw the outcome
\* the future has now: events are built under the mutex but read outside it.
ToldTheOutcome ==
    \A l \in Listeners : posts[l] > 0 => Completed /\ told[l] = Outcome

\* No registration is lost between the list, the swap and the late path: a
\* listener that was added and not removed is listed while the future is
\* pending and, once it completed, has been told, is about to be told by some
\* thread, or was behind a listener that threw.
NoListenerLost ==
    \A l \in added \ removed :
        \/ ~Completed /\ l \in m_signal
        \/ Completed /\ ( \/ posts[l] > 0 \/ l \in dropped
                          \/ \E t \in Threads : l \in tempSignal[t] )

\* A registration is told at most once, even with several reporters and late
\* registrations at once, and never after removeListener took it out.
ToldAtMostOnce ==
    \A l \in Listeners :
        /\ posts[l] <= 1
        /\ l \in removed => posts[l] = 0

\* Once the future completed, no thread is left asleep in the condition
\* variable: checking the state and going to sleep cannot miss notify_all.
NoStrandedWaiter == Completed => waitSet = {}

\* Unless the condition variable woke it spuriously, a thread that came back
\* from result() has the outcome, and never reads a store nobody wrote.
ResultIsOutcome ==
    \A t \in Threads :
        read[t] # NotRead /\ ~spurious[t] =>
            /\ Completed
            /\ read[t] = ResultOf(m_state, m_storeData, m_exceptionPtr)
            /\ read[t] # Unwritten

\* The inductive invariant behind the properties above, by its parts.

\* A thread posting events posts the outcome, to listeners nobody else has:
\* the list was swapped under the mutex, or the listener came late.
PostingInv ==
    /\ \A t \in Threads :
        /\ tempSignal[t] # {} <=> pc[t] = "posting"
        /\ pc[t] = "posting" => Completed /\ Seen(event[t], m_storeData) = Outcome
        /\ \A l \in tempSignal[t] : l \in added \ removed /\ posts[l] = 0
    /\ \A t, u \in Threads : t # u => tempSignal[t] \cap tempSignal[u] = {}

\* The list is emptied by the completion, and holds only live registrations.
SignalInv ==
    /\ Completed => m_signal = {}
    /\ m_signal \subseteq added \ removed
    /\ removed \subseteq added
    /\ \A l \in Listeners :
        /\ posts[l] > 0 => l \in added
        /\ posts[l] = 0 <=> told[l] = NotTold

\* A value is in the storage before a thread leaves the mutex to publish it,
\* and errors are only set by the report that cancels.
StoreInv ==
    /\ \A t \in Threads : pc[t] = "publish" => HasStore /\ m_storeData # Unwritten
    /\ HasStore /\ m_state = "Finished" => m_storeData # Unwritten
    /\ m_state # "Canceled" => m_errorCode = NoError /\ m_exceptionPtr = NoException

\* A thread out of the condition variable was notified, or woke spuriously.
WaitingInv ==
    \A t \in Threads :
        /\ t \in waitSet => pc[t] \in Waiting /\ ~spurious[t]
        /\ pc[t] \in Waiting => read[t] = NotRead
        /\ pc[t] \in {"waitingResult", "reading"} => HasStore
        /\ pc[t] \in Waiting \cup {"reading"} /\ t \notin waitSet /\ ~spurious[t]
              => Completed

FutureInv ==
    /\ TypeOK
    /\ PostingInv /\ SignalInv /\ StoreInv /\ WaitingInv
    /\ ToldTheOutcome /\ NoListenerLost /\ ToldAtMostOnce
    /\ NoStrandedWaiter /\ ResultIsOutcome

\* A completed future never changes again, the storage that listeners read
\* outside the mutex included.
CompletionIsFinal == [][Completed => UNCHANGED future]_vars

\* A thread waiting for a future that completed comes back.
WaitersReturn ==
    \A t \in Threads : (Completed /\ pc[t] \in Waiting) ~> (pc[t] \notin Waiting)

\* The refinement: listeners that threw others off the loop aside, a
\* FutureInterface is a Promise.
P == INSTANCE Promise WITH
        Outcomes <- News,
        Nothing <- NotTold,
        outcome <- IF Completed THEN Outcome ELSE NotTold,
        subscribers <- added \ removed

PromiseSpec == P!Spec

\* As long as no listener throws, each one is told in the end: a future keeps the
\* whole promise, its liveness included.
Thrown == \E l \in Throwers : told[l] # NotTold
PromiseFairSpec == P!Spec /\ \A l \in Listeners : P!FairTell(l) \/ <>Thrown

==============================================================================
