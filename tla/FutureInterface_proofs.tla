------------------------ MODULE FutureInterface_proofs ------------------------
(***************************************************************************)
(* Proofs about FutureInterface: its safety properties, for any number of  *)
(* threads, listeners, results and errors, and the refinement of Promise.  *)
(***************************************************************************)
EXTENDS FutureInterface, TLAPS

\* What a listener sees of an event that was built is a piece of news.
LEMMA SeenIsNews ==
    ASSUME NEW e \in FutureEvents, e.event # "None",
           NEW store \in Values \cup {Unwritten}
    PROVE  Seen(e, store) \in News
BY DEF Seen, FutureEvents, News

\* A completed future carries news.
LEMMA OutcomeIsNews ==
    ASSUME TypeOK, Completed
    PROVE  Outcome \in News
<1> DEFINE e == FutureEvent(m_state, m_errorCode, m_exceptionPtr)
<1>1. e \in FutureEvents /\ e.event # "None"
  BY DEF TypeOK, Completed, FutureEvent, FutureEvents
<1> QED BY <1>1, SeenIsNews DEF Outcome, TypeOK

\* What result() returns or throws has the type of read.
LEMMA ResultOfType ==
    ASSUME TypeOK
    PROVE  ResultOf(m_state, m_storeData, m_exceptionPtr)
              \in Values \cup Exceptions \cup {Unwritten, Default, NotRead}
BY DEF ResultOf, TypeOK

\* A completed future is never changed: the four report functions and the
\* placement new of reportResult all look at the state under the mutex.
LEMMA FinalStep ==
    ASSUME [Next]_vars, Completed
    PROVE  UNCHANGED future
BY DEF Next, vars, Completed, future, Report, Listen, Await, reportErrorCode,
       reportException, reportCanceled, reportResult, reportFinished,
       reportFinishedTooLate, Complete, switchStateTo, addListener,
       removeListener, WaitDone, WaitResult, wait, WakeUp, SpuriousWakeUp,
       result, postEvent

\* A completed future keeps its outcome.
LEMMA OutcomeFinal ==
    ASSUME [Next]_vars, Completed
    PROVE  Completed' /\ Outcome' = Outcome
BY FinalStep DEF future, Completed, Outcome

------------------------------------------------------------------------------
\* Type correctness, one step per action. That listeners see news only holds
\* because a thread posts the outcome, so the whole invariant is assumed.
LEMMA TypeInit == Init => TypeOK
BY DEF Init, TypeOK, Locations, NoEvent, FutureEvent, FutureEvents

LEMMA TypeStep ==
    ASSUME FutureInv, [Next]_vars
    PROVE  TypeOK'
<1> TypeOK
  BY DEF FutureInv
<1> USE DEF TypeOK, Locations
<1>1. ASSUME NEW t \in Threads, NEW which \in {"Finished", "Canceled"},
             NEW code \in Errors \cup {NoError}, NEW exc \in Exceptions \cup {NoException},
             m_errorCode' \in Errors \cup {NoError},
             m_exceptionPtr' \in Exceptions \cup {NoException},
             Complete(t, which, FutureEvent(which, code, exc))
      PROVE  TypeOK'
  BY <1>1 DEF Complete, switchStateTo, sendEvent, StartPosting, telling, reading,
              FutureEvent, FutureEvents
<1>2. ASSUME NEW t \in Threads, Report(t)
      PROVE  TypeOK'
  <2>1. CASE \E code \in Errors : reportErrorCode(t, code)
    BY <2>1, <1>1 DEF reportErrorCode
  <2>2. CASE \E exc \in Exceptions : reportException(t, exc)
    BY <2>2, <1>1 DEF reportException
  <2>3. CASE reportCanceled(t)
    BY <2>3, <1>1 DEF reportCanceled
  <2>4. CASE \E v \in Values : reportResult(t, v)
    BY <2>4 DEF reportResult, telling, reading
  <2>5. CASE reportFinished(t)
    BY <2>5, <1>1 DEF reportFinished
  <2>6. CASE reportFinishedTooLate(t)
    BY <2>6 DEF reportFinishedTooLate, future, telling, reading
  <2> QED BY <1>2, <2>1, <2>2, <2>3, <2>4, <2>5, <2>6 DEF Report
<1>3. ASSUME NEW t \in Threads, Listen(t)
      PROVE  TypeOK'
  <2>1. ASSUME NEW l \in Listeners, addListener(t, l)
        PROVE  TypeOK'
    <3> DEFINE e == FutureEvent(m_state, m_errorCode, m_exceptionPtr)
               f == FutureEvent("Finished", NoError, NoException)
    <3>1. f \in FutureEvents /\ (Completed => e \in FutureEvents)
      BY DEF FutureEvent, FutureEvents, Completed
    <3>2. CASE m_state = "Pending"
      BY <2>1, <3>2 DEF addListener, future, threads, telling, reading
    <3>3. ASSUME NEW ev \in FutureEvents, StartPosting(t, {l}, ev), UNCHANGED m_signal
          PROVE  TypeOK'
      <4>1. tempSignal' \in [Threads -> SUBSET Listeners] /\ event' \in [Threads -> FutureEvents]
        BY <3>3 DEF StartPosting
      <4>2. pc' \in [Threads -> Locations]
        BY <3>3 DEF StartPosting
      <4> QED BY <2>1, <3>3, <4>1, <4>2 DEF addListener, future, telling, reading
    <3>4. CASE m_state = "Canceled"
      BY <2>1, <3>1, <3>3, <3>4 DEF addListener, Completed
    <3>5. CASE m_state = "Finished"
      BY <2>1, <3>1, <3>3, <3>5 DEF addListener
    <3> QED BY <3>2, <3>4, <3>5
  <2>2. ASSUME NEW l \in Listeners, removeListener(t, l)
        PROVE  TypeOK'
    BY <2>2 DEF removeListener, future, threads, telling, reading
  <2> QED BY <1>3, <2>1, <2>2 DEF Listen
<1>4. ASSUME NEW t \in Threads, Await(t)
      PROVE  TypeOK'
  <2>1. CASE WaitDone(t) \/ WaitResult(t)
    BY <2>1 DEF WaitDone, WaitResult, wait, future, telling
  <2>2. CASE WakeUp(t)
    BY <2>2 DEF WakeUp, future, telling, reading
  <2>3. CASE SpuriousWakeUp(t)
    BY <2>3 DEF SpuriousWakeUp, future, threads, telling
  <2>4. CASE result(t)
    BY <2>4, ResultOfType DEF result, future, telling
  <2> QED BY <1>4, <2>1, <2>2, <2>3, <2>4 DEF Await
<1>5. ASSUME NEW t \in Threads, NEW l \in Listeners, postEvent(t, l)
      PROVE  TypeOK'
  <2>1. Seen(event[t], m_storeData) \in News
    BY <1>5, OutcomeIsNews DEF FutureInv, PostingInv, postEvent
  <2>2. told' \in [Listeners -> News \cup {NotTold}] /\ posts' \in [Listeners -> Nat]
    BY <1>5, <2>1 DEF postEvent
  <2>3. dropped' \in SUBSET Listeners
    BY <1>5 DEF postEvent
  <2>4. /\ tempSignal' \in [Threads -> SUBSET Listeners]
        /\ event' \in [Threads -> FutureEvents]
        /\ pc' \in [Threads -> Locations]
    BY <1>5 DEF postEvent, StartPosting
  <2> QED BY <1>5, <2>2, <2>3, <2>4 DEF postEvent, future, reading
<1>6. CASE UNCHANGED vars
  BY <1>6 DEF vars, future, threads, telling, reading
<1> QED BY <1>2, <1>3, <1>4, <1>5, <1>6 DEF Next

------------------------------------------------------------------------------
\* The inductive invariant, part by part: first the parts that speak of the
\* storage and of the condition variable.
LEMMA StoreStep ==
    ASSUME FutureInv, [Next]_vars
    PROVE  StoreInv'
<1> TypeOK /\ StoreInv
  BY DEF FutureInv
<1> USE FutureAssumption DEF TypeOK, StoreInv, HasStore, Nulls
<1>1. ASSUME NEW t \in Threads, Report(t)
      PROVE  StoreInv'
  <2>1. ASSUME NEW which \in {"Finished", "Canceled"}, NEW e, Complete(t, which, e),
               which = "Finished" => pc[t] = "publish" \/ ~HasStore,
               which = "Finished" => UNCHANGED <<m_errorCode, m_exceptionPtr>>
        PROVE  StoreInv'
    BY <2>1 DEF Complete, switchStateTo, sendEvent, StartPosting
  <2>2. CASE \/ \E code \in Errors : reportErrorCode(t, code)
             \/ \E exc \in Exceptions : reportException(t, exc)
             \/ reportCanceled(t)
    BY <2>1, <2>2 DEF reportErrorCode, reportException, reportCanceled
  <2>3. CASE reportFinished(t)
    BY <2>1, <2>3 DEF reportFinished
  <2>4. CASE \E v \in Values : reportResult(t, v)
    BY <2>4 DEF reportResult
  <2>5. CASE reportFinishedTooLate(t)
    BY <2>5 DEF reportFinishedTooLate, future
  <2> QED BY <1>1, <2>2, <2>3, <2>4, <2>5 DEF Report
<1>2. ASSUME NEW t \in Threads, Listen(t)
      PROVE  StoreInv'
  BY <1>2 DEF Listen, addListener, removeListener, StartPosting, future, threads
<1>3. ASSUME NEW t \in Threads, Await(t)
      PROVE  StoreInv'
  BY <1>3 DEF Await, WaitDone, WaitResult, wait, WakeUp, SpuriousWakeUp, result,
              Waiting, future, threads
<1>4. ASSUME NEW t \in Threads, NEW l \in Listeners, postEvent(t, l)
      PROVE  StoreInv'
  BY <1>4 DEF postEvent, StartPosting, future
<1>5. CASE UNCHANGED vars
  BY <1>5 DEF vars, future, threads
<1> QED BY <1>1, <1>2, <1>3, <1>4, <1>5 DEF Next

\* The check of the state and the going to sleep are one section of the mutex,
\* and so are the change of the state and notify_all.
LEMMA WaitingStep ==
    ASSUME FutureInv, [Next]_vars
    PROVE  WaitingInv' /\ NoStrandedWaiter'
<1> TypeOK /\ WaitingInv /\ NoStrandedWaiter
  BY DEF FutureInv
<1> USE DEF TypeOK, WaitingInv, NoStrandedWaiter, Completed, Waiting, HasStore
<1>1. ASSUME NEW t \in Threads, Report(t)
      PROVE  WaitingInv' /\ NoStrandedWaiter'
  <2>1. ASSUME NEW which \in {"Finished", "Canceled"}, NEW e, Complete(t, which, e)
        PROVE  WaitingInv' /\ NoStrandedWaiter'
    BY <2>1 DEF Complete, switchStateTo, sendEvent, StartPosting, reading
  <2>2. CASE \/ \E code \in Errors : reportErrorCode(t, code)
             \/ \E exc \in Exceptions : reportException(t, exc)
             \/ reportCanceled(t) \/ reportFinished(t)
    BY <2>1, <2>2 DEF reportErrorCode, reportException, reportCanceled, reportFinished
  <2>3. CASE \E v \in Values : reportResult(t, v)
    BY <2>3 DEF reportResult, reading
  <2>4. CASE reportFinishedTooLate(t)
    BY <2>4 DEF reportFinishedTooLate, future, reading
  <2> QED BY <1>1, <2>2, <2>3, <2>4 DEF Report
<1>2. ASSUME NEW t \in Threads, Listen(t)
      PROVE  WaitingInv' /\ NoStrandedWaiter'
  BY <1>2 DEF Listen, addListener, removeListener, StartPosting, future, threads, reading
<1>3. ASSUME NEW t \in Threads, Await(t)
      PROVE  WaitingInv' /\ NoStrandedWaiter'
  <2>1. CASE WaitDone(t) \/ WaitResult(t)
    BY <2>1 DEF WaitDone, WaitResult, wait, future
  <2>2. CASE WakeUp(t)
    BY <2>2 DEF WakeUp, future, reading
  <2>3. CASE SpuriousWakeUp(t)
    BY <2>3 DEF SpuriousWakeUp, future, threads
  <2>4. CASE result(t)
    BY <2>4 DEF result, future
  <2> QED BY <1>3, <2>1, <2>2, <2>3, <2>4 DEF Await
<1>4. ASSUME NEW t \in Threads, NEW l \in Listeners, postEvent(t, l)
      PROVE  WaitingInv' /\ NoStrandedWaiter'
  BY <1>4 DEF postEvent, StartPosting, future, reading
<1>5. CASE UNCHANGED vars
  BY <1>5 DEF vars, future, threads, reading
<1> QED BY <1>1, <1>2, <1>3, <1>4, <1>5 DEF Next

\* result() reads after a completion, which is final.
LEMMA ResultStep ==
    ASSUME FutureInv, [Next]_vars
    PROVE  ResultIsOutcome'
<1> TypeOK /\ WaitingInv /\ StoreInv /\ ResultIsOutcome
  BY DEF FutureInv
<1> SUFFICES ASSUME NEW t \in Threads, (read[t] # NotRead /\ ~spurious[t])'
             PROVE  (/\ Completed
                     /\ read[t] = ResultOf(m_state, m_storeData, m_exceptionPtr)
                     /\ read[t] # Unwritten)'
  BY DEF ResultIsOutcome
<1>1. CASE result(t)
  <2>1. Completed /\ HasStore
    BY <1>1 DEF result, WaitingInv, Waiting, Completed, TypeOK
  <2>2. read'[t] = ResultOf(m_state, m_storeData, m_exceptionPtr) /\ UNCHANGED future
    BY <1>1 DEF result, TypeOK
  <2>3. ResultOf(m_state, m_storeData, m_exceptionPtr) # Unwritten
    <3>1. m_exceptionPtr # NoException => m_exceptionPtr # Unwritten
      BY FutureAssumption DEF TypeOK, Nulls
    <3>2. m_state = "Finished" => m_storeData # Unwritten
      BY <2>1 DEF StoreInv
    <3> QED BY <2>1, <3>1, <3>2, FutureAssumption DEF ResultOf, Completed, TypeOK
  <2> QED BY <2>1, <2>2, <2>3 DEF Completed, future
<1>2. CASE ~result(t)
  <2>1. read[t] # NotRead /\ ~spurious[t] /\ read'[t] = read[t]
    BY <1>2 DEF Next, Report, Listen, Await, Complete, reportErrorCode, reportException,
                reportCanceled, reportFinished, reportFinishedTooLate, reportResult,
                addListener, removeListener, WaitDone, WaitResult, wait, WakeUp,
                SpuriousWakeUp, result, postEvent, reading, vars, TypeOK, WaitingInv
  <2>2. Completed /\ UNCHANGED future
    BY <2>1, FinalStep DEF ResultIsOutcome
  <2> QED BY <2>1, <2>2 DEF ResultIsOutcome, Completed, future
<1> QED BY <1>1, <1>2

------------------------------------------------------------------------------
\* Now the parts about listeners. A registration is in exactly one place, so
\* they are proved together: Tells names them.
Tells == /\ PostingInv /\ SignalInv /\ ToldTheOutcome
         /\ NoListenerLost /\ ToldAtMostOnce

\* The completion moves every listed registration to the completing thread.
LEMMA CompleteTells ==
    ASSUME FutureInv, NEW t \in Threads, NEW which \in {"Finished", "Canceled"}, NEW e,
           Complete(t, which, e), pc[t] # "posting",
           e = FutureEvent(which, m_errorCode', m_exceptionPtr')
    PROVE  Tells'
<1> TypeOK /\ Tells
  BY DEF FutureInv, Tells
<1>1. /\ m_state = "Pending" /\ m_state' = which /\ m_signal' = {}
      /\ tempSignal' = [tempSignal EXCEPT ![t] = m_signal]
      /\ event' = [event EXCEPT ![t] = e]
      /\ pc' = [pc EXCEPT ![t] = IF m_signal = {} THEN "idle" ELSE "posting"]
      /\ UNCHANGED <<m_storeData, added, removed, dropped, posts, told>>
  BY DEF Complete, switchStateTo, sendEvent, StartPosting, telling
<1>2. \A u \in Threads : pc[u] # "posting" /\ tempSignal[u] = {}
  BY <1>1 DEF Tells, PostingInv, Completed
<1>3. \A l \in Listeners : posts[l] = 0
  BY <1>1 DEF Tells, ToldTheOutcome, Completed, TypeOK
<1>4. Seen(e, m_storeData)' = Outcome'
  BY <1>1 DEF Outcome
<1>5. PostingInv'
  <2>1. \A u \in Threads : tempSignal'[u] = IF u = t THEN m_signal ELSE {}
    BY <1>1, <1>2 DEF TypeOK
  <2>2. \A u \in Threads : pc'[u] = "posting" <=> u = t /\ m_signal # {}
    BY <1>1, <1>2 DEF TypeOK
  <2>3. event'[t] = e
    BY <1>1 DEF TypeOK
  <2>4. m_signal \subseteq added \ removed
    BY DEF Tells, SignalInv
  <2> QED BY <1>1, <1>3, <1>4, <2>1, <2>2, <2>3, <2>4 DEF PostingInv, Completed, TypeOK
<1>6. SignalInv'
  BY <1>1 DEF Tells, SignalInv
<1>7. ToldTheOutcome' /\ ToldAtMostOnce'
  BY <1>1, <1>3 DEF ToldTheOutcome, ToldAtMostOnce
<1>8. NoListenerLost'
  <2>1. \A l \in added \ removed : l \in m_signal
    BY <1>1 DEF Tells, NoListenerLost, Completed
  <2>2. tempSignal'[t] = m_signal
    BY <1>1 DEF TypeOK
  <2> QED BY <1>1, <2>1, <2>2 DEF NoListenerLost, Completed
<1> QED BY <1>5, <1>6, <1>7, <1>8 DEF Tells

\* Steps that leave the listeners alone, and the future if it completed.
LEMMA QuietTells ==
    ASSUME FutureInv, [Next]_vars,
           UNCHANGED <<m_state, m_signal, tempSignal, event, added, removed, telling>>,
           \A t \in Threads : pc'[t] = "posting" <=> pc[t] = "posting"
    PROVE  Tells'
<1> TypeOK /\ Tells
  BY DEF FutureInv, Tells
<1>1. Completed' = Completed /\ (Completed => UNCHANGED future /\ Outcome' = Outcome)
  BY FinalStep, OutcomeFinal DEF Completed
<1>2. PostingInv'
  <2>1. Completed => m_storeData' = m_storeData
    BY <1>1 DEF future
  <2>2. \A t \in Threads : pc[t] = "posting" => Seen(event[t], m_storeData)' = Seen(event[t], m_storeData)
    BY <2>1 DEF Tells, PostingInv
  <2> QED BY <1>1, <2>2 DEF Tells, PostingInv, telling
<1>3. SignalInv' /\ ToldAtMostOnce'
  BY <1>1 DEF Tells, SignalInv, ToldAtMostOnce, telling
<1>4. ToldTheOutcome' /\ NoListenerLost'
  BY <1>1 DEF Tells, ToldTheOutcome, NoListenerLost, telling
<1> QED BY <1>2, <1>3, <1>4 DEF Tells

\* A thread posts one event: the rest of its list stays its own, or is
\* dropped when the listener threw.
LEMMA PostTells ==
    ASSUME FutureInv, [Next]_vars, NEW t \in Threads, NEW l \in Listeners, postEvent(t, l)
    PROVE  Tells'
<1> TypeOK /\ Tells
  BY DEF FutureInv, Tells
<1> DEFINE rest == tempSignal[t] \ {l}
           left == IF l \in Throwers THEN {} ELSE rest
<1>1. /\ pc[t] = "posting" /\ l \in tempSignal[t]
      /\ posts' = [posts EXCEPT ![l] = @ + 1]
      /\ told' = [told EXCEPT ![l] = Seen(event[t], m_storeData)]
      /\ dropped' = dropped \cup (rest \ left)
      /\ tempSignal' = [tempSignal EXCEPT ![t] = left]
      /\ event' = [event EXCEPT ![t] = event[t]]
      /\ pc' = [pc EXCEPT ![t] = IF left = {} THEN "idle" ELSE "posting"]
      /\ UNCHANGED <<m_signal, added, removed>>
  BY DEF postEvent, StartPosting
<1>2. Completed /\ UNCHANGED future /\ Completed' /\ Outcome' = Outcome
  BY <1>1, FinalStep, OutcomeFinal DEF Tells, PostingInv
<1>3. Seen(event[t], m_storeData) = Outcome /\ posts[l] = 0 /\ l \in added \ removed
  BY <1>1 DEF Tells, PostingInv
<1>4. left \subseteq tempSignal[t] \ {l}
  OBVIOUS
<1>5. PostingInv'
  <2>1. \A u \in Threads : tempSignal'[u] \subseteq tempSignal[u] \ {l}
    BY <1>1, <1>4 DEF Tells, PostingInv, TypeOK
  <2>2. \A u \in Threads : /\ pc'[u] = "posting" => pc[u] = "posting"
                           /\ tempSignal'[u] # {} <=> pc'[u] = "posting"
    BY <1>1 DEF Tells, PostingInv, TypeOK
  <2>3. event' = event /\ m_storeData' = m_storeData
    BY <1>1, <1>2 DEF TypeOK, future
  <2>4. \A u \in Threads : pc'[u] = "posting" => Seen(event[u], m_storeData)' = Outcome'
    BY <1>2, <2>2, <2>3 DEF Tells, PostingInv
  <2>5. \A u \in Threads : \A k \in tempSignal'[u] : k \in added' \ removed' /\ posts'[k] = 0
    BY <1>1, <2>1 DEF Tells, PostingInv, TypeOK
  <2> QED BY <1>2, <2>1, <2>2, <2>4, <2>5 DEF Tells, PostingInv
<1>6. SignalInv'
  <2>1. Outcome # NotTold
    BY <1>2, OutcomeIsNews, NotToldAssumption
  <2>2. \A k \in Listeners : /\ posts'[k] > 0 => k \in added
                             /\ posts'[k] = 0 <=> told'[k] = NotTold
    BY <1>1, <1>3, <2>1 DEF Tells, SignalInv, TypeOK
  <2> QED BY <1>1, <1>2, <2>2 DEF Tells, SignalInv, Completed
<1>7. ToldTheOutcome' /\ ToldAtMostOnce'
  BY <1>1, <1>2, <1>3 DEF Tells, ToldTheOutcome, ToldAtMostOnce, TypeOK
<1>8. NoListenerLost'
  <2> SUFFICES ASSUME NEW k \in added \ removed
               PROVE  \/ posts'[k] > 0 \/ k \in dropped'
                      \/ \E u \in Threads : k \in tempSignal'[u]
    BY <1>1, <1>2 DEF NoListenerLost
  <2>1. CASE k = l
    BY <1>1, <1>3, <2>1 DEF TypeOK
  <2>2. CASE k # l /\ k \in tempSignal[t]
    BY <1>1, <2>2 DEF TypeOK
  <2>3. CASE k # l /\ k \notin tempSignal[t]
    <3>1. \/ posts[k] > 0 \/ k \in dropped \/ \E u \in Threads : u # t /\ k \in tempSignal[u]
      BY <1>2, <2>3 DEF Tells, NoListenerLost
    <3> QED BY <1>1, <2>3, <3>1 DEF TypeOK
  <2> QED BY <2>1, <2>2, <2>3
<1> QED BY <1>5, <1>6, <1>7, <1>8 DEF Tells

\* A registration goes to the list of a pending future, or to the list of the
\* thread that makes it when the future completed.
LEMMA AddTells ==
    ASSUME FutureInv, [Next]_vars, NEW t \in Threads, NEW l \in Listeners, addListener(t, l)
    PROVE  Tells'
<1> TypeOK /\ Tells
  BY DEF FutureInv, Tells
<1>1. /\ pc[t] = "idle" /\ l \notin added /\ added' = added \cup {l}
      /\ UNCHANGED <<future, removed, dropped, posts, told>>
      /\ Completed' = Completed /\ Outcome' = Outcome
  BY DEF addListener, future, telling, Completed, Outcome
<1>2. /\ posts[l] = 0 /\ l \notin removed /\ l \notin m_signal
      /\ \A u \in Threads : l \notin tempSignal[u]
      /\ tempSignal[t] = {}
  BY <1>1 DEF Tells, PostingInv, SignalInv, TypeOK
<1>3. ToldTheOutcome' /\ ToldAtMostOnce'
  BY <1>1 DEF Tells, ToldTheOutcome, ToldAtMostOnce
<1>4. CASE m_state = "Pending"
  <2>1. m_signal' = m_signal \cup {l} /\ UNCHANGED threads
    BY <1>4 DEF addListener
  <2>2. PostingInv'
    BY <1>1, <1>2, <2>1 DEF Tells, PostingInv, threads, future
  <2>3. SignalInv'
    BY <1>1, <1>2, <1>4, <2>1 DEF Tells, SignalInv, Completed
  <2>4. NoListenerLost'
    BY <1>1, <1>4, <2>1 DEF Tells, NoListenerLost, Completed, threads
  <2> QED BY <1>3, <2>2, <2>3, <2>4 DEF Tells
<1>5. CASE m_state # "Pending"
  <2> DEFINE e == IF m_state = "Canceled"
                  THEN FutureEvent("Canceled", m_errorCode, m_exceptionPtr)
                  ELSE FutureEvent("Finished", NoError, NoException)
  <2>1. /\ tempSignal' = [tempSignal EXCEPT ![t] = {l}]
        /\ event' = [event EXCEPT ![t] = e]
        /\ pc' = [pc EXCEPT ![t] = "posting"]
        /\ m_signal' = m_signal
    BY <1>5 DEF addListener, StartPosting
  <2>2. Seen(e, m_storeData) = Outcome
    BY <1>5 DEF Outcome, TypeOK, FutureInv, StoreInv
  <2>3. PostingInv'
    <3>1. \A u \in Threads : /\ tempSignal'[u] = IF u = t THEN {l} ELSE tempSignal[u]
                             /\ pc'[u] = IF u = t THEN "posting" ELSE pc[u]
                             /\ event'[u] = IF u = t THEN e ELSE event[u]
      BY <2>1 DEF TypeOK
    <3>2. \A u \in Threads : pc'[u] = "posting" => Seen(event[u], m_storeData)' = Outcome'
      BY <1>1, <2>2, <3>1 DEF Tells, PostingInv, future
    <3>3. \A u \in Threads : \A k \in tempSignal'[u] : k \in added' \ removed' /\ posts'[k] = 0
      BY <1>1, <1>2, <3>1 DEF Tells, PostingInv
    <3>4. \A u, v \in Threads : u # v => tempSignal'[u] \cap tempSignal'[v] = {}
      BY <1>2, <3>1 DEF Tells, PostingInv
    <3> QED BY <1>1, <1>5, <3>1, <3>2, <3>3, <3>4 DEF Tells, PostingInv, Completed
  <2>4. SignalInv'
    BY <1>1, <2>1 DEF Tells, SignalInv
  <2>5. NoListenerLost'
    <3>1. l \in tempSignal'[t] /\ \A u \in Threads : tempSignal[u] \subseteq tempSignal'[u]
      BY <1>2, <2>1 DEF TypeOK
    <3> QED BY <1>1, <1>5, <3>1 DEF Tells, NoListenerLost, Completed
  <2> QED BY <1>3, <2>3, <2>4, <2>5 DEF Tells
<1> QED BY <1>4, <1>5

\* removeListener only takes out of the list what nobody was told.
LEMMA RemoveTells ==
    ASSUME FutureInv, [Next]_vars, NEW t \in Threads, NEW l \in Listeners, removeListener(t, l)
    PROVE  Tells'
<1> TypeOK /\ Tells
  BY DEF FutureInv, Tells
<1>1. /\ m_signal' = m_signal \ {l} /\ removed' = removed \cup (m_signal \cap {l})
      /\ UNCHANGED <<future, threads, added, telling>>
      /\ Completed' = Completed /\ Outcome' = Outcome
  BY DEF removeListener, future, Completed, Outcome
<1>2. Completed => m_signal = {} /\ removed' = removed
  BY <1>1 DEF Tells, SignalInv
<1>3. \A k \in m_signal : posts[k] = 0 /\ k \in added
  BY <1>2 DEF Tells, ToldTheOutcome, SignalInv, TypeOK
<1>4. \A u \in Threads : tempSignal[u] # {} => Completed
  BY DEF Tells, PostingInv
<1>5. PostingInv'
  BY <1>1, <1>2, <1>4 DEF Tells, PostingInv, future, threads, telling
<1>6. SignalInv' /\ ToldTheOutcome'
  BY <1>1, <1>3 DEF Tells, SignalInv, ToldTheOutcome, telling
<1>7. NoListenerLost' /\ ToldAtMostOnce'
  BY <1>1, <1>3 DEF Tells, NoListenerLost, ToldAtMostOnce, telling, threads
<1> QED BY <1>5, <1>6, <1>7 DEF Tells

LEMMA TellsStep ==
    ASSUME FutureInv, [Next]_vars
    PROVE  Tells'
<1> TypeOK
  BY DEF FutureInv
<1>1. ASSUME NEW t \in Threads, Report(t)
      PROVE  Tells'
  <2>1. CASE \E code \in Errors : reportErrorCode(t, code)
    <3> PICK code \in Errors : reportErrorCode(t, code)
      BY <2>1
    <3>1. FutureEvent("Canceled", code, NoException)
             = FutureEvent("Canceled", m_errorCode', m_exceptionPtr')
      BY DEF reportErrorCode, FutureInv, StoreInv, Complete, switchStateTo
    <3> QED BY <3>1, CompleteTells DEF reportErrorCode
  <2>2. CASE \E exc \in Exceptions : reportException(t, exc)
    <3> PICK exc \in Exceptions : reportException(t, exc)
      BY <2>2
    <3>1. FutureEvent("Canceled", NoError, exc)
             = FutureEvent("Canceled", m_errorCode', m_exceptionPtr')
      BY DEF reportException, FutureInv, StoreInv, Complete, switchStateTo
    <3> QED BY <3>1, CompleteTells DEF reportException
  <2>3. CASE reportCanceled(t) \/ reportFinished(t)
    <3> DEFINE which == IF reportCanceled(t) THEN "Canceled" ELSE "Finished"
    <3>1. FutureEvent(which, NoError, NoException)
             = FutureEvent(which, m_errorCode', m_exceptionPtr')
      BY <2>3 DEF reportCanceled, reportFinished, FutureInv, StoreInv, Complete, switchStateTo
    <3>2. Complete(t, which, FutureEvent(which, NoError, NoException)) /\ pc[t] # "posting"
      BY <2>3 DEF reportCanceled, reportFinished
    <3> QED BY <3>1, <3>2, CompleteTells
  <2>4. CASE (\E v \in Values : reportResult(t, v)) \/ reportFinishedTooLate(t)
    <3>1. /\ UNCHANGED <<m_state, m_signal, tempSignal, event, added, removed, telling>>
          /\ \A u \in Threads : pc'[u] = "posting" <=> pc[u] = "posting"
      BY <2>4 DEF reportResult, reportFinishedTooLate, future, TypeOK
    <3> QED BY <3>1, QuietTells
  <2> QED BY <1>1, <2>1, <2>2, <2>3, <2>4 DEF Report
<1>2. ASSUME NEW t \in Threads, Listen(t)
      PROVE  Tells'
  BY <1>2, AddTells, RemoveTells DEF Listen
<1>3. ASSUME NEW t \in Threads, Await(t)
      PROVE  Tells'
  <2>1. /\ UNCHANGED <<m_state, m_signal, tempSignal, event, added, removed, telling>>
        /\ \A u \in Threads : pc'[u] = "posting" <=> pc[u] = "posting"
    BY <1>3 DEF Await, WaitDone, WaitResult, wait, WakeUp, SpuriousWakeUp, result,
                Waiting, future, threads, TypeOK
  <2> QED BY <2>1, QuietTells
<1>4. ASSUME NEW t \in Threads, NEW l \in Listeners, postEvent(t, l)
      PROVE  Tells'
  BY <1>4, PostTells
<1>5. CASE UNCHANGED vars
  BY <1>5, QuietTells DEF vars, future, threads
<1> QED BY <1>1, <1>2, <1>3, <1>4, <1>5 DEF Next

------------------------------------------------------------------------------
LEMMA FutureInit == Init => FutureInv
<1> SUFFICES ASSUME Init PROVE FutureInv
  OBVIOUS
<1>1. TypeOK
  BY TypeInit
<1>2. PostingInv /\ SignalInv
  BY DEF Init, PostingInv, SignalInv
<1>3. StoreInv /\ WaitingInv
  BY DEF Init, StoreInv, WaitingInv, Waiting
<1>4. ToldTheOutcome /\ NoListenerLost /\ ToldAtMostOnce /\ NoStrandedWaiter /\ ResultIsOutcome
  BY DEF Init, ToldTheOutcome, NoListenerLost, ToldAtMostOnce, NoStrandedWaiter,
         ResultIsOutcome
<1> QED BY <1>1, <1>2, <1>3, <1>4 DEF FutureInv

\* The invariant of FutureInterface: it holds initially and every step of every
\* thread keeps it.
THEOREM Invariant == Spec => []FutureInv
<1>1. FutureInv /\ [Next]_vars => FutureInv'
  <2> SUFFICES ASSUME FutureInv, [Next]_vars PROVE FutureInv'
    OBVIOUS
  <2> QED BY TypeStep, StoreStep, WaitingStep, ResultStep, TellsStep DEF FutureInv, Tells
<1> QED BY <1>1, FutureInit, PTL DEF Spec

\* Every listener that is told anything is told the outcome the future keeps,
\* whichever of the racing reports won and however late the listener came.
THEOREM ListenersAgree == Spec => []ToldTheOutcome
<1>1. FutureInv => ToldTheOutcome
  BY DEF FutureInv
<1> QED BY <1>1, Invariant, PTL

\* No registration slips between the list, the swap and the late path, and none
\* is served twice or after it was removed.
THEOREM ListenersServedOnce == Spec => [](NoListenerLost /\ ToldAtMostOnce)
<1>1. FutureInv => NoListenerLost /\ ToldAtMostOnce
  BY DEF FutureInv
<1> QED BY <1>1, Invariant, PTL

\* No thread sleeps in a completed future, and one that comes back from
\* result() without a spurious wakeup brings the outcome.
THEOREM WaitersServed == Spec => [](NoStrandedWaiter /\ ResultIsOutcome)
<1>1. FutureInv => NoStrandedWaiter /\ ResultIsOutcome
  BY DEF FutureInv
<1> QED BY <1>1, Invariant, PTL

\* A completed future never changes: not its state, its error, its exception
\* nor the storage that listeners read outside the mutex.
THEOREM Final == Spec => CompletionIsFinal
<1>1. [Next]_vars => [Completed => UNCHANGED future]_vars
  BY FinalStep
<1> QED BY <1>1, PTL DEF Spec, CompletionIsFinal

\* FutureInterface implements Promise: reports settle it, registrations
\* subscribe, effective removals withdraw and posts tell.
THEOREM ImplementsPromise == Spec => PromiseSpec
<1>1. Init => P!Init
  <2> SUFFICES ASSUME Init PROVE P!Init
    OBVIOUS
  <2>1. TypeOK /\ told = [l \in Listeners |-> NotTold] /\ added \ removed = {}
    BY TypeInit DEF Init
  <2> QED BY <2>1, OutcomeIsNews DEF P!Init
<1>2. FutureInv /\ FutureInv' /\ [Next]_vars => [P!Next]_P!promiseVars
  <2> SUFFICES ASSUME FutureInv, FutureInv', [Next]_vars
               PROVE  P!Next \/ UNCHANGED P!promiseVars
    OBVIOUS
  <2> TypeOK /\ TypeOK'
    BY DEF FutureInv
  <2>1. ASSUME UNCHANGED <<added, removed, told>>, Completed' <=> Completed
        PROVE  UNCHANGED P!promiseVars
    BY <2>1, OutcomeFinal DEF P!promiseVars
  <2>2. ASSUME NEW t \in Threads, Report(t)
        PROVE  P!Next \/ UNCHANGED P!promiseVars
    <3>1. ASSUME NEW which \in {"Finished", "Canceled"}, NEW e, Complete(t, which, e)
          PROVE  P!Next
      <4>1. ~Completed /\ Completed' /\ UNCHANGED <<added, removed, told>>
        BY <3>1 DEF Complete, switchStateTo, Completed, telling
      <4>2. Outcome' \in News
        <5> DEFINE news == FutureEvent(m_state', m_errorCode', m_exceptionPtr')
        <5>1. news \in FutureEvents /\ news.event # "None"
          BY <4>1 DEF TypeOK, Completed, FutureEvent, FutureEvents
        <5> QED BY <5>1, SeenIsNews DEF Outcome, TypeOK
      <4>3. P!Settle(Outcome')
        BY <4>1 DEF P!Settle
      <4> QED BY <4>2, <4>3 DEF P!Next
    <3>2. CASE \/ \E code \in Errors : reportErrorCode(t, code)
               \/ \E exc \in Exceptions : reportException(t, exc)
               \/ reportCanceled(t) \/ reportFinished(t)
      BY <3>1, <3>2 DEF reportErrorCode, reportException, reportCanceled, reportFinished
    <3>3. CASE (\E v \in Values : reportResult(t, v)) \/ reportFinishedTooLate(t)
      BY <2>1, <3>3 DEF reportResult, reportFinishedTooLate, future, telling, Completed
    <3> QED BY <2>2, <3>2, <3>3 DEF Report
  <2>3. ASSUME NEW t \in Threads, NEW l \in Listeners, addListener(t, l)
        PROVE  P!Next
    <3>1. l \notin added \ removed /\ added' \ removed' = (added \ removed) \cup {l}
      BY <2>3 DEF addListener, FutureInv, SignalInv
    <3>2. UNCHANGED told /\ (Completed' <=> Completed) /\ Outcome' = Outcome
      BY <2>3 DEF addListener, telling, future, Completed, Outcome
    <3> QED BY <3>1, <3>2 DEF P!Subscribe, P!Next
  <2>4. ASSUME NEW t \in Threads, NEW l \in Listeners, removeListener(t, l)
        PROVE  P!Next \/ UNCHANGED P!promiseVars
    <3>1. UNCHANGED <<told, added>> /\ (Completed' <=> Completed) /\ Outcome' = Outcome
      BY <2>4 DEF removeListener, telling, future, Completed, Outcome
    <3>2. CASE l \in m_signal
      <4>1. ~Completed /\ l \in added \ removed /\ removed' = removed \cup {l}
        BY <2>4, <3>2 DEF removeListener, FutureInv, SignalInv
      <4> QED BY <3>1, <4>1 DEF P!Withdraw, P!Next
    <3>3. CASE l \notin m_signal
      BY <2>1, <2>4, <3>1, <3>3 DEF removeListener
    <3> QED BY <3>2, <3>3
  <2>5. ASSUME NEW t \in Threads, Await(t)
        PROVE  UNCHANGED P!promiseVars
    BY <2>1, <2>5 DEF Await, WaitDone, WaitResult, wait, WakeUp, SpuriousWakeUp, result,
                      future, telling, Completed
  <2>6. ASSUME NEW t \in Threads, NEW l \in Listeners, postEvent(t, l)
        PROVE  P!Next
    <3>1. Completed /\ Completed' /\ Outcome' = Outcome /\ UNCHANGED <<added, removed>>
      BY <2>6, OutcomeFinal DEF postEvent, FutureInv, PostingInv
    <3>2. l \in added \ removed /\ told[l] = NotTold
      BY <2>6 DEF postEvent, FutureInv, PostingInv, SignalInv
    <3>3. told' = [told EXCEPT ![l] = Outcome]
      BY <2>6 DEF postEvent, FutureInv, PostingInv
    <3>4. Outcome # NotTold
      BY <3>1, OutcomeIsNews, NotToldAssumption
    <3> QED BY <3>1, <3>2, <3>3, <3>4 DEF P!Tell, P!Next
  <2>7. CASE UNCHANGED vars
    BY <2>1, <2>7 DEF vars, future, telling, Completed
  <2> QED BY <2>2, <2>3, <2>4, <2>5, <2>6, <2>7 DEF Next, Listen
<1> QED BY <1>1, <1>2, Invariant, PTL DEF Spec, PromiseSpec, P!Spec

==============================================================================
