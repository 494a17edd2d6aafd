---------------------- MODULE ExecutorAndRouter_proofs ------------------------
(***************************************************************************)
(* Theorems about the two small components that threads and handlers are   *)
(* served by: SingleThreadExecutor, what never runs, for any number of     *)
(* threads and tasks, whichever of them throw or are delayed; and          *)
(* TemporaryRouter, no registration is lost or served twice, and a post    *)
(* reaches what it owes, for any routes, masks and handlers, with any      *)
(* number of loops under way at once. They share nothing but this module.  *)
(***************************************************************************)
EXTENDS SingleThreadExecutor, TemporaryRouter, SequenceTheorems, TLAPS

------------------------------------------------------------------------------
\* SingleThreadExecutor. A task canceled in time never runs because a task is in one
\* place at a time: with nobody, with the thread about to post it, in its timer, in
\* one handler of the queue, or begun (OnePlace).

InQueue(k) == \E i \in 1..Len(queue) : queue[i].task = k

FreshInv ==
    \A k \in fresh : k \notin timers \cup ran \cup canceled /\ ~InQueue(k)

GivenInv ==
    \A t \in Threads : \A k \in given[t] :
        /\ k \notin fresh \cup timers \cup ran \cup canceled /\ ~InQueue(k)
        /\ \A u \in Threads : k \in given[u] => u = t

TimersInv == \A k \in timers : k \notin ran \cup canceled /\ ~InQueue(k)

\* A handler is queued once, as aborted if its timer was canceled.
QueueInv ==
    /\ \A i, j \in 1..Len(queue) : queue[i].task = queue[j].task => i = j
    /\ \A i \in 1..Len(queue) : ~queue[i].aborted => queue[i].task \notin ran \cup canceled

OnePlace == FreshInv /\ GivenInv /\ TimersInv /\ QueueInv

\* The executor's thread is in a handler exactly while it is in a task, and was
\* joined only when it had ended.
WorkerInv ==
    /\ current # <<>> <=> worker = "inTask"
    /\ joined => worker = "ended"

ExecutorIInv == ExecutorTypeOK /\ CanceledNeverRuns /\ OnePlace /\ WorkerInv

------------------------------------------------------------------------------
LEMMA ExecutorInitially == ExecutorInit => ExecutorIInv
<1> SUFFICES ASSUME ExecutorInit PROVE ExecutorIInv
  OBVIOUS
<1>1. queue \in Seq(Handlers) /\ Len(queue) = 0 /\ 1..Len(queue) = {}
  BY DEF ExecutorInit
<1>2. OnePlace
  BY <1>1 DEF ExecutorInit, OnePlace, FreshInv, GivenInv, TimersInv, QueueInv, InQueue
<1>3. ExecutorTypeOK
  BY <1>1 DEF ExecutorInit, ExecutorTypeOK
<1> QED BY <1>2, <1>3 DEF ExecutorInit, ExecutorIInv, CanceledNeverRuns, WorkerInv

\* The task at the head of the queue is nowhere else in it.
LEMMA HeadOnce ==
    ASSUME ExecutorTypeOK, QueueInv, queue # <<>>
    PROVE  /\ Head(queue) \in Handlers /\ Tail(queue) \in Seq(Handlers)
           /\ 1 \in 1..Len(queue) /\ Head(queue) = queue[1]
           /\ \A i \in 1..Len(Tail(queue)) :
                 /\ i + 1 \in 1..Len(queue) /\ Tail(queue)[i] = queue[i + 1]
                 /\ Tail(queue)[i].task # Head(queue).task
           /\ \A i, j \in 1..Len(Tail(queue)) :
                 Tail(queue)[i].task = Tail(queue)[j].task => i = j
<1>1. /\ Head(queue) \in Handlers /\ Tail(queue) \in Seq(Handlers)
      /\ Len(queue) \in Nat \ {0} /\ Len(Tail(queue)) = Len(queue) - 1
      /\ Head(queue) = queue[1]
      /\ \A i \in 1..Len(Tail(queue)) : Tail(queue)[i] = queue[i + 1]
  BY HeadTailProperties, EmptySeq DEF ExecutorTypeOK
<1>2. \A i \in 1..Len(Tail(queue)) : i + 1 \in 1..Len(queue) /\ i + 1 # 1
  BY <1>1
<1>3. \A i \in 1..Len(Tail(queue)) : Tail(queue)[i].task # Head(queue).task
  BY <1>1, <1>2 DEF QueueInv
<1>4. \A i, j \in 1..Len(Tail(queue)) : Tail(queue)[i].task = Tail(queue)[j].task => i = j
  <2> SUFFICES ASSUME NEW i \in 1..Len(Tail(queue)), NEW j \in 1..Len(Tail(queue)),
                      Tail(queue)[i].task = Tail(queue)[j].task
               PROVE  i = j
    OBVIOUS
  <2>1. i + 1 = j + 1
    BY <1>1, <1>2 DEF QueueInv
  <2> QED BY <2>1, <1>1
<1> QED BY <1>1, <1>2, <1>3, <1>4

\* A handler whose task is nowhere else is queued.
LEMMA Queued ==
    ASSUME ExecutorTypeOK, QueueInv, NEW k \in Tasks, NEW aborted \in BOOLEAN, ~InQueue(k),
           queue' = Append(queue, [task |-> k, aborted |-> aborted])
    PROVE  /\ queue' \in Seq(Handlers)
           /\ \A i \in 1..Len(queue') :
                 \/ i \in 1..Len(queue) /\ queue'[i] = queue[i]
                 \/ queue'[i].task = k /\ (queue'[i].aborted <=> aborted)
           /\ \A i, j \in 1..Len(queue') : queue'[i].task = queue'[j].task => i = j
           /\ \A m : InQueue(m)' => InQueue(m) \/ m = k
<1> DEFINE x == [task |-> k, aborted |-> aborted]
<1>1. x \in Handlers /\ x.task = k /\ (x.aborted <=> aborted)
  BY DEF Handlers
<1>2. queue' = Append(queue, x) /\ queue \in Seq(Handlers)
  BY DEF ExecutorTypeOK
<1> HIDE DEF x
<1>3. /\ queue' \in Seq(Handlers) /\ Len(queue) \in Nat /\ Len(queue') = Len(queue) + 1
      /\ \A i \in 1..Len(queue) : queue'[i] = queue[i]
      /\ queue'[Len(queue) + 1] = x
  BY <1>1, <1>2
<1>4. \A i \in 1..Len(queue') : i \in 1..Len(queue) \/ i = Len(queue) + 1
  BY <1>3
<1>5. \A i, j \in 1..Len(queue') : queue'[i].task = queue'[j].task => i = j
  BY <1>1, <1>3, <1>4 DEF QueueInv, InQueue
<1>6. \A m : InQueue(m)' => InQueue(m) \/ m = k
  BY <1>1, <1>3, <1>4 DEF InQueue
<1> QED BY <1>1, <1>3, <1>4, <1>5, <1>6

------------------------------------------------------------------------------
\* The executor's thread.
LEMMA HandleStep == ASSUME ExecutorIInv, Handle PROVE ExecutorIInv'
<1>0. ExecutorTypeOK /\ CanceledNeverRuns /\ OnePlace /\ WorkerInv /\ queue # <<>> /\ queue' = Tail(queue)
  BY DEF ExecutorIInv, Handle
<1>1. /\ Head(queue) \in Handlers /\ queue' \in Seq(Handlers)
      /\ 1 \in 1..Len(queue) /\ Head(queue) = queue[1]
      /\ \A i \in 1..Len(queue') : /\ i + 1 \in 1..Len(queue) /\ queue'[i] = queue[i + 1]
                                   /\ queue'[i].task # Head(queue).task
      /\ \A i, j \in 1..Len(queue') : queue'[i].task = queue'[j].task => i = j
  BY <1>0, HeadOnce DEF OnePlace
<1>2. \A m : InQueue(m)' => InQueue(m) /\ m # Head(queue).task
  BY <1>1 DEF InQueue
<1>3. InQueue(Head(queue).task) /\ Head(queue).task \in Tasks
  BY <1>1 DEF InQueue, Handlers
<1>4. CASE Head(queue).aborted /\ UNCHANGED <<worker, current, ran>>
  <2>1. OnePlace'
    BY <1>0, <1>1, <1>2, <1>4 DEF OnePlace, FreshInv, GivenInv, TimersInv, QueueInv, Handle
  <2> QED BY <1>0, <1>1, <1>4, <2>1 DEF ExecutorIInv, ExecutorTypeOK, WorkerInv, CanceledNeverRuns, Handle
<1>5. CASE /\ ~Head(queue).aborted /\ worker' = "inTask" /\ current' = <<Head(queue)>>
           /\ ran' = ran \cup {Head(queue).task}
  <2>1. Head(queue).task \notin ran \cup canceled
    BY <1>0, <1>1, <1>5 DEF OnePlace, QueueInv
  <2>2. OnePlace'
    BY <1>0, <1>1, <1>2, <1>3, <1>5, <2>1
       DEF OnePlace, FreshInv, GivenInv, TimersInv, QueueInv, Handle
  <2>3. CanceledNeverRuns'
    BY <1>0, <1>5, <2>1 DEF CanceledNeverRuns, Handle
  <2>4. WorkerInv'
    BY <1>0, <1>5 DEF WorkerInv, Handle
  <2>5. ExecutorTypeOK'
    BY <1>0, <1>1, <1>3, <1>5 DEF ExecutorTypeOK, Handle
  <2> QED BY <2>2, <2>3, <2>4, <2>5 DEF ExecutorIInv
<1> QED BY <1>4, <1>5 DEF Handle

\* The rest of run() touches no task.
LEMMA RunStep == ASSUME ExecutorIInv, Start \/ Loop \/ RunReturns \/ TaskEnds \/ RunEnds PROVE ExecutorIInv'
<1>1. \A m : InQueue(m)' <=> InQueue(m)
  BY DEF InQueue, Start, Loop, RunReturns, TaskEnds, RunEnds, context
<1>2. OnePlace' /\ CanceledNeverRuns'
  BY <1>1 DEF ExecutorIInv, OnePlace, FreshInv, GivenInv, TimersInv, QueueInv, CanceledNeverRuns,
              Start, Loop, RunReturns, TaskEnds, RunEnds, context
<1>3. WorkerInv'
  BY DEF ExecutorIInv, WorkerInv, Start, Loop, RunReturns, TaskEnds, RunEnds, context
<1>4. ExecutorTypeOK'
  BY DEF ExecutorIInv, ExecutorTypeOK, Start, Loop, RunReturns, TaskEnds, RunEnds, context
<1> QED BY <1>2, <1>3, <1>4 DEF ExecutorIInv

\* A task gives the executor another one.
LEMMA ExecuteInTaskStep ==
    ASSUME ExecutorIInv, NEW k \in Tasks, executeInTask(k)
    PROVE  ExecutorIInv'
<1>0. ExecutorTypeOK /\ CanceledNeverRuns /\ OnePlace /\ WorkerInv /\ k \in fresh /\ worker = "inTask"
  BY DEF ExecutorIInv, executeInTask
<1>1. \A m : InQueue(m)' <=> InQueue(m)
  BY DEF InQueue, executeInTask
<1>2. OnePlace'
  BY <1>0, <1>1 DEF OnePlace, FreshInv, GivenInv, TimersInv, QueueInv, InQueue, executeInTask
<1>3. CanceledNeverRuns'
  BY <1>0 DEF CanceledNeverRuns, OnePlace, FreshInv, executeInTask
<1>4. WorkerInv'
  BY <1>0 DEF WorkerInv, executeInTask
<1>5. ExecutorTypeOK'
  BY <1>0 DEF ExecutorTypeOK, executeInTask
<1> QED BY <1>2, <1>3, <1>4, <1>5 DEF ExecutorIInv

------------------------------------------------------------------------------
\* The threads that use the executor.
LEMMA ExecuteStep ==
    ASSUME ExecutorIInv, NEW t \in Threads, NEW k \in Tasks, execute(t, k)
    PROVE  ExecutorIInv'
<1>0. ExecutorTypeOK /\ CanceledNeverRuns /\ OnePlace /\ WorkerInv /\ k \in fresh
  BY DEF ExecutorIInv, execute
<1>1. \A m : InQueue(m)' <=> InQueue(m)
  BY DEF InQueue, execute, context
<1>2. /\ given' \in [Threads -> SUBSET Tasks]
      /\ \A u \in Threads : given'[u] = given[u] \/ (u = t /\ given'[u] = {k})
      /\ pc' \in [Threads -> {"idle", "posting", "waiting", "asleep", "stopping", "joining"}]
  BY <1>0 DEF ExecutorTypeOK, execute, Goto
<1>3. OnePlace'
  <2>1. GivenInv'
    BY <1>0, <1>1, <1>2 DEF OnePlace, FreshInv, GivenInv, execute, context
  <2> QED BY <1>0, <1>1, <2>1 DEF OnePlace, FreshInv, TimersInv, QueueInv, execute, context
<1>4. ExecutorTypeOK'
  BY <1>0, <1>2 DEF ExecutorTypeOK, execute, context
<1> QED BY <1>0, <1>3, <1>4 DEF ExecutorIInv, CanceledNeverRuns, WorkerInv, execute

\* The task that execute passed on reaches the context.
LEMMA DispatchStep ==
    ASSUME ExecutorIInv, NEW t \in Threads, Dispatch(t)
    PROVE  ExecutorIInv'
<1>0. ExecutorTypeOK /\ CanceledNeverRuns /\ OnePlace /\ WorkerInv
  BY DEF ExecutorIInv
<1>1. PICK k \in given[t] :
         \/ k \in Delayed /\ timers' = timers \cup {k} /\ UNCHANGED queue
         \/ k \notin Delayed /\ queue' = Append(queue, [task |-> k, aborted |-> FALSE]) /\ UNCHANGED timers
  BY DEF Dispatch
<1>2. k \in Tasks /\ ~InQueue(k) /\ k \notin fresh \cup timers \cup ran \cup canceled
  BY <1>0 DEF ExecutorTypeOK, OnePlace, GivenInv
<1>3. /\ given' \in [Threads -> SUBSET Tasks] /\ given'[t] = {}
      /\ \A u \in Threads : u # t => given'[u] = given[u] /\ k \notin given'[u]
      /\ pc' \in [Threads -> {"idle", "posting", "waiting", "asleep", "stopping", "joining"}]
  BY <1>0 DEF ExecutorTypeOK, Dispatch, Goto, OnePlace, GivenInv
<1>4. /\ queue' \in Seq(Handlers)
      /\ \A i \in 1..Len(queue') :
            \/ i \in 1..Len(queue) /\ queue'[i] = queue[i]
            \/ queue'[i].task = k /\ k \notin timers'
      /\ \A i, j \in 1..Len(queue') : queue'[i].task = queue'[j].task => i = j
      /\ \A m : InQueue(m)' => InQueue(m) \/ (m = k /\ k \notin timers')
  <2>1. CASE UNCHANGED queue
    BY <1>0, <2>1 DEF ExecutorTypeOK, OnePlace, QueueInv, InQueue
  <2>2. CASE queue' = Append(queue, [task |-> k, aborted |-> FALSE]) /\ UNCHANGED timers
    BY <1>0, <1>2, <2>2, Queued DEF OnePlace
  <2> QED BY <1>1, <2>1, <2>2
<1>5. timers' \subseteq timers \cup {k} /\ timers' \subseteq Delayed
  BY <1>0, <1>1 DEF ExecutorTypeOK
<1>6. OnePlace'
  <2>1. FreshInv' /\ TimersInv'
    BY <1>0, <1>2, <1>4, <1>5 DEF OnePlace, FreshInv, TimersInv, Dispatch
  <2>2. GivenInv'
    BY <1>0, <1>3, <1>4, <1>5 DEF OnePlace, GivenInv, Dispatch
  <2>3. QueueInv'
    BY <1>0, <1>2, <1>4 DEF OnePlace, QueueInv, Dispatch
  <2> QED BY <2>1, <2>2, <2>3 DEF OnePlace
<1>7. ExecutorTypeOK'
  BY <1>0, <1>3, <1>4, <1>5 DEF ExecutorTypeOK, Dispatch
<1> QED BY <1>0, <1>6, <1>7 DEF ExecutorIInv, CanceledNeverRuns, WorkerInv, Dispatch

\* A timer expires or is canceled.
LEMMA TimerStep ==
    ASSUME ExecutorIInv, NEW k \in Tasks, Expire(k) \/ \E t \in Threads : cancel(t, k)
    PROVE  ExecutorIInv'
<1>0. /\ ExecutorTypeOK /\ CanceledNeverRuns /\ OnePlace /\ WorkerInv
      /\ k \in timers /\ timers' = timers \ {k} /\ k \in Delayed
      /\ UNCHANGED <<closed, stopped, worker, current, captured, joined, pc, given, fresh, ran>>
  BY DEF ExecutorIInv, Expire, cancel, ExecutorTypeOK
<1>1. ~InQueue(k) /\ k \notin ran /\ k \notin fresh /\ \A t \in Threads : k \notin given[t]
  BY <1>0 DEF OnePlace, TimersInv, FreshInv, GivenInv
<1>2. PICK aborted \in BOOLEAN :
         /\ queue' = Append(queue, [task |-> k, aborted |-> aborted])
         /\ ~aborted => canceled' = canceled
         /\ canceled' = canceled \/ canceled' = canceled \cup {k}
  BY DEF Expire, cancel
<1>3. k \notin canceled
  BY <1>0 DEF OnePlace, TimersInv
<1>4. /\ queue' \in Seq(Handlers)
      /\ \A i \in 1..Len(queue') :
            \/ i \in 1..Len(queue) /\ queue'[i] = queue[i]
            \/ queue'[i].task = k /\ (queue'[i].aborted <=> aborted)
      /\ \A i, j \in 1..Len(queue') : queue'[i].task = queue'[j].task => i = j
      /\ \A m : InQueue(m)' => InQueue(m) \/ m = k
  BY <1>0, <1>1, <1>2, Queued DEF OnePlace
<1>5. OnePlace'
  <2>1. FreshInv' /\ GivenInv' /\ TimersInv'
    BY <1>0, <1>1, <1>2, <1>4 DEF OnePlace, FreshInv, GivenInv, TimersInv
  <2>2. \A i \in 1..Len(queue) : queue[i].task # k
    BY <1>1 DEF InQueue
  <2>3. QueueInv'
    BY <1>0, <1>1, <1>2, <1>3, <1>4, <2>2 DEF OnePlace, QueueInv
  <2> QED BY <2>1, <2>3 DEF OnePlace
<1>6. CanceledNeverRuns'
  BY <1>0, <1>1, <1>2 DEF CanceledNeverRuns
<1>7. ExecutorTypeOK'
  BY <1>0, <1>2, <1>4 DEF ExecutorTypeOK
<1> QED BY <1>0, <1>5, <1>6, <1>7 DEF ExecutorIInv, WorkerInv

\* wait() and close() touch no task, and join() waits for the end of the thread.
LEMMA OtherCallsStep ==
    ASSUME ExecutorIInv, NEW t \in Threads,
           wait(t) \/ Sleep(t) \/ SpuriousWakeUp(t) \/ close(t) \/ stop(t) \/ join(t)
    PROVE  ExecutorIInv'
<1>1. \A m : InQueue(m)' <=> InQueue(m)
  BY DEF InQueue, wait, Sleep, SpuriousWakeUp, close, stop, join, context
<1>2. OnePlace' /\ CanceledNeverRuns'
  BY <1>1 DEF ExecutorIInv, OnePlace, FreshInv, GivenInv, TimersInv, QueueInv, CanceledNeverRuns,
              wait, Sleep, SpuriousWakeUp, close, stop, join, context
<1>3. WorkerInv'
  BY DEF ExecutorIInv, WorkerInv, wait, Sleep, SpuriousWakeUp, close, stop, join
<1>4. ExecutorTypeOK'
  BY DEF ExecutorIInv, ExecutorTypeOK, Goto, wait, Sleep, SpuriousWakeUp, close, stop, join, context
<1> QED BY <1>2, <1>3, <1>4 DEF ExecutorIInv

------------------------------------------------------------------------------
LEMMA ExecutorInductive == ExecutorIInv /\ [ExecutorNext]_executorVars => ExecutorIInv'
<1> SUFFICES ASSUME ExecutorIInv, [ExecutorNext]_executorVars PROVE ExecutorIInv'
  OBVIOUS
<1>1. CASE run
  BY <1>1, HandleStep, RunStep DEF run
<1>2. ASSUME NEW t \in Threads, Call(t) \/ GoOn(t) \/ SpuriousWakeUp(t)
      PROVE  ExecutorIInv'
  BY <1>2, ExecuteStep, TimerStep, DispatchStep, OtherCallsStep DEF Call, GoOn
<1>3. ASSUME NEW k \in Tasks, executeInTask(k) \/ Expire(k)
      PROVE  ExecutorIInv'
  BY <1>3, ExecuteInTaskStep, TimerStep
<1>4. CASE UNCHANGED executorVars
  BY <1>4 DEF executorVars, context, ExecutorIInv, ExecutorTypeOK, CanceledNeverRuns, OnePlace, FreshInv, GivenInv,
              TimersInv, QueueInv, InQueue, WorkerInv
<1> QED BY <1>1, <1>2, <1>3, <1>4 DEF ExecutorNext

LEMMA ExecutorInductiveInvariant == ExecutorSpec => []ExecutorIInv
<1> QED BY ExecutorInitially, ExecutorInductive, PTL DEF ExecutorSpec

\* Once close() has joined the executor's thread nothing runs any more, and a delayed
\* task whose timer was canceled while it ran is never begun, though the handler of
\* its timer is still called.
THEOREM NothingRunsThatMayNot == ExecutorSpec => []ExecutorInv
<1>1. ExecutorIInv => ExecutorInv
  BY DEF ExecutorIInv, ExecutorInv, WorkerInv, NothingRunsAfterClose
<1> QED BY <1>1, ExecutorInductiveInvariant, PTL

\* No task is begun twice: neither by its handler in the queue nor inside another
\* task, whatever was canceled, expired or given to execute meanwhile.
THEOREM NoTaskRunsTwice ==
    ExecutorSpec => [][/\ Handle /\ ~Head(queue).aborted => Head(queue).task \notin ran
               /\ \A k \in Tasks : executeInTask(k) => k \notin ran]_executorVars
<1>1. ExecutorIInv /\ [ExecutorNext]_executorVars =>
         [/\ Handle /\ ~Head(queue).aborted => Head(queue).task \notin ran
          /\ \A k \in Tasks : executeInTask(k) => k \notin ran]_executorVars
  <2>1. ASSUME ExecutorIInv, Handle, ~Head(queue).aborted PROVE Head(queue).task \notin ran
    <3>1. 1 \in 1..Len(queue) /\ Head(queue) = queue[1]
      BY <2>1, HeadOnce DEF ExecutorIInv, OnePlace, Handle
    <3> QED BY <2>1, <3>1 DEF ExecutorIInv, OnePlace, QueueInv
  <2>2. ASSUME ExecutorIInv, NEW k \in Tasks, executeInTask(k) PROVE k \notin ran
    BY <2>2 DEF ExecutorIInv, OnePlace, FreshInv, executeInTask
  <2> QED BY <2>1, <2>2
<1> QED BY <1>1, ExecutorInductiveInvariant, PTL DEF ExecutorSpec

------------------------------------------------------------------------------
\* TemporaryRouter. A loop owes nothing that its iterator has passed: every route
\* that it owes the event is in the list, at the iterator or behind it, and matches
\* (LoopsInv). This outlives what handlers do because the list grows at its end only
\* and a route leaves it without a change of the others' order, and as long as no
\* iterator was on the route.

\* The iterator at b has not passed r.
NotPassed(b, r) ==
    \E i, j \in 1..Len(_M_Routes) : i <= j /\ _M_Routes[i] = b /\ _M_Routes[j] = r

LoopOK(f) ==
    /\ f.beg \in Listed \cup {End}
    /\ \A r \in f.due : match(r, f.event) /\ NotPassed(f.beg, r)

LoopsInv == ~dangling => \A k \in 1..Len(frames) : LoopOK(frames[k])

IInv == TypeOK /\ OneShot /\ OneRoutePerKey /\ LoopsInv

------------------------------------------------------------------------------
LEMMA Stuttering == ASSUME IInv, UNCHANGED vars PROVE IInv'
<1>1. /\ UNCHANGED _M_Routes /\ UNCHANGED frames /\ UNCHANGED dangling
      /\ UNCHANGED adds /\ UNCHANGED fires /\ UNCHANGED removes
  BY DEF vars
<1>2. TypeOK' /\ OneShot' /\ OneRoutePerKey'
  BY <1>1 DEF IInv, TypeOK, OneShot, OneRoutePerKey, Listed
<1>3. LoopsInv'
  <2>1. \A f : LoopOK(f) => LoopOK(f)'
    BY <1>1 DEF LoopOK, NotPassed, Listed
  <2>2. ~dangling => \A k \in 1..Len(frames) : LoopOK(frames[k])
    BY DEF IInv, LoopsInv
  <2> SUFFICES ASSUME ~dangling', NEW k \in 1..Len(frames') PROVE LoopOK(frames[k])'
    BY DEF LoopsInv
  <2>3. PICK f : f = frames'[k]
    OBVIOUS
  <2>4. LoopOK(f)
    BY <1>1, <2>2, <2>3
  <2> QED BY <2>1, <2>3, <2>4
<1> QED BY <1>2, <1>3 DEF IInv

LEMMA Initially == Init => IInv
<1> SUFFICES ASSUME Init PROVE IInv
  OBVIOUS
<1>1. /\ _M_Routes \in Seq(Routes) /\ frames \in Seq(Frames)
      /\ Len(_M_Routes) = 0 /\ Len(frames) = 0 /\ 1..Len(frames) = {}
      /\ 1..Len(_M_Routes) = {}
  BY DEF Init
<1>2. Listed = {}
  BY <1>1, LenProperties DEF Listed, ToSet
<1>3. TypeOK
  <2>1. 0 \in 0..MaxAdds
    BY RouterAssumption
  <2>2. [r \in Routes |-> 0] \in [Routes -> 0..MaxAdds]
    BY <2>1
  <2>3. {adds, fires, removes} = {[r \in Routes |-> 0]} /\ dangling = FALSE
    BY DEF Init
  <2> QED BY <1>1, <2>2, <2>3 DEF TypeOK
<1>4. OneShot
  BY <1>2 DEF Init, OneShot
<1> QED BY <1>1, <1>3, <1>4 DEF IInv, OneRoutePerKey, LoopsInv

LEMMA ListedIs ==
    ASSUME TypeOK
    PROVE  /\ Listed = {_M_Routes[i] : i \in 1..Len(_M_Routes)}
           /\ Listed \subseteq Routes
<1>1. Listed = {_M_Routes[i] : i \in 1..Len(_M_Routes)}
  BY LenProperties DEF TypeOK, Listed, ToSet
<1>2. \A i \in 1..Len(_M_Routes) : _M_Routes[i] \in Routes
  BY ElementOfSeq DEF TypeOK
<1> QED BY <1>1, <1>2

\* A route that is listed is at one place.
LEMMA PlaceOf ==
    ASSUME TypeOK, OneRoutePerKey, NEW r \in Listed
    PROVE  \E p \in 1..Len(_M_Routes) :
               /\ _M_Routes[p] = r
               /\ \A i \in 1..Len(_M_Routes) : _M_Routes[i] = r <=> i = p
<1>1. PICK p \in 1..Len(_M_Routes) : _M_Routes[p] = r
  BY ListedIs
<1> QED BY <1>1 DEF OneRoutePerKey, SameKey

\* A route that leaves the list leaves the order of the others.
LEMMA Removed ==
    ASSUME TypeOK, OneRoutePerKey, NEW r \in Listed,
           _M_Routes' = RemoveFirst(_M_Routes, r)
    PROVE  /\ _M_Routes' \in Seq(Routes) /\ OneRoutePerKey'
           /\ Listed' = Listed \ {r}
           /\ \A b, q : NotPassed(b, q) /\ b # r /\ q # r => NotPassed(b, q)'
<1> DEFINE L == _M_Routes
           I == {i \in 1..Len(L) : L[i] = r}
<1>0. L \in Seq(Routes) /\ Len(L) \in Nat
  BY DEF TypeOK
<1>1. PICK p \in 1..Len(L) : L[p] = r /\ \A i \in 1..Len(L) : L[i] = r <=> i = p
  BY PlaceOf
<1>2. I = {p} /\ p \in Nat
  BY <1>0, <1>1
<1>3. Min(I) = p
  BY <1>2 DEF Min
<1>4. L' = RemoveAt(L, p)
  BY <1>1, <1>2, <1>3 DEF RemoveFirst, SelectInSeq
<1>5. /\ SubSeq(L, 1, p - 1) \in Seq(Routes) /\ Len(SubSeq(L, 1, p - 1)) = p - 1
      /\ \A i \in 1..(p - 1) : SubSeq(L, 1, p - 1)[i] = L[i]
  <2>1. 1 \in Int /\ p - 1 \in Int /\ \A i \in 1..(p - 1) : L[i] \in Routes
    BY <1>0, <1>1
  <2>2. /\ SubSeq(L, 1, p - 1) \in Seq(Routes)
        /\ Len(SubSeq(L, 1, p - 1)) = IF 1 <= p - 1 THEN p - 1 - 1 + 1 ELSE 0
        /\ \A i \in 1..(p - 1 - 1 + 1) : SubSeq(L, 1, p - 1)[i] = L[1 + i - 1]
    BY <2>1, SubSeqProperties
  <2> QED BY <2>2, <1>2, <1>1, <1>0
<1>6. /\ SubSeq(L, p + 1, Len(L)) \in Seq(Routes)
      /\ Len(SubSeq(L, p + 1, Len(L))) = Len(L) - p
      /\ \A i \in 1..(Len(L) - p) : SubSeq(L, p + 1, Len(L))[i] = L[p + i]
  <2>1. p + 1 \in Int /\ Len(L) \in Int /\ \A i \in (p + 1)..Len(L) : L[i] \in Routes
    BY <1>0, <1>1
  <2>2. /\ SubSeq(L, p + 1, Len(L)) \in Seq(Routes)
        /\ Len(SubSeq(L, p + 1, Len(L))) =
              IF p + 1 <= Len(L) THEN Len(L) - (p + 1) + 1 ELSE 0
        /\ \A i \in 1..(Len(L) - (p + 1) + 1) :
              SubSeq(L, p + 1, Len(L))[i] = L[p + 1 + i - 1]
    BY <2>1, SubSeqProperties
  <2> QED BY <2>2, <1>2, <1>1, <1>0
<1>7. /\ L' \in Seq(Routes) /\ Len(L') = Len(L) - 1
      /\ \A i \in 1..Len(L') : L'[i] = IF i < p THEN L[i] ELSE L[i + 1]
  <2> DEFINE s == SubSeq(L, 1, p - 1)
             t == SubSeq(L, p + 1, Len(L))
  <2>1. /\ s \o t \in Seq(Routes) /\ Len(s \o t) = Len(s) + Len(t)
        /\ \A i \in 1..(Len(s) + Len(t)) :
              (s \o t)[i] = IF i <= Len(s) THEN s[i] ELSE t[i - Len(s)]
    BY <1>5, <1>6, ConcatProperties
  <2>2. L' = s \o t
    BY <1>4 DEF RemoveAt
  <2>3. Len(s) = p - 1 /\ Len(t) = Len(L) - p
    BY <1>5, <1>6
  <2> HIDE DEF s, t
  <2>4. Len(L') = Len(L) - 1
    <3>1. Len(L') = Len(s) + Len(t)
      BY <2>1, <2>2
    <3>2. (p - 1) + (Len(L) - p) = Len(L) - 1
      BY <1>0, <1>2
    <3> QED BY <3>1, <3>2, <2>3
  <2>5. ASSUME NEW i \in 1..Len(L'), i < p PROVE L'[i] = L[i]
    <3>1. i \in 1..(p - 1) /\ i <= Len(s) /\ i \in 1..(Len(s) + Len(t))
      BY <2>3, <2>4, <2>5, <1>0, <1>1
    <3> QED BY <3>1, <2>1, <2>2, <1>5 DEF s
  <2>6. ASSUME NEW i \in 1..Len(L'), ~(i < p) PROVE L'[i] = L[i + 1]
    <3>1. /\ ~(i <= Len(s)) /\ i \in 1..(Len(s) + Len(t))
          /\ i - Len(s) \in 1..(Len(L) - p) /\ p + (i - Len(s)) = i + 1
      BY <2>3, <2>4, <2>6, <1>0, <1>1
    <3> QED BY <3>1, <2>1, <2>2, <1>6 DEF t
  <2> QED BY <2>1, <2>2, <2>4, <2>5, <2>6
\* What was at i is at i, or one place nearer to the front.
<1>8. \A i \in 1..Len(L) : i # p =>
          \E k \in 1..Len(L') : k = (IF i < p THEN i ELSE i - 1) /\ L'[k] = L[i]
  <2> SUFFICES ASSUME NEW i \in 1..Len(L), i # p
               PROVE  \E k \in 1..Len(L') : k = (IF i < p THEN i ELSE i - 1) /\ L'[k] = L[i]
    OBVIOUS
  <2> DEFINE k == IF i < p THEN i ELSE i - 1
  <2>1. k \in 1..Len(L') /\ (IF k < p THEN k ELSE k + 1) = i
    BY <1>0, <1>1, <1>7
  <2>2. L'[k] = L[i]
    BY <2>1, <1>7
  <2> QED BY <2>1, <2>2
<1>9. Listed' = Listed \ {r}
  <2>1. DOMAIN L' = 1..Len(L') /\ Listed' = {L'[k] : k \in 1..Len(L')}
    BY <1>7, LenProperties DEF Listed, ToSet
  <2>2. \A k \in 1..Len(L') : \E i \in 1..Len(L) : i # p /\ L'[k] = L[i]
    <3> SUFFICES ASSUME NEW k \in 1..Len(L')
                 PROVE  \E i \in 1..Len(L) : i # p /\ L'[k] = L[i]
      OBVIOUS
    <3>1. (IF k < p THEN k ELSE k + 1) \in 1..Len(L) /\ (IF k < p THEN k ELSE k + 1) # p
      BY <1>0, <1>1, <1>7
    <3> QED BY <3>1, <1>7
  <2>3. Listed = {L[i] : i \in 1..Len(L)}
    BY ListedIs
  <2>4. \A x \in Listed' : x \in Listed /\ x # r
    BY <2>1, <2>2, <2>3, <1>1
  <2>5. \A x \in Listed \ {r} : x \in Listed'
    <3> SUFFICES ASSUME NEW x \in Listed \ {r} PROVE x \in Listed'
      OBVIOUS
    <3>1. PICK i \in 1..Len(L) : L[i] = x
      BY <2>3
    <3>2. i # p
      BY <3>1, <1>1
    <3> QED BY <3>1, <3>2, <2>1, <1>8
  <2> QED BY <2>4, <2>5
<1>10. OneRoutePerKey'
  <2> SUFFICES ASSUME NEW i \in 1..Len(L'), NEW j \in 1..Len(L'), SameKey(L'[i], L'[j])
               PROVE  i = j
    BY DEF OneRoutePerKey, SameKey
  <2> DEFINE m == IF i < p THEN i ELSE i + 1
             n == IF j < p THEN j ELSE j + 1
  <2>1. m \in 1..Len(L) /\ n \in 1..Len(L) /\ L'[i] = L[m] /\ L'[j] = L[n]
    BY <1>0, <1>1, <1>7
  <2>2. m = n
    BY <2>1 DEF OneRoutePerKey
  <2> QED BY <2>2, <1>0, <1>1, <1>7
<1>11. ASSUME NEW b, NEW q, NotPassed(b, q), b # r, q # r PROVE NotPassed(b, q)'
  <2>1. PICK i \in 1..Len(L), j \in 1..Len(L) : i <= j /\ L[i] = b /\ L[j] = q
    BY <1>11 DEF NotPassed
  <2>2. i # p /\ j # p
    BY <2>1, <1>1, <1>11
  <2>3. PICK m \in 1..Len(L') : m = (IF i < p THEN i ELSE i - 1) /\ L'[m] = b
    BY <2>1, <2>2, <1>8
  <2>4. PICK n \in 1..Len(L') : n = (IF j < p THEN j ELSE j - 1) /\ L'[n] = q
    BY <2>1, <2>2, <1>8
  <2>5. m <= n
    BY <2>1, <2>2, <2>3, <2>4, <1>0, <1>1
  <2> QED BY <2>3, <2>4, <2>5 DEF NotPassed
<1> QED BY <1>7, <1>9, <1>10, <1>11

\* The iterator that goes on passes the route it stood on, and no other.
LEMMA Advanced ==
    ASSUME TypeOK, OneRoutePerKey, NEW b \in Listed
    PROVE  /\ After(b) \in (Listed \ {b}) \cup {End}
           /\ \A q : NotPassed(b, q) /\ q # b => NotPassed(After(b), q)
<1> DEFINE L == _M_Routes
<1>0. L \in Seq(Routes) /\ Len(L) \in Nat
  BY DEF TypeOK
<1>1. PICK p \in 1..Len(L) : L[p] = b /\ \A i \in 1..Len(L) : L[i] = b <=> i = p
  BY PlaceOf
<1>2. (CHOOSE i \in 1..Len(_M_Routes) : _M_Routes[i] = b) = p
  BY <1>1
<1>3. After(b) = IF p = Len(L) THEN End ELSE L[p + 1]
  <2>1. After(b) = IF (CHOOSE i \in 1..Len(_M_Routes) : _M_Routes[i] = b) = Len(_M_Routes)
                   THEN End
                   ELSE _M_Routes[(CHOOSE i \in 1..Len(_M_Routes) : _M_Routes[i] = b) + 1]
    BY Zenon DEF After
  <2> QED BY <2>1, <1>2
<1>4. After(b) \in (Listed \ {b}) \cup {End}
  <2>1. p # Len(L) => p + 1 \in 1..Len(L) /\ p + 1 # p
    BY <1>0, <1>1
  <2> QED BY <2>1, <1>1, <1>3, ListedIs
<1>5. ASSUME NEW q, NotPassed(b, q), q # b PROVE NotPassed(After(b), q)
  <2>1. PICK i \in 1..Len(L), j \in 1..Len(L) : i <= j /\ L[i] = b /\ L[j] = q
    BY <1>5 DEF NotPassed
  <2>2. i = p /\ j # p
    BY <2>1, <1>1, <1>5
  <2>3. p # Len(L) /\ p + 1 \in 1..Len(L) /\ p + 1 <= j
    BY <2>1, <2>2, <1>0
  <2> QED BY <2>1, <2>3, <1>3 DEF NotPassed
<1> QED BY <1>4, <1>5

------------------------------------------------------------------------------
\* A route that is added is behind every other.
LEMMA AddStep == ASSUME IInv, NEW r \in Routes, add(r) PROVE IInv'
<1>0. TypeOK /\ OneShot /\ OneRoutePerKey /\ LoopsInv /\ ~dangling /\ UNCHANGED <<frames, dangling>>
  BY DEF IInv, add, MayCall
<1>1. CASE \E s \in Listed : SameKey(r, s)
  <2>1. UNCHANGED vars
    <3>1. adds' = [adds EXCEPT ![r] = @]
      BY <1>1 DEF add
    <3>2. adds' = adds
      BY <3>1, <1>0 DEF TypeOK
    <3> QED BY <3>2, <1>1 DEF add, vars
  <2> QED BY <2>1, Stuttering
<1>2. CASE ~\E s \in Listed : SameKey(r, s)
  <2> DEFINE L == _M_Routes
  <2>1. /\ L' = Append(L, r) /\ adds' = [adds EXCEPT ![r] = @ + 1] /\ adds[r] < MaxAdds
        /\ UNCHANGED <<fires, removes>>
    BY <1>2 DEF add
  <2>2. /\ L' \in Seq(Routes) /\ Len(L) \in Nat /\ Len(L') = Len(L) + 1
        /\ \A i \in 1..Len(L) : L'[i] = L[i]
        /\ L'[Len(L) + 1] = r
    BY <2>1, <1>0 DEF TypeOK
  <2>3. \A i \in 1..Len(L') : i \in 1..Len(L) \/ i = Len(L) + 1
    BY <2>2
  <2>4. \A i \in 1..Len(L) : i \in 1..Len(L')
    BY <2>2
  <2>5. Len(L) + 1 \in 1..Len(L')
    BY <2>2
  <2>6. r \notin Listed
    BY <1>2 DEF SameKey
  <2>7. Listed' = Listed \cup {r}
    <3>1. Listed' = {L'[i] : i \in 1..Len(L')}
      BY <2>2, LenProperties DEF Listed, ToSet
    <3> QED BY <3>1, <2>2, <2>3, <2>4, <2>5, <1>0, ListedIs
  <2>8. TypeOK'
    <3>1. adds' \in [Routes -> 0..MaxAdds]
      <4>1. adds[r] + 1 \in 0..MaxAdds
        BY <2>1, <1>0, RouterAssumption DEF TypeOK
      <4> QED BY <4>1, <2>1, <1>0 DEF TypeOK
    <3> QED BY <3>1, <2>1, <2>2, <1>0 DEF TypeOK
  <2>9. OneShot'
    <3> SUFFICES ASSUME NEW q \in Routes
                 PROVE  adds'[q] = fires'[q] + removes'[q] + (IF q \in Listed' THEN 1 ELSE 0)
      BY DEF OneShot
    <3>1. /\ adds[q] = fires[q] + removes[q] + (IF q \in Listed THEN 1 ELSE 0)
          /\ adds[q] \in Nat /\ fires[q] \in Nat /\ removes[q] \in Nat
          /\ adds'[q] = IF q = r THEN adds[q] + 1 ELSE adds[q]
      BY <1>0, <2>1 DEF TypeOK, OneShot
    <3>2. CASE q = r
      BY <3>1, <3>2, <2>1, <2>6, <2>7
    <3>3. CASE q # r
      BY <3>1, <3>3, <2>1, <2>7
    <3> QED BY <3>2, <3>3
  <2>10. OneRoutePerKey'
    <3>1. \A i \in 1..Len(L) : L[i] \in Listed
      BY <1>0, ListedIs
    <3>2. \A i \in 1..Len(L) : ~SameKey(r, L[i]) /\ ~SameKey(L[i], r)
      BY <3>1, <1>2 DEF SameKey
    <3> SUFFICES ASSUME NEW i \in 1..Len(L'), NEW j \in 1..Len(L'), SameKey(L'[i], L'[j])
                 PROVE  i = j
      BY DEF OneRoutePerKey, SameKey
    <3> QED BY <3>2, <2>2, <2>3, <1>0 DEF OneRoutePerKey
  <2>11. LoopsInv'
    <3> SUFFICES ASSUME NEW k \in 1..Len(frames) PROVE LoopOK(frames[k])'
      BY <1>0 DEF LoopsInv
    <3>1. LoopOK(frames[k])
      BY <1>0 DEF LoopsInv
    <3>2. \A b, q : NotPassed(b, q) => NotPassed(b, q)'
      BY <2>2, <2>4 DEF NotPassed
    <3> QED BY <3>1, <3>2, <2>7, <1>0 DEF LoopOK
  <2> QED BY <2>8, <2>9, <2>10, <2>11 DEF IInv
<1> QED BY <1>1, <1>2

\* Who is forgiven a route owes the same else, from the same iterator.
LEMMA Forgiven ==
    ASSUME NEW r, NEW calls \in Seq(Frames)
    PROVE  /\ Forgive(r, calls) \in Seq(Frames) /\ Len(Forgive(r, calls)) = Len(calls)
           /\ \A k \in 1..Len(calls) :
                 Forgive(r, calls)[k] = [calls[k] EXCEPT !.due = @ \ {r}]
<1>1. DOMAIN calls = 1..Len(calls) /\ Len(calls) \in Nat
  BY LenProperties
<1>2. \A k \in 1..Len(calls) : [calls[k] EXCEPT !.due = @ \ {r}] \in Frames
  <2> SUFFICES ASSUME NEW k \in 1..Len(calls)
               PROVE  [calls[k] EXCEPT !.due = @ \ {r}] \in Frames
    OBVIOUS
  <2>1. calls[k] \in Frames
    BY ElementOfSeq
  <2> QED BY <2>1 DEF Frames
<1> QED BY <1>1, <1>2 DEF Forgive

\* The loops whose iterator is not on a route go on when it leaves the list.
LEMMA GoesOn ==
    ASSUME TypeOK, OneRoutePerKey, NEW r \in Listed, _M_Routes' = RemoveFirst(_M_Routes, r),
           NEW f \in Frames, LoopOK(f), f.beg # r,
           NEW g, g = [f EXCEPT !.due = @ \ {r}]
    PROVE  LoopOK(g)'
<1>1. /\ Listed' = Listed \ {r}
      /\ \A b, q : NotPassed(b, q) /\ b # r /\ q # r => NotPassed(b, q)'
  BY Removed
<1>2. g.beg = f.beg /\ g.event = f.event /\ g.due = f.due \ {r}
  BY DEF Frames
<1>3. \A q \in g.due : match(q, g.event) /\ NotPassed(f.beg, q) /\ q # r
  BY <1>2 DEF LoopOK
<1>4. \A q \in g.due : match(q, g.event) /\ NotPassed(g.beg, q)'
  BY <1>1, <1>2, <1>3
<1>5. g.beg \in Listed' \cup {End}
  BY <1>1, <1>2 DEF LoopOK
<1> QED BY <1>4, <1>5 DEF LoopOK

\* The books of a route that leaves the list: it is counted where it went.
LEMMA Counted ==
    ASSUME TypeOK, OneShot, NEW r \in Listed, Listed' = Listed \ {r}, UNCHANGED adds,
           \/ fires' = [fires EXCEPT ![r] = @ + 1] /\ UNCHANGED removes
           \/ removes' = [removes EXCEPT ![r] = @ + 1] /\ UNCHANGED fires
    PROVE  /\ OneShot'
           /\ fires' \in [Routes -> 0..MaxAdds] /\ removes' \in [Routes -> 0..MaxAdds]
<1>1. r \in Routes
  BY ListedIs
<1>2. adds[r] = fires[r] + removes[r] + 1
  BY <1>1 DEF OneShot
<1>3. /\ adds \in [Routes -> 0..MaxAdds] /\ fires \in [Routes -> 0..MaxAdds]
      /\ removes \in [Routes -> 0..MaxAdds] /\ MaxAdds \in Nat
  BY RouterAssumption DEF TypeOK
<1>4. fires[r] + 1 \in 0..MaxAdds /\ removes[r] + 1 \in 0..MaxAdds
  BY <1>1, <1>2, <1>3
<1>5. fires' \in [Routes -> 0..MaxAdds] /\ removes' \in [Routes -> 0..MaxAdds]
  BY <1>3, <1>4
<1>6. ASSUME NEW q \in Routes
      PROVE  adds'[q] = fires'[q] + removes'[q] + (IF q \in Listed' THEN 1 ELSE 0)
  <2>1. /\ adds[q] = fires[q] + removes[q] + (IF q \in Listed THEN 1 ELSE 0)
        /\ adds[q] \in Nat /\ fires[q] \in Nat /\ removes[q] \in Nat
    BY <1>3 DEF OneShot
  <2>2. CASE q = r
    <3>1. fires'[q] + removes'[q] = fires[q] + removes[q] + 1
      BY <2>1, <2>2, <1>3
    <3> QED BY <3>1, <2>1, <2>2
  <2>3. CASE q # r
    <3>1. fires'[q] = fires[q] /\ removes'[q] = removes[q]
      BY <2>3, <1>3
    <3> QED BY <3>1, <2>1, <2>3
  <2> QED BY <2>2, <2>3
<1> QED BY <1>5, <1>6 DEF OneShot

LEMMA RemoveStep == ASSUME IInv, NEW r \in Routes, remove(r) PROVE IInv'
<1>0. /\ TypeOK /\ OneShot /\ OneRoutePerKey /\ LoopsInv /\ ~dangling /\ r \in Listed
      /\ _M_Routes' = RemoveFirst(_M_Routes, r) /\ frames' = Forgive(r, frames)
      /\ frames \in Seq(Frames)
  BY DEF IInv, remove, MayCall, TypeOK
<1>1. _M_Routes' \in Seq(Routes) /\ OneRoutePerKey' /\ Listed' = Listed \ {r}
  BY <1>0, Removed
<1>2. /\ OneShot'
      /\ fires' \in [Routes -> 0..MaxAdds] /\ removes' \in [Routes -> 0..MaxAdds]
  BY <1>0, <1>1, Counted DEF remove
<1>3. /\ frames' \in Seq(Frames) /\ Len(frames') = Len(frames)
      /\ \A k \in 1..Len(frames) : frames'[k] = [frames[k] EXCEPT !.due = @ \ {r}]
  BY <1>0, Forgiven
<1>4. TypeOK'
  BY <1>0, <1>1, <1>2, <1>3 DEF TypeOK, remove, Dangles
<1>5. LoopsInv'
  <2> SUFFICES ASSUME ~dangling', NEW k \in 1..Len(frames') PROVE LoopOK(frames[k])'
    BY DEF LoopsInv
  <2>1. k \in 1..Len(frames) /\ k \in DOMAIN frames
    BY <1>0, <1>3, LenProperties
  <2>2. frames[k] \in Frames /\ LoopOK(frames[k]) /\ frames[k].beg # r
    BY <2>1, <1>0, ElementOfSeq DEF LoopsInv, remove, Dangles
  <2>3. PICK f \in Frames : f = frames[k]
    BY <2>2
  <2>4. PICK g : g = [f EXCEPT !.due = @ \ {r}]
    OBVIOUS
  <2>5. LoopOK(g)'
    BY <2>2, <2>3, <2>4, <1>0, GoesOn
  <2>6. g = frames'[k]
    BY <2>1, <2>3, <2>4, <1>3
  <2> QED BY <2>5, <2>6
<1> QED BY <1>1, <1>2, <1>4, <1>5 DEF IInv

\* The iterator of a new loop is at the front, and has passed nothing.
LEMMA PostStep == ASSUME IInv, NEW e \in Events, post(e) PROVE IInv'
<1> DEFINE new == [event |-> e, beg |-> First, running |-> End,
                   due |-> {r \in Listed : match(r, e)}]
           L == _M_Routes
<1>0. /\ TypeOK /\ LoopsInv /\ ~dangling /\ UNCHANGED <<_M_Routes, dangling, history>>
      /\ frames' = <<new>> \o frames
  BY DEF IInv, post, MayCall, Cons
<1>1. L \in Seq(Routes) /\ Len(L) \in Nat /\ frames \in Seq(Frames) /\ Len(frames) \in Nat
  BY <1>0 DEF TypeOK
<1>2. Listed = {L[i] : i \in 1..Len(L)} /\ Listed \subseteq Routes
  BY <1>0, ListedIs
<1>3. /\ First \in Listed \cup {End}
      /\ \A r \in Listed : NotPassed(First, r)
  <2>1. CASE L = <<>>
    BY <2>1, <1>2 DEF First
  <2>2. CASE L # <<>>
    <3>1. First = L[1] /\ 1 \in 1..Len(L) /\ \A i \in 1..Len(L) : 1 <= i
      BY <2>2, <1>1, EmptySeq DEF First
    <3> QED BY <3>1, <1>2 DEF NotPassed
  <2> QED BY <2>1, <2>2
<1>4. PICK g : g = new
  OBVIOUS
<1>5. /\ g \in Frames /\ g.event = e /\ g.beg = First
      /\ g.due = {r \in Listed : match(r, e)}
  <2>1. First \in Routes \cup {End} /\ {r \in Listed : match(r, e)} \in SUBSET Routes
    BY <1>2, <1>3
  <2> QED BY <2>1, <1>4 DEF Frames
<1>6. LoopOK(g)
  BY <1>3, <1>5 DEF LoopOK
<1>7. /\ frames' \in Seq(Frames) /\ Len(frames') = Len(frames) + 1 /\ frames'[1] = g
      /\ \A k \in 2..Len(frames') : k - 1 \in 1..Len(frames) /\ frames'[k] = frames[k - 1]
  <2>1. <<g>> \in Seq(Frames) /\ Len(<<g>>) = 1 /\ <<g>>[1] = g
    BY <1>5
  <2>2. frames' = <<g>> \o frames
    BY <1>0, <1>4
  <2> HIDE DEF new
  <2>3. /\ frames' \in Seq(Frames) /\ Len(frames') = 1 + Len(frames)
        /\ \A k \in 1..(1 + Len(frames)) :
              frames'[k] = IF k <= 1 THEN <<g>>[k] ELSE frames[k - 1]
    BY <2>1, <2>2, <1>1, ConcatProperties
  <2>4. 1 \in 1..(1 + Len(frames)) /\ 1 <= 1
    BY <1>1
  <2>5. \A k \in 2..Len(frames') : /\ k - 1 \in 1..Len(frames) /\ ~(k <= 1)
                                   /\ k \in 1..(1 + Len(frames))
    BY <2>3, <1>1
  <2> QED BY <2>1, <2>3, <2>4, <2>5, <1>1
<1> HIDE DEF new
<1>8. TypeOK'
  BY <1>0, <1>7 DEF TypeOK, history
<1>9. LoopsInv'
  <2> SUFFICES ASSUME NEW k \in 1..Len(frames') PROVE LoopOK(frames[k])'
    BY DEF LoopsInv
  <2>1. UNCHANGED _M_Routes
    BY <1>0
  <2>2. CASE k = 1
    <3>1. frames'[k] = g
      BY <2>2, <1>7
    <3>2. LoopOK(g)
      BY <1>6
    <3> QED BY <3>1, <3>2, <2>1 DEF LoopOK, Listed, NotPassed
  <2>3. CASE k # 1
    <3>1. k \in 2..Len(frames')
      BY <2>3, <1>1, <1>7
    <3>2. LoopOK(frames[k - 1]) /\ frames'[k] = frames[k - 1]
      BY <3>1, <1>0, <1>7 DEF LoopsInv
    <3>3. PICK f : f = frames'[k] /\ LoopOK(f)
      BY <3>2
    <3>4. _M_Routes' = _M_Routes
      BY <2>1
    <3> QED BY <3>3, <3>4 DEF LoopOK, Listed, NotPassed
  <2> QED BY <2>2, <2>3
<1> QED BY <1>0, <1>8, <1>9 DEF IInv, OneShot, OneRoutePerKey, Listed, history

\* The innermost loop, and its route.
LEMMA InnerLoop ==
    ASSUME IInv, InLoop
    PROVE  /\ frames \in Seq(Frames) /\ Len(frames) \in Nat /\ 1 \in 1..Len(frames)
           /\ frames[1] \in Frames /\ LoopOK(frames[1])
           /\ frames[1].beg # End => frames[1].beg \in Listed
<1>1. frames \in Seq(Frames) /\ frames # <<>> /\ ~dangling /\ LoopsInv
  BY DEF IInv, TypeOK, InLoop
<1>2. Len(frames) \in Nat /\ 1 \in 1..Len(frames)
  BY <1>1, EmptySeq
<1> QED BY <1>1, <1>2, ElementOfSeq DEF LoopsInv, LoopOK

LEMMA SkipStep == ASSUME IInv, Skip PROVE IInv'
<1>0. /\ TypeOK /\ OneRoutePerKey /\ LoopsInv /\ ~dangling /\ InLoop
      /\ UNCHANGED <<_M_Routes, dangling, history>>
  BY DEF IInv, Skip, InLoop
<1>1. /\ frames \in Seq(Frames) /\ Len(frames) \in Nat /\ 1 \in 1..Len(frames)
      /\ frames[1] \in Frames /\ LoopOK(frames[1]) /\ frames[1].beg \in Listed
  BY <1>0, InnerLoop DEF Skip
<1>2. PICK f \in Frames : f = frames[1]
  BY <1>1
<1>3. PICK b : b = After(f.beg)
  OBVIOUS
<1>4. PICK g : g = [f EXCEPT !.beg = b]
  OBVIOUS
<1>5. b \in Listed \cup {End} /\ \A q : NotPassed(f.beg, q) /\ q # f.beg => NotPassed(b, q)
  BY <1>0, <1>1, <1>2, <1>3, Advanced
<1>6. g \in Frames /\ g.beg = b /\ g.event = f.event /\ g.due = f.due
  <2>1. b \in Routes \cup {End}
    BY <1>0, <1>5, ListedIs
  <2> QED BY <2>1, <1>4 DEF Frames
<1>7. LoopOK(g)
  BY <1>1, <1>2, <1>5, <1>6 DEF LoopOK, Skip
<1>8. frames' = [frames EXCEPT ![1] = g]
  BY <1>1, <1>2, <1>3, <1>4 DEF Skip
<1>9. /\ frames' \in Seq(Frames) /\ Len(frames') = Len(frames)
      /\ \A k \in 1..Len(frames) : frames'[k] = IF k = 1 THEN g ELSE frames[k]
  BY <1>1, <1>6, <1>8, ExceptSeq
<1>10. TypeOK'
  BY <1>0, <1>9 DEF TypeOK, history
<1>11. LoopsInv'
  <2> SUFFICES ASSUME NEW k \in 1..Len(frames') PROVE LoopOK(frames[k])'
    BY DEF LoopsInv
  <2>1. PICK h : h = frames'[k]
    OBVIOUS
  <2>2. LoopOK(h)
    BY <2>1, <1>0, <1>7, <1>9 DEF LoopsInv
  <2> QED BY <2>1, <2>2, <1>0 DEF LoopOK, Listed, NotPassed
<1> QED BY <1>0, <1>10, <1>11 DEF IInv, OneShot, OneRoutePerKey, Listed, history

\* The iterator went on before the handler runs, and the route that fired was
\* under no other.
LEMMA FireStep == ASSUME IInv, Fire PROVE IInv'
<1>0. /\ TypeOK /\ OneShot /\ OneRoutePerKey /\ LoopsInv /\ ~dangling /\ InLoop
  BY DEF IInv, Fire, InLoop
<1>1. /\ frames \in Seq(Frames) /\ Len(frames) \in Nat /\ 1 \in 1..Len(frames)
      /\ frames[1] \in Frames /\ LoopOK(frames[1]) /\ frames[1].beg \in Listed
  BY <1>0, InnerLoop DEF Fire
<1>2. PICK r \in Listed : r = frames[1].beg
  BY <1>1
<1>3. /\ _M_Routes' = RemoveFirst(_M_Routes, r)
      /\ fires' = [fires EXCEPT ![r] = @ + 1] /\ UNCHANGED <<adds, removes>>
      /\ dangling' = Dangles(r, Outer)
  BY <1>2 DEF Fire
<1>4. /\ _M_Routes' \in Seq(Routes) /\ OneRoutePerKey' /\ Listed' = Listed \ {r}
      /\ \A b, q : NotPassed(b, q) /\ b # r /\ q # r => NotPassed(b, q)'
  BY <1>0, <1>3, Removed
<1>5. /\ OneShot'
      /\ fires' \in [Routes -> 0..MaxAdds] /\ removes' \in [Routes -> 0..MaxAdds]
  BY <1>0, <1>3, <1>4, Counted
<1>6. PICK f \in Frames : f = frames[1]
  BY <1>1
<1>7. PICK b : b = After(r)
  OBVIOUS
<1>8. PICK g : g = [f EXCEPT !.beg = b, !.running = r, !.due = @ \ {r}]
  OBVIOUS
<1>9. /\ b \in (Listed \ {r}) \cup {End}
      /\ \A q : NotPassed(r, q) /\ q # r => NotPassed(b, q)
  BY <1>0, <1>7, Advanced
<1>10. r \in Routes /\ b \in Routes \cup {End}
  BY <1>0, <1>9, ListedIs
<1>11. g \in Frames /\ g.beg = b /\ g.event = f.event /\ g.due = f.due \ {r}
  BY <1>8, <1>10 DEF Frames
<1>12. LoopOK(g)'
  <2>1. b # r
    BY <1>9, <1>10, RouterAssumption
  <2>2. ASSUME NEW q \in g.due PROVE match(q, g.event) /\ NotPassed(b, q)'
    <3>1. match(q, g.event) /\ NotPassed(r, q) /\ q # r
      BY <2>2, <1>1, <1>2, <1>6, <1>11 DEF LoopOK
    <3> QED BY <3>1, <2>1, <1>4, <1>9
  <2>3. g.beg \in Listed' \cup {End}
    BY <1>4, <1>9, <1>11
  <2>4. \A q \in g.due : match(q, g.event) /\ NotPassed(g.beg, q)'
    BY <2>2, <1>11
  <2> QED BY <2>3, <2>4 DEF LoopOK
<1>13. PICK outer \in Seq(Frames) : outer = Outer
  BY <1>0, <1>1, HeadTailProperties DEF Outer, InLoop
<1>14. /\ Len(outer) = Len(frames) - 1 /\ Len(outer) \in Nat
       /\ \A k \in 1..Len(outer) : k + 1 \in 1..Len(frames) /\ outer[k] = frames[k + 1]
  <2>1. Len(outer) = Len(frames) - 1 /\ \A k \in 1..Len(outer) : outer[k] = frames[k + 1]
    BY <1>0, <1>1, <1>13, HeadTailProperties DEF Outer, InLoop
  <2> QED BY <2>1, <1>1
<1>15. /\ Forgive(r, outer) \in Seq(Frames) /\ Len(Forgive(r, outer)) = Len(outer)
       /\ \A k \in 1..Len(outer) : Forgive(r, outer)[k] = [outer[k] EXCEPT !.due = @ \ {r}]
  BY Forgiven
<1>16. /\ frames' \in Seq(Frames) /\ Len(frames') = Len(frames) /\ frames'[1] = g
       /\ \A k \in 1..Len(frames') :
             k # 1 => /\ k - 1 \in 1..Len(outer)
                      /\ frames'[k] = [outer[k - 1] EXCEPT !.due = @ \ {r}]
  <2>1. frames' = <<g>> \o Forgive(r, outer)
    BY <1>2, <1>6, <1>7, <1>8, <1>13 DEF Fire
  <2>2. PICK rest \in Seq(Frames) : rest = Forgive(r, outer)
    BY <1>15
  <2>3. /\ Len(rest) = Len(frames) - 1
        /\ \A k \in 1..Len(outer) : rest[k] = [outer[k] EXCEPT !.due = @ \ {r}]
    BY <2>2, <1>14, <1>15
  <2>4. <<g>> \in Seq(Frames) /\ Len(<<g>>) = 1 /\ <<g>>[1] = g
    BY <1>11
  <2>5. /\ frames' \in Seq(Frames) /\ Len(frames') = 1 + Len(rest)
        /\ \A k \in 1..(1 + Len(rest)) :
              frames'[k] = IF k <= 1 THEN <<g>>[k] ELSE rest[k - 1]
    BY <2>1, <2>2, <2>4, ConcatProperties
  <2>6. Len(frames') = Len(frames) /\ 1 \in 1..(1 + Len(rest)) /\ 1 <= 1
    BY <2>3, <2>5, <1>1
  <2>7. \A k \in 1..Len(frames') : k # 1 => /\ k - 1 \in 1..Len(outer) /\ ~(k <= 1)
                                            /\ k \in 1..(1 + Len(rest))
    BY <2>3, <2>6, <1>1, <1>14
  <2> QED BY <2>3, <2>4, <2>5, <2>6, <2>7
<1>17. TypeOK'
  BY <1>0, <1>3, <1>4, <1>5, <1>16 DEF TypeOK, Dangles
<1>18. LoopsInv'
  <2> SUFFICES ASSUME ~dangling', NEW k \in 1..Len(frames') PROVE LoopOK(frames[k])'
    BY DEF LoopsInv
  <2>1. CASE k = 1
    BY <2>1, <1>12, <1>16
  <2>2. CASE k # 1
    <3>1. /\ k - 1 \in 1..Len(outer) /\ k - 1 \in DOMAIN outer
          /\ frames'[k] = [outer[k - 1] EXCEPT !.due = @ \ {r}]
      BY <2>2, <1>16, LenProperties
    <3>2. PICK h \in Frames : h = outer[k - 1]
      BY <3>1, ElementOfSeq
    <3>3. h.beg # r
      BY <3>1, <3>2, <1>3, <1>13 DEF Dangles
    <3>4. LoopOK(h)
      BY <3>1, <3>2, <1>0, <1>14 DEF LoopsInv
    <3>5. PICK i : i = [h EXCEPT !.due = @ \ {r}]
      OBVIOUS
    <3>6. LoopOK(i)'
      BY <3>3, <3>4, <3>5, <1>0, <1>3, GoesOn
    <3>7. i = frames'[k]
      BY <3>1, <3>2, <3>5
    <3> QED BY <3>6, <3>7
  <2> QED BY <2>1, <2>2
<1> QED BY <1>4, <1>5, <1>17, <1>18 DEF IInv

LEMMA HandlerReturnsStep == ASSUME IInv, HandlerReturns PROVE IInv'
<1>0. TypeOK /\ LoopsInv /\ ~dangling /\ UNCHANGED <<_M_Routes, dangling, history>>
  BY DEF IInv, HandlerReturns
<1>1. /\ frames \in Seq(Frames) /\ Len(frames) \in Nat /\ 1 \in 1..Len(frames)
      /\ frames[1] \in Frames
  BY <1>0, EmptySeq, ElementOfSeq DEF TypeOK, HandlerReturns
<1>2. PICK f \in Frames : f = frames[1]
  BY <1>1
<1>3. PICK g : g = [f EXCEPT !.running = End]
  OBVIOUS
<1>4. g \in Frames /\ g.beg = f.beg /\ g.event = f.event /\ g.due = f.due
  BY <1>3 DEF Frames
<1>5. frames' = [frames EXCEPT ![1] = g]
  BY <1>1, <1>2, <1>3 DEF HandlerReturns
<1>6. /\ frames' \in Seq(Frames) /\ Len(frames') = Len(frames)
      /\ \A k \in 1..Len(frames) : frames'[k] = IF k = 1 THEN g ELSE frames[k]
  BY <1>1, <1>4, <1>5, ExceptSeq
<1>7. TypeOK'
  BY <1>0, <1>6 DEF TypeOK, history
<1>8. LoopsInv'
  <2> SUFFICES ASSUME NEW k \in 1..Len(frames') PROVE LoopOK(frames[k])'
    BY DEF LoopsInv
  <2>1. PICK h : h = frames'[k]
    OBVIOUS
  <2>2. LoopOK(h)
    BY <2>1, <1>0, <1>1, <1>2, <1>4, <1>6 DEF LoopsInv, LoopOK
  <2> QED BY <2>1, <2>2, <1>0 DEF LoopOK, Listed, NotPassed
<1> QED BY <1>0, <1>7, <1>8 DEF IInv, OneShot, OneRoutePerKey, Listed, history

LEMMA PostReturnsStep == ASSUME IInv, PostReturns PROVE IInv'
<1>0. /\ TypeOK /\ LoopsInv /\ ~dangling /\ UNCHANGED <<_M_Routes, dangling, history>>
      /\ frames \in Seq(Frames) /\ frames # <<>> /\ frames' = Tail(frames)
  BY DEF IInv, TypeOK, PostReturns, InLoop, Outer
<1>1. /\ frames' \in Seq(Frames) /\ Len(frames') = Len(frames) - 1 /\ Len(frames) \in Nat
      /\ \A k \in 1..Len(frames') : frames'[k] = frames[k + 1]
  BY <1>0, HeadTailProperties
<1>2. \A k \in 1..Len(frames') : k + 1 \in 1..Len(frames)
  BY <1>1
<1>3. TypeOK'
  BY <1>0, <1>1 DEF TypeOK, history
<1>4. LoopsInv'
  <2> SUFFICES ASSUME NEW k \in 1..Len(frames') PROVE LoopOK(frames[k])'
    BY DEF LoopsInv
  <2>1. PICK h : h = frames'[k]
    OBVIOUS
  <2>2. LoopOK(h)
    BY <2>1, <1>0, <1>1, <1>2 DEF LoopsInv
  <2> QED BY <2>1, <2>2, <1>0 DEF LoopOK, Listed, NotPassed
<1> QED BY <1>0, <1>3, <1>4 DEF IInv, OneShot, OneRoutePerKey, Listed, history

------------------------------------------------------------------------------
LEMMA Inductive == IInv /\ [Next]_vars => IInv'
<1> SUFFICES ASSUME IInv, [Next]_vars PROVE IInv'
  OBVIOUS
<1>1. CASE Next
  BY <1>1, AddStep, RemoveStep, PostStep, SkipStep, FireStep, HandlerReturnsStep,
     PostReturnsStep DEF Next
<1>2. CASE UNCHANGED vars
  BY <1>2, Stuttering
<1> QED BY <1>1, <1>2

LEMMA InductiveInvariant == Spec => []IInv
BY Initially, Inductive, PTL DEF Spec

\* A registration is served once and then over, whatever handlers add, remove and
\* post in the middle of the loops of TemporaryRouter::post, and a key is listed
\* once; the books hold after an iterator was erased under its loop, too.
THEOREM RegistrationsKept == Spec => []RouterInv
<1>1. IInv => RouterInv
  BY DEF IInv, RouterInv
<1> QED BY <1>1, InductiveInvariant, PTL

\* TemporaryRouter::post reaches every route that was listed when it began and that
\* nobody took out in the meantime, at any depth of posts from within handlers.
THEOREM NobodyIsPassedOver == Spec => []PostReachesAll
<1>1. IInv => PostReachesAll
  <2> SUFFICES ASSUME IInv, InLoop, frames[1].beg = End, NEW r \in frames[1].due
               PROVE  FALSE
    BY DEF PostReachesAll
  <2>1. NotPassed(End, r) /\ TypeOK
    BY InnerLoop DEF LoopOK, IInv
  <2>2. \A i \in 1..Len(_M_Routes) : _M_Routes[i] \in Routes
    BY <2>1, ElementOfSeq DEF TypeOK
  <2> QED BY <2>1, <2>2, RouterAssumption DEF NotPassed
<1> QED BY <1>1, InductiveInvariant, PTL

==============================================================================
