------------------------- MODULE SingleThreadExecutor -------------------------
(***************************************************************************)
(* SingleThreadExecutor<AsioExecutionContext> (caller/executor): a thread  *)
(* that runs an io_context until close(), and the threads that give it     *)
(* tasks, wait for its end and close it. The thread that owns the executor *)
(* closes it, as its destructor does.                                      *)
(*                                                                         *)
(* _M_Closed and the state of the io_context are the only things shared:   *)
(* each access is a step. A task may throw, and may give the executor      *)
(* another task, which then runs inside it.                                *)
(***************************************************************************)
EXTENDS Sequences, SequencesExt

CONSTANTS
    Threads,    \* threads that use the executor, its own aside
    Owner,      \* the one of them that closes it
    Tasks,      \* tasks, each given to execute at most once
    Delayed,    \* those given to execute with an expiry
    Throwers    \* those that throw

ASSUME ExecutorAssumption ==
    /\ Owner \in Threads
    /\ Delayed \subseteq Tasks
    /\ Throwers \subseteq Tasks

VARIABLES
    closed,     \* _M_Closed
    stopped,    \* the io_context was stopped
    queue,      \* its handlers that are ready
    timers,     \* delayed tasks whose timer is running
    worker,     \* where the executor's thread is
    current,    \* the handlers it is in: none or one
    captured,   \* asio holds an exception of a task dispatched in place
    joined,     \* _M_Thread was joined
    pc,         \* where each thread is ...
    given,      \* ... with which task, if it is about to post one
    fresh,      \* tasks nobody gave to execute yet
    ran,        \* tasks that were begun
    canceled    \* tasks whose timer was canceled while it ran

context == <<stopped, queue, timers>>
executorVars ==
    <<closed, context, worker, current, captured, joined, pc, given, fresh, ran, canceled>>

\* A handler of the io_context: a task, or the handler of its timer, which is
\* called with operation_aborted when the timer was canceled.
Handlers == [task : Tasks, aborted : BOOLEAN]

\* std::atomic_bool is left uninitialized by the constructor.
ExecutorInit ==
    /\ closed \in BOOLEAN
    /\ stopped = FALSE
    /\ queue = <<>>
    /\ timers = {}
    /\ worker = "starting"
    /\ current = <<>>
    /\ captured = FALSE
    /\ joined = FALSE
    /\ pc = [t \in Threads |-> "idle"]
    /\ given = [t \in Threads |-> {}]
    /\ fresh = Tasks
    /\ ran = {}
    /\ canceled = {}

Goto(t, from, to) == pc[t] = from /\ pc' = [pc EXCEPT ![t] = to]

------------------------------------------------------------------------------
\* The executor's thread: run().
Start ==
    /\ worker = "starting"
    /\ worker' = "loop"
    /\ closed' = FALSE
    /\ UNCHANGED <<context, current, captured, joined, pc, given, fresh, ran, canceled>>

Loop ==
    /\ worker = "loop"
    /\ worker' = IF closed THEN "notifying" ELSE "running"
    /\ UNCHANGED <<closed, context, current, captured, joined, pc, given, fresh, ran, canceled>>

\* io_context::run calls the next handler, until the context is stopped.
Handle ==
    /\ worker = "running" /\ ~stopped /\ queue # <<>>
    /\ queue' = Tail(queue)
    /\ \/ /\ Head(queue).aborted
          /\ UNCHANGED <<worker, current, ran>>
       \/ /\ ~Head(queue).aborted
          /\ worker' = "inTask"
          /\ current' = <<Head(queue)>>
          /\ ran' = ran \cup {Head(queue).task}
    /\ UNCHANGED <<closed, stopped, timers, captured, joined, pc, given, fresh, canceled>>

\* A stopped context returns from run() at once, now and when it is run again.
RunReturns ==
    /\ worker = "running" /\ stopped
    /\ worker' = "loop"
    /\ UNCHANGED <<closed, context, current, captured, joined, pc, given, fresh, ran, canceled>>

\* What leaves io_context::run at the end of a task: its own exception, or the
\* one asio captured while the task ran.
Throws == current[1].task \in Throwers \/ captured

\* The end of a task whose exception nobody catches is the end of the thread.
TaskEndsUncaught ==
    /\ worker = "inTask"
    /\ worker' = IF Throws THEN "ended" ELSE "running"
    /\ current' = <<>>
    /\ captured' = FALSE
    /\ UNCHANGED <<closed, context, joined, pc, given, fresh, ran, canceled>>

\* An exception leaves io_context::run, is caught, and the loop goes on. When a
\* task throws itself, what was captured is dropped with the frame of run().
TaskEnds ==
    /\ worker = "inTask"
    /\ worker' = IF Throws THEN "loop" ELSE "running"
    /\ current' = <<>>
    /\ captured' = FALSE
    /\ UNCHANGED <<closed, context, joined, pc, given, fresh, ran, canceled>>

\* A task calls execute. A task that is not delayed is dispatched in place: asio
\* captures its exception, and the task around it goes on.
executeInTask(k) ==
    /\ worker = "inTask"
    /\ k \in fresh
    /\ fresh' = fresh \ {k}
    /\ \/ /\ closed
          /\ UNCHANGED <<timers, captured, ran>>
       \/ /\ ~closed /\ k \in Delayed
          /\ timers' = timers \cup {k}
          /\ UNCHANGED <<captured, ran>>
       \/ /\ ~closed /\ k \notin Delayed
          /\ ran' = ran \cup {k}
          /\ captured' = (captured \/ k \in Throwers)
          /\ UNCHANGED timers
    /\ UNCHANGED <<closed, stopped, queue, worker, current, joined, pc, given, canceled>>

\* The end of run(), with and without its notification.
EndSilently ==
    /\ worker = "notifying"
    /\ worker' = "ended"
    /\ UNCHANGED <<closed, context, current, captured, joined, pc, given, fresh, ran, canceled>>

RunEnds ==
    /\ worker = "notifying"
    /\ worker' = "ended"
    /\ pc' = [t \in Threads |-> IF pc[t] = "asleep" THEN "idle" ELSE pc[t]]
    /\ UNCHANGED <<closed, context, current, captured, joined, given, fresh, ran, canceled>>

------------------------------------------------------------------------------
\* Both forms of execute: the test of _M_Closed, and the call of the context's
\* executor; a task that finds the executor closed is dropped.
execute(t, k) ==
    /\ k \in fresh
    /\ fresh' = fresh \ {k}
    /\ \/ /\ closed
          /\ pc[t] = "idle"
          /\ UNCHANGED <<pc, given>>
       \/ /\ ~closed
          /\ Goto(t, "idle", "posting")
          /\ given' = [given EXCEPT ![t] = {k}]
    /\ UNCHANGED <<closed, context, worker, current, captured, joined, ran, canceled>>

Dispatch(t) ==
    /\ Goto(t, "posting", "idle")
    /\ given' = [given EXCEPT ![t] = {}]
    /\ \E k \in given[t] :
        \/ /\ k \in Delayed
           /\ timers' = timers \cup {k}
           /\ UNCHANGED queue
        \/ /\ k \notin Delayed
           /\ queue' = Append(queue, [task |-> k, aborted |-> FALSE])
           /\ UNCHANGED timers
    /\ UNCHANGED <<closed, stopped, worker, current, captured, joined, fresh, ran, canceled>>

\* A timer expires: its handler is ready.
Expire(k) ==
    /\ k \in timers
    /\ timers' = timers \ {k}
    /\ queue' = Append(queue, [task |-> k, aborted |-> FALSE])
    /\ UNCHANGED <<closed, stopped, worker, current, captured, joined, pc, given, fresh, ran, canceled>>

\* The function execute returned for a delayed task; it comes too late for a
\* timer that has expired.
cancel(t, k) ==
    /\ pc[t] = "idle"
    /\ k \in timers
    /\ timers' = timers \ {k}
    /\ queue' = Append(queue, [task |-> k, aborted |-> TRUE])
    /\ canceled' = canceled \cup {k}
    /\ UNCHANGED <<closed, stopped, worker, current, captured, joined, pc, given, fresh, ran>>

\* wait(): the test, and going to sleep whatever happened since.
wait(t) ==
    /\ ~closed
    /\ Goto(t, "idle", "waiting")
    /\ UNCHANGED <<closed, context, worker, current, captured, joined, given, fresh, ran, canceled>>

Sleep(t) ==
    /\ Goto(t, "waiting", "asleep")
    /\ UNCHANGED <<closed, context, worker, current, captured, joined, given, fresh, ran, canceled>>

SpuriousWakeUp(t) ==
    /\ Goto(t, "asleep", "idle")
    /\ UNCHANGED <<closed, context, worker, current, captured, joined, given, fresh, ran, canceled>>

\* close(): the flag, the context, and the thread.
close(t) ==
    /\ t = Owner
    /\ Goto(t, "idle", "stopping")
    /\ closed' = TRUE
    /\ UNCHANGED <<context, worker, current, captured, joined, given, fresh, ran, canceled>>

\* close() that leaves the context running.
StopByFlagAlone(t) ==
    /\ Goto(t, "stopping", "joining")
    /\ UNCHANGED <<closed, context, worker, current, captured, joined, given, fresh, ran, canceled>>

stop(t) ==
    /\ Goto(t, "stopping", "joining")
    /\ stopped' = TRUE
    /\ UNCHANGED <<closed, queue, timers, worker, current, captured, joined, given, fresh, ran, canceled>>

\* close() that leaves the thread to itself.
JoinAtOnce(t) ==
    /\ Goto(t, "joining", "idle")
    /\ joined' = TRUE
    /\ UNCHANGED <<closed, context, worker, current, captured, given, fresh, ran, canceled>>

join(t) ==
    /\ Goto(t, "joining", "idle")
    /\ joined \/ worker = "ended"
    /\ joined' = TRUE
    /\ UNCHANGED <<closed, context, worker, current, captured, given, fresh, ran, canceled>>

------------------------------------------------------------------------------
run == Start \/ Loop \/ Handle \/ RunReturns \/ TaskEnds \/ RunEnds

Call(t) ==
    \/ \E k \in Tasks : execute(t, k) \/ cancel(t, k)
    \/ wait(t) \/ close(t)

GoOn(t) == Dispatch(t) \/ Sleep(t) \/ stop(t) \/ join(t)

ExecutorNext ==
    \/ run
    \/ \E t \in Threads : Call(t) \/ GoOn(t) \/ SpuriousWakeUp(t)
    \/ \E k \in Tasks : executeInTask(k) \/ Expire(k)

ExecutorSpec == ExecutorInit /\ [][ExecutorNext]_executorVars

\* Threads run, and every task ends. Nobody has to call anything.
ExecutorFairSpec == ExecutorSpec /\ WF_executorVars(run) /\ \A t \in Threads : WF_executorVars(GoOn(t))

------------------------------------------------------------------------------
ExecutorTypeOK ==
    /\ closed \in BOOLEAN
    /\ stopped \in BOOLEAN
    /\ queue \in Seq(Handlers)
    /\ timers \subseteq Delayed
    /\ worker \in {"starting", "loop", "running", "inTask", "notifying", "ended"}
    /\ current \in {<<>>} \cup {<<h>> : h \in Handlers}
    /\ captured \in BOOLEAN
    /\ joined \in BOOLEAN
    /\ pc \in [Threads -> {"idle", "posting", "waiting", "asleep", "stopping", "joining"}]
    /\ given \in [Threads -> SUBSET Tasks]
    /\ fresh \subseteq Tasks
    /\ ran \subseteq Tasks
    /\ canceled \subseteq Delayed

\* Once close() returned, no task runs and none will: the destructor may delete
\* the context below the tasks that are left in its queue.
NothingRunsAfterClose == joined => worker = "ended" /\ current = <<>>

\* A delayed task whose timer was canceled in time does not run, although its
\* timer's handler does.
CanceledNeverRuns == canceled \cap ran = {}

\* Nothing runs that may not: after a close, or after a cancel.
ExecutorInv == ExecutorTypeOK /\ NothingRunsAfterClose /\ CanceledNeverRuns

\* What the executor accepted is run unless it is closed first, however many
\* of the tasks before it throw.
TasksRun ==
    \A k \in Tasks :
        ([task |-> k, aborted |-> FALSE] \in ToSet(queue)) ~> (k \in ran \/ stopped)

\* close() is past, and the thread had begun before.
Closing == pc[Owner] = "joining" /\ closed /\ worker # "starting"

\* close() comes back, unless it overtook the start of the thread: run() then
\* forgets that the executor is closed and spins on a stopped context.
CloseReturns == Closing ~> (pc[Owner] = "idle")

\* A thread that went to sleep in wait() before the executor ended is woken by
\* its end. (One that tested _M_Closed before and slept after it sleeps on.)
WaitersWoken ==
    \A t \in Threads :
        (pc[t] = "asleep" /\ Closing /\ worker # "ended") ~> (pc[t] # "asleep")
==============================================================================
