----------------------------- MODULE IOPipeline -----------------------------
(***************************************************************************)
(* IOPipelineContext (caller/call/iopipelinecontext.cpp): a handler, a     *)
(* pipeline between a stage that reads and one that writes, and the        *)
(* listeners that turn the outcomes of the handler into events of the      *)
(* pipeline. It extends SocketHandler: every step of the handler is a step *)
(* of this module, with what it has the listeners do.                      *)
(*                                                                         *)
(* What a thread has still to do is a stack: telling an event to a stage,  *)
(* calling the handler, listening to the future it gave, and leaving a try *)
(* block. The handler's own steps come first, as its calls are made from   *)
(* within. Worker is the thread of the executor of the stages that have    *)
(* one. Users of the context are on the io thread, in its stages or in a   *)
(* task of theirs; write() may be called by any thread, a request may have *)
(* its callbacks run in the executor.                                      *)
(***************************************************************************)
EXTENDS SocketHandler, Pipeline

CONSTANTS
    Worker,      \* the executor of the stages that have one
    Layouts,     \* pipelines considered, as the stages appended
    Reactions,   \* what stages do with events: <<stage, event, reaction>>
    TaskCalls,   \* the methods of the context called by users' tasks
    MaxWrites,   \* bound on the number of calls of write()
    Posted       \* the requests whose callbacks run in the executor

Requests == 1..MaxWrites
ReactionNames == {"forward", "keep", "skip", "throw", "throwAfter", "connect", "disconnect",
                  "write"}

ASSUME IOPipelineAssumption ==
    /\ Users = {Worker}
    /\ Layouts \subseteq Seq(Stages) /\ Layouts # {}
    /\ \A appended \in Layouts : IsInjective(appended)
    /\ Reactions \subseteq Stages \X Events \X ReactionNames
    /\ TaskCalls \subseteq {"connect", "disconnect", "close"}
    /\ MaxWrites \in Nat /\ Posted \subseteq Requests

\* A stage has the reading go on, without what was read, only when it is told of a
\* read: a decoder does that has found no frame yet.
ASSUME SkipAssumption ==
    \A x \in Reactions : x[3] = "skip" => x[2] \in {"read", "readComplete"}

VARIABLES
    pipe,        \* _M_Pipeline
    todo,        \* what each thread has still to do
    tasks,       \* the queue of the worker
    writes,      \* the tasks of write() that wait for the io thread
    listening,   \* futures with a listener
    unconnected, \* futures that failed for the want of a connection
    requestOf,   \* the request whose bytes a future is about, or 0
    answers,     \* history: the answers each request was given
    written,     \* history: number of calls of write()
    lost,        \* history: requests that a stage did not pass on
    up,          \* history: the pipeline was told of a connection that was Ready
    stalled      \* history: a stage broke the reading of this connection

context == <<pipe, todo, tasks, writes, listening, unconnected, requestOf, answers,
             written, lost, up, stalled>>

------------------------------------------------------------------------------
\* What a thread does: n is a request or a future, what an event or a method.
Work(do, what, stage, n) == [do |-> do, what |-> what, stage |-> stage, n |-> n]

Tell(event, stage, r) == <<Work("tell", event, stage, r)>>
CallOf(m, r) == <<Work("call", m, NoStage, r)>>
Listen(f) == <<Work("listen", "none", NoStage, f)>>
Answer(r) == IF r = 0 THEN <<>> ELSE <<Work("answer", "none", NoStage, r)>>
Throw == <<Work("throw", "none", NoStage, 0)>>

\* The end of a try block whose handler is notifyException or
\* Pipeline::causeException, which come to the same.
EndTry == <<Work("endTry", "none", NoStage, 0)>>

\* The first task of the user connects.
ContextInit ==
    /\ Init
    /\ pipe \in {Built(appended) : appended \in Layouts}
    /\ todo = [t \in Threads |-> IF t = Io THEN CallOf("connect", 0) ELSE <<>>]
    /\ tasks = <<>>
    /\ writes = <<>>
    /\ listening = {}
    /\ unconnected = {}
    /\ requestOf = [f \in Futures |-> 0]
    /\ answers = [r \in Requests |-> 0]
    /\ written = 0
    /\ lost = {}
    /\ up = FALSE
    /\ stalled = FALSE

Free(t) == pc[t] = "idle" /\ todo[t] = <<>>
Doing(t, do) == pc[t] = "idle" /\ todo[t] # <<>> /\ Head(todo[t]).do = do

\* A thread leaves the try blocks that have nothing left in them.
Left(items) ==
    LET i == SelectInSeq(items, LAMBDA x : x.do # "endTry")
    IN  IF i = 0 THEN <<>> ELSE SubSeq(items, i, Len(items))

Becomes(t, items) == todo' = [todo EXCEPT ![t] = Left(items)]
Replace(t, items) == Becomes(t, items \o Tail(todo[t]))

\* notifyActive and the like.
Notify(event) == Tell(event, Head(Entry(pipe, event)), 0) \o EndTry

\* A stage passes an event on.
invoke(event, stage, r) ==
    LET s == Following(pipe, event, stage)
    IN  IF s = NoStage THEN <<>>
        ELSE IF s \in Remote THEN <<Work("post", event, s, r)>>
        ELSE Tell(event, s, r)

------------------------------------------------------------------------------
\* A failure for the want of a connection is not told to the pipeline; any other
\* failure of a transfer is.
Inactive(f) == IF f \in unconnected THEN <<>> ELSE Notify("inactive")

\* Mutants: a failed write has no answer, a failed read is left to those who
\* disconnect.
FailsUnanswered(f) == Inactive(f)
FailsUntold(f) == <<>>

readFailed(f) == Inactive(f)
writeFailed(f) == Inactive(f) \o Answer(requestOf[f])

\* The listener on a connect or a disconnect, on a read and on a write, when the
\* future has this outcome. A connect or a disconnect that failed is not told.
Listener(f, outcome) ==
    CASE method[f] = "connect" ->
            IF outcome = "finished" THEN Notify("active") \o EndTry ELSE <<>>
      [] method[f] = "disconnect" ->
            IF outcome = "finished" THEN Notify("inactive") \o EndTry ELSE <<>>
      [] method[f] = "read" ->
            IF outcome = "finished" THEN Notify("read") \o EndTry ELSE readFailed(f)
      [] method[f] = "write" ->
            IF outcome = "finished"
            THEN Notify("writeComplete") \o Answer(requestOf[f]) ELSE writeFailed(f)

\* A step of the handler runs the listener of a future it settles.
Settled == {f \in listening : future'[f] # future[f]}

RunListeners(t) ==
    /\ listening' = listening \ Settled
    /\ \/ Settled = {} /\ UNCHANGED todo
       \/ \E f \in Settled : Becomes(t, Listener(f, future'[f]) \o todo[t])

\* The handler goes on with a call or a completion.
handlerGoesOn(t) ==
    /\ GoOn(t)
    /\ RunListeners(t)
    /\ unconnected' = IF pc[t] = "start" /\ ioQueue' # ioQueue
                      THEN unconnected \cup {job[t].future} ELSE unconnected
    /\ UNCHANGED <<pipe, tasks, writes, requestOf, answers, written, lost, up, stalled>>

\* The io thread, with nothing left to do, serves the handler's queue.
handlerCompletes ==
    /\ Free(Io)
    /\ Handler
    /\ RunListeners(Io)
    /\ UNCHANGED <<pipe, tasks, writes, unconnected, requestOf, answers, written, lost, up,
                   stalled>>

network ==
    /\ \E op \in pending, ok \in BOOLEAN : Complete(op, ok)
    /\ UNCHANGED context

\* connect, disconnect, close, read and IOWriteStage::handleWrite call the
\* handler, and then listen to its future; close does not.
callHandler(t) ==
    LET m == Head(todo[t]).what
        f == calls + 1
    IN  /\ Doing(t, "call")
        /\ \/ m = "connect" /\ connect(t)
           \/ m = "disconnect" /\ disconnect(t)
           \/ m = "close" /\ close(t)
           \/ m \in {"read", "write"} /\ readOrWrite(t, m)
        /\ Replace(t, IF m = "close" THEN <<>> ELSE Listen(f))
        /\ requestOf' = [requestOf EXCEPT ![f] = Head(todo[t]).n]
        /\ unconnected' = IF m \in {"read", "write"} /\ future'[f] = "failed"
                          THEN unconnected \cup {f} ELSE unconnected
        /\ UNCHANGED <<pipe, tasks, writes, listening, answers, written, lost, up, stalled>>

\* addListener tells at once what is settled already.
listen(t) ==
    LET f == Head(todo[t]).n
    IN  /\ Doing(t, "listen")
        /\ \/ /\ future[f] = "pending"
              /\ listening' = listening \cup {f}
              /\ Replace(t, <<>>)
           \/ /\ future[f] # "pending"
              /\ Replace(t, Listener(f, future[f]))
              /\ UNCHANGED listening
        /\ UNCHANGED <<pipe, tasks, writes, unconnected, requestOf, answers, written, lost,
                       up, stalled>>
        /\ UNCHANGED vars

------------------------------------------------------------------------------
\* Mutant: activation alone starts a read.
ReadsOnce(event) ==
    CASE event = "active" -> CallOf("read", 0) \o invoke(event, FirstStage, 0)
      [] event = "read" -> Notify("readComplete")
      [] OTHER -> invoke(event, FirstStage, 0)

\* The stages. StreamReadStage starts a read when it is told that the pipeline
\* is active or that a read is complete; told what was read, it says so.
StreamReadStage(event) ==
    CASE event \in {"active", "readComplete", "exception"} ->
            CallOf("read", 0) \o invoke(event, FirstStage, 0)
      [] event = "read" -> Notify("readComplete")
      [] OTHER -> invoke(event, FirstStage, 0)

IOWriteStage(event, r) ==
    IF event = "write" THEN CallOf("write", r) ELSE invoke(event, LastStage, r)

\* A stage of the user: what it does after one of its reactions. A decoder that
\* found nothing has the reading go on; a client connects again.
UserStage(event, stage, r, reaction) ==
    CASE reaction = "forward" -> invoke(event, stage, r)
      [] reaction = "keep" -> <<>>
      [] reaction = "skip" -> invoke("readComplete", stage, 0)
      [] reaction = "throw" -> Throw
      [] reaction = "throwAfter" -> invoke(event, stage, r) \o Throw
      [] reaction = "connect" -> CallOf("connect", 0) \o invoke(event, stage, r)
      [] reaction = "disconnect" -> CallOf("disconnect", 0)

tellFirst(t) ==
    LET event == Head(todo[t]).what
    IN  /\ Doing(t, "tell") /\ Head(todo[t]).stage = FirstStage
        /\ Replace(t, StreamReadStage(event))
        /\ up' = IF event = "active" THEN connState = "Ready" ELSE up /\ event # "inactive"
        /\ stalled' = (stalled /\ event # "active")
        /\ UNCHANGED <<pipe, tasks, writes, listening, unconnected, requestOf, answers,
                       written, lost>>
        /\ UNCHANGED vars

tellLast(t) ==
    LET item == Head(todo[t])
    IN  /\ Doing(t, "tell") /\ item.stage = LastStage
        /\ Replace(t, IOWriteStage(item.what, item.n))
        /\ UNCHANGED <<pipe, tasks, writes, listening, unconnected, requestOf, answers,
                       written, lost, up, stalled>>
        /\ UNCHANGED vars

\* A stage that does not pass on a write loses its request; one that does not
\* pass on what was read, or the completion, breaks the reading.
PassesOn(reaction) == reaction \in {"forward", "throwAfter", "connect"}

tellStage(t, reaction) ==
    LET item == Head(todo[t])
    IN  /\ Doing(t, "tell") /\ item.stage \in Stages
        /\ reaction # "write" /\ <<item.stage, item.what, reaction>> \in Reactions
        /\ Replace(t, UserStage(item.what, item.stage, item.n, reaction))
        /\ lost' = IF PassesOn(reaction) THEN lost ELSE (lost \cup {item.n}) \ {0}
        /\ stalled' = (stalled \/ (/\ ~PassesOn(reaction) /\ reaction # "skip"
                                   /\ item.what \in {"read", "readComplete"}))
        /\ UNCHANGED <<pipe, tasks, writes, listening, unconnected, requestOf, answers,
                       written, up>>
        /\ UNCHANGED vars

\* A stage that writes when it is told, that the pipeline is active say, and does
\* not pass it on. The executor of the handler runs the task of write() at once on
\* its own thread.
WriteTask(r) == Tell("write", Head(Entry(pipe, "write")), r) \o EndTry \o EndTry

stageWrites(t) ==
    LET item == Head(todo[t])
        r == written + 1
    IN  /\ Doing(t, "tell") /\ item.stage \in Stages
        /\ <<item.stage, item.what, "write">> \in Reactions /\ written < MaxWrites
        /\ written' = r
        /\ \/ t = Io /\ Replace(t, WriteTask(r)) /\ UNCHANGED writes
           \/ t # Io /\ Replace(t, <<>>) /\ writes' = Append(writes, r)
        /\ lost' = (lost \cup {item.n}) \ {0}
        /\ stalled' = (stalled \/ item.what \in {"read", "readComplete"})
        /\ UNCHANGED <<pipe, tasks, listening, unconnected, requestOf, answers, up>>
        /\ UNCHANGED vars

\* A stage with an executor is told by it, at once if that is the thread; what
\* it should have read or written is lost.
post(t) ==
    LET item == Head(todo[t])
        told == Tell(RemoteEvent(item.what), item.stage, 0)
    IN  /\ Doing(t, "post")
        /\ \/ t = Worker /\ Replace(t, told) /\ UNCHANGED tasks
           \/ t # Worker /\ Replace(t, <<>>) /\ tasks' = Append(tasks, told)
        /\ lost' = (lost \cup {item.n}) \ {0}
        /\ stalled' = (stalled \/ item.what = "read")
        /\ UNCHANGED <<pipe, writes, listening, unconnected, requestOf, answers, written,
                       up>>
        /\ UNCHANGED vars

workerTakes ==
    /\ Free(Worker) /\ tasks # <<>>
    /\ Becomes(Worker, Head(tasks))
    /\ tasks' = Tail(tasks)
    /\ UNCHANGED <<pipe, writes, listening, unconnected, requestOf, answers, written, lost,
                   up, stalled>>
    /\ UNCHANGED vars

\* An exception unwinds to the innermost try block, whose handler tells every
\* stage but the first; without one it ends the task, or the handler of asio,
\* and the executor drops it.
Exceptions ==
    LET told == Entry(pipe, "exception")
    IN  [i \in DOMAIN told |-> Work("tell", "exception", told[i], 0)]

throw(t) ==
    LET i == SelectInSeq(todo[t], LAMBDA x : x.do = "endTry")
        above == IF i = 0 THEN todo[t] ELSE SubSeq(todo[t], 1, i)
        below == SubSeq(todo[t], i + 1, Len(todo[t]))
    IN  /\ Doing(t, "throw")
        /\ Becomes(t, IF i = 0 THEN <<>> ELSE Exceptions \o below)
        /\ lost' = (lost \cup {above[k].n : k \in {k \in DOMAIN above :
                          above[k].do \in {"tell", "call", "post", "answer"}}}) \ {0}
        /\ UNCHANGED <<pipe, tasks, writes, listening, unconnected, requestOf, answers,
                       written, up, stalled>>
        /\ UNCHANGED vars

\* SocketEventRequest::writeComplete or error: the request is told of its bytes,
\* or of the error, in the execution context it has.
answer(t) ==
    LET r == Head(todo[t]).n
    IN  /\ Doing(t, "answer")
        /\ \/ /\ r \in Posted /\ t # Worker
              /\ tasks' = Append(tasks, Answer(r))
              /\ UNCHANGED answers
           \/ /\ r \notin Posted \/ t = Worker
              /\ answers' = [answers EXCEPT ![r] = @ + 1]
              /\ UNCHANGED tasks
        /\ Replace(t, <<>>)
        /\ UNCHANGED <<pipe, writes, listening, unconnected, requestOf, written, lost, up,
                       stalled>>
        /\ UNCHANGED vars

------------------------------------------------------------------------------
\* write() of a user, on any thread, and its task on the io thread.
callWrite ==
    /\ written < MaxWrites
    /\ written' = written + 1
    /\ writes' = Append(writes, written + 1)
    /\ UNCHANGED <<pipe, todo, tasks, listening, unconnected, requestOf, answers, lost, up,
                   stalled>>
    /\ UNCHANGED vars

writeTask ==
    /\ Free(Io) /\ writes # <<>>
    /\ Becomes(Io, WriteTask(Head(writes)))
    /\ writes' = Tail(writes)
    /\ UNCHANGED <<pipe, tasks, listening, unconnected, requestOf, answers, written, lost,
                   up, stalled>>
    /\ UNCHANGED vars

\* A task of the user on the io thread calls the context.
userTask(m) ==
    /\ Free(Io) /\ m \in TaskCalls /\ calls < MaxCalls
    /\ Becomes(Io, CallOf(m, 0))
    /\ UNCHANGED <<pipe, tasks, writes, listening, unconnected, requestOf, answers, written,
                   lost, up, stalled>>
    /\ UNCHANGED vars

------------------------------------------------------------------------------
ThreadGoesOn(t) ==
    \/ handlerGoesOn(t) \/ callHandler(t) \/ listen(t)
    \/ tellFirst(t) \/ tellLast(t) \/ \E reaction \in ReactionNames : tellStage(t, reaction)
    \/ stageWrites(t) \/ post(t) \/ throw(t) \/ answer(t)

IoServes == handlerCompletes \/ writeTask

ContextNext ==
    \/ \E t \in Threads : ThreadGoesOn(t)
    \/ IoServes \/ workerTakes \/ network
    \/ callWrite \/ \E m \in TaskCalls : userTask(m)

ContextSpec == ContextInit /\ [][ContextNext]_<<vars, context>>

\* Threads run, the io thread and the worker serve their queues, and resolving
\* and connecting end.
ContextFairSpec ==
    /\ ContextSpec
    /\ \A t \in Threads : WF_<<vars, context>>(ThreadGoesOn(t))
    /\ WF_<<vars, context>>(IoServes)
    /\ WF_<<vars, context>>(workerTakes)
    /\ WF_<<vars, context>>(network)

------------------------------------------------------------------------------
Works == [do : {"tell", "call", "listen", "answer", "throw", "endTry", "post"},
          what : Events \cup Methods \cup {"none"}, stage : AllStages \cup {NoStage},
          n : Futures \cup Requests]

ContextTypeOK ==
    /\ todo \in [Threads -> Seq(Works)]
    /\ tasks \in Seq(Seq(Works))
    /\ writes \in Seq(Requests)
    /\ listening \subseteq Futures /\ unconnected \subseteq Futures
    /\ requestOf \in [Futures -> Requests \cup {0}]
    /\ answers \in [Requests -> Nat]
    /\ written \in 0..MaxWrites
    /\ lost \subseteq Requests
    /\ {up, stalled} \subseteq BOOLEAN

\* The reads that have the buffer of StreamReadStage: under way, or done well
\* and not yet handled.
BufferUsers ==
    {op.future : op \in {op \in pending : op.kind = "read"}}
        \cup {ioQueue[i].future :
                 i \in {i \in DOMAIN ioQueue : ioQueue[i].kind = "read" /\ ioQueue[i].ok}}

\* No two reads ever use the one buffer, whatever is read, thrown and reconnected:
\* activation and the completion of a read both start one. Two connects at a time,
\* or a stage with an executor that completes a read of an earlier connection,
\* break this.
OneReadAtATime ==
    ~overlapped /\ Remote \cap Range(pipe.stages) = {} => Cardinality(BufferUsers) <= 1

\* Nobody has anything to do.
Quiet == ioQueue = <<>> /\ tasks = <<>> /\ \A t \in Threads : Free(t)

\* A connection is read as long as it is there: when all is quiet a read is under
\* way, also after exceptions of stages that had passed on what they were told.
\* Only a stage that keeps or throws away what was read ends this.
ReadingGoesOn ==
    Quiet /\ connState = "Ready" /\ socket = "connected" => stalled \/ BufferUsers # {}

\* Where the answer to a request is to come from.
Awaited(r) ==
    \/ \E i \in DOMAIN writes : writes[i] = r
    \/ \E i \in DOMAIN tasks : \E j \in DOMAIN tasks[i] : tasks[i][j].n = r
    \/ \E t \in Threads : \E i \in DOMAIN todo[t] :
            \/ todo[t][i].do \in {"tell", "call", "post", "answer"} /\ todo[t][i].n = r
            \/ todo[t][i].do = "listen" /\ requestOf[todo[t][i].n] = r
    \/ \E f \in listening : requestOf[f] = r /\ future[f] = "pending"

\* A request that stages passed on is answered once, on success as on each kind of
\* failure, even if stages throw when they are told of it.
RequestsAnswered ==
    \A r \in 1..written :
        /\ answers[r] <= 1
        /\ answers[r] = 0 => Awaited(r) \/ r \in lost
        /\ answers[r] = 1 => ~Awaited(r)

ContextInv == TypeOK /\ ContextTypeOK /\ RequestsAnswered

\* The connection is gone and nobody closed the handler.
Gone == connState \notin {"Ready", "Shutdown"}

\* A disconnect of the connection has failed, as the system's close did: its
\* listener tells nobody then.
CloseFailed ==
    \E f \in 1..calls :
        /\ method[f] = "disconnect" /\ future[f] = "failed"
        /\ \A g \in f..calls : ~(method[g] = "connect" /\ future[g] = "finished")

\* A read that was aborted waits to be handled.
ReadAborted ==
    \E i \in DOMAIN ioQueue :
        ioQueue[i].kind = "read" /\ ~ioQueue[i].ok /\ ioQueue[i].future \in listening

Told == ~up \/ ~Gone \/ stalled \/ overlapped \/ calls = MaxCalls

\* A pipeline that was told of a connection is told when it is lost: by the
\* listener on the disconnect, or by the transfer that fails. A stage that had
\* broken the reading may leave it untold, and so does close(), which tells it only
\* by the read it aborts, and a disconnect whose close fails while no read is under
\* way: if it aborted one, that read tells.
LossIsTold ==
    /\ (up /\ Gone) ~> (Told \/ CloseFailed)
    /\ (up /\ Gone /\ ReadAborted) ~> Told

==============================================================================
