---------------------------- MODULE SocketHandler ----------------------------
(***************************************************************************)
(* AsioTcpSocketHandler and AsioUdpSocketHandler (caller/call/asio): a     *)
(* connection used from any thread, whose handlers run one at a time on    *)
(* the thread that runs the io_context.                                    *)
(*                                                                         *)
(* _M_ConnState is an atomic integer and nothing else protects it, so each *)
(* load and each store is a step of its own, in the calls of user threads  *)
(* as in the handlers. The work of a call or of a handler between two      *)
(* accesses is part of one of those steps. A call made by the io thread    *)
(* (from a listener) has its tasks dispatched inline; those of the other   *)
(* threads are queued.                                                     *)
(*                                                                         *)
(* A future is abstracted to what Promise guarantees of it: it is settled  *)
(* by the first report. close() shares _M_CloseFuture between all calls.   *)
(***************************************************************************)
EXTENDS Naturals, FiniteSets, Sequences, SequencesExt

CONSTANTS
    Users,      \* threads that call the handler, the io thread aside
    Io,         \* the thread that runs the io_context
    Protocols,  \* the handlers considered, a subset of {"tcp", "udp"}
    Calls,      \* the methods called, a subset of Methods
    MaxCalls    \* bound on the number of calls

Threads == Users \cup {Io}
Methods == {"connect", "disconnect", "close", "read", "write"}
CloseFuture == 0
Futures == 0..MaxCalls

ASSUME SocketAssumption ==
    /\ Io \notin Users
    /\ Protocols \subseteq {"tcp", "udp"} /\ Protocols # {}
    /\ Calls \subseteq Methods
    /\ MaxCalls \in Nat

VARIABLES
    protocol,   \* which of the two classes it is
    connState,  \* _M_ConnState
    socket,     \* _M_Socket: closed, open, or open and connected
    endpoints,  \* _M_EndpointList: the call whose endpoint it is of, 0 if empty
    pending,    \* operations asio has under way, [kind, future]
    ioQueue,    \* tasks and completions waiting for the io thread
    future,     \* the outcome of every future
    method,     \* which call each future belongs to
    pc, job,    \* where each thread is, and in what
    calls,
    forgotten,  \* futures whose close task found no open socket
    went,       \* history: the list that each connect used, 0 before it has
    overlapped, \* history: a connect passed its test during another one
    alone       \* history: only the io thread has called

thread == <<pc, job>>
record == <<protocol, method, calls, overlapped, alone>>
vars == <<connState, socket, endpoints, pending, ioQueue, future, thread, forgotten, went,
          record>>

Udp == protocol = "udp"

States == {"Idle", "Connecting", "Ready", "TransitentFailure", "Shutdown"}
Kinds == {"connectTask", "closeTask", "resolve", "connect", "read", "write"}
Items == [kind : Kinds, future : Futures, ok : BOOLEAN]
Operations == [kind : Kinds, future : Futures]

\* What a thread between two accesses of the state still has to do: store the
\* state, unless it had seen Shutdown, then go on.
Jobs == [next : {"none", "asyncConnect", "finish", "fail", "postClose", "start"},
         target : States, store : BOOLEAN, kind : Kinds, future : Futures]

NoJob == [next |-> "none", target |-> "Idle", store |-> FALSE, kind |-> "read",
          future |-> CloseFuture]

TypeOK ==
    /\ protocol \in Protocols
    /\ connState \in States
    /\ socket \in {"closed", "open", "connected"}
    /\ endpoints \in Futures
    /\ pending \subseteq Operations
    /\ ioQueue \in Seq(Items)
    /\ future \in [Futures -> {"unused", "pending", "finished", "failed"}]
    /\ method \in [Futures -> Methods]
    /\ pc \in [Threads -> {"idle", "checked", "store", "start"}]
    /\ job \in [Threads -> Jobs]
    /\ calls \in 0..MaxCalls
    /\ forgotten \subseteq Futures
    /\ went \in [Futures -> Futures]
    /\ overlapped \in BOOLEAN /\ alone \in BOOLEAN

Init ==
    /\ protocol \in Protocols
    /\ connState = "Idle"
    /\ socket = "closed"
    /\ endpoints = 0
    /\ pending = {}
    /\ ioQueue = <<>>
    /\ future = [f \in Futures |-> IF f = CloseFuture THEN "pending" ELSE "unused"]
    /\ method = [f \in Futures |-> "close"]
    /\ pc = [t \in Threads |-> "idle"]
    /\ job = [t \in Threads |-> NoJob]
    /\ calls = 0
    /\ forgotten = {}
    /\ went = [f \in Futures |-> 0]
    /\ overlapped = FALSE
    /\ alone = TRUE

------------------------------------------------------------------------------
\* The first report settles a future, the others are ignored.
Report(f, outcome) ==
    future' = [future EXCEPT ![f] = IF @ = "pending" THEN outcome ELSE @]

\* Mutant: an error path without a report.
ErrorLost(f) == UNCHANGED future

reportErrorCode(f) == Report(f, "failed")

Item(kind, f, ok) == [kind |-> kind, future |-> f, ok |-> ok]

Idle(t) == pc' = [pc EXCEPT ![t] = "idle"] /\ job' = [job EXCEPT ![t] = NoJob]

\* setConnectivityState without its test for Shutdown.
SetAlways(t, target, next, f) ==
    /\ pc' = [pc EXCEPT ![t] = "store"]
    /\ job' = [job EXCEPT ![t] = [next |-> next, target |-> target, kind |-> "read",
                                  future |-> f, store |-> TRUE]]

\* setConnectivityState's load: what the thread will do once it has stored.
setConnectivityState(t, target, next, f) ==
    /\ pc' = [pc EXCEPT ![t] = "store"]
    /\ job' = [job EXCEPT ![t] = [next |-> next, target |-> target, kind |-> "read",
                                  future |-> f, store |-> connState # "Shutdown"]]

\* basic_socket::close: the operations on the socket are aborted, their
\* completions queued in any order; a resolve goes on.
OnSocket == {op \in pending : op.kind # "resolve"}

AbortOperations(queue) ==
    \E aborted \in SetToSeqs({Item(op.kind, op.future, FALSE) : op \in OnSocket}) :
        ioQueue' = queue \o aborted

\* resetSocket: the TCP handler closes and replaces its socket whatever its
\* state, the UDP handler only an open one; either way it is closed.
resetSocket(queue) == socket' = "closed" /\ AbortOperations(queue)

\* Mutant: a connect always resolves its endpoint.
NeverListed == FALSE

\* The list of an earlier resolve is used again, whatever endpoint is asked.
Listed == endpoints # 0

\* The body of connect's task, run by the io thread, or by the caller for UDP.
StartConnect(t, f, queue) ==
    /\ resetSocket(queue)
    /\ \/ /\ ~Listed
          /\ pending' = (pending \ OnSocket) \cup {[kind |-> "resolve", future |-> f]}
          /\ Idle(t)
       \/ /\ Listed
          /\ pending' = pending \ OnSocket
          /\ setConnectivityState(t, "Connecting", "asyncConnect", f)

------------------------------------------------------------------------------
\* Calls.
NewCall(t, m) ==
    /\ pc[t] = "idle"
    /\ m \in Calls
    /\ calls < MaxCalls
    /\ calls' = calls + 1
    /\ method' = [method EXCEPT ![calls + 1] = m]
    /\ alone' = (alone /\ t = Io)
    /\ UNCHANGED <<protocol, endpoints, connState, socket, pending, ioQueue, forgotten, went>>

Refuse(f) == future' = [future EXCEPT ![f] = "failed"] /\ UNCHANGED thread
Accept(t, f, at, do) ==
    /\ future' = [future EXCEPT ![f] = "pending"]
    /\ pc' = [pc EXCEPT ![t] = at]
    /\ job' = [job EXCEPT ![t] = [do EXCEPT !.future = f]]

Connects == {f \in Futures : method[f] = "connect" /\ future[f] = "pending"}

\* connect() loads the state twice: once for Connecting, once for Ready.
connect(t) ==
    /\ NewCall(t, "connect")
    /\ \/ /\ connState = "Connecting"
          /\ Refuse(calls + 1)
          /\ UNCHANGED overlapped
       \/ /\ connState # "Connecting"
          /\ Accept(t, calls + 1, "checked", NoJob)
          /\ overlapped' = (overlapped \/ Connects # {})

connectChecked(t) ==
    LET f == job[t].future
    IN  /\ pc[t] = "checked"
        /\ \/ /\ connState = "Ready"
              /\ reportErrorCode(f)
              /\ Idle(t)
              /\ UNCHANGED <<socket, pending, ioQueue>>
           \/ /\ connState # "Ready"
              /\ Udp \/ t = Io
              /\ StartConnect(t, f, ioQueue)
              /\ UNCHANGED future
           \/ /\ connState # "Ready"
              /\ ~Udp /\ t # Io
              /\ ioQueue' = Append(ioQueue, Item("connectTask", f, TRUE))
              /\ Idle(t)
              /\ UNCHANGED <<socket, pending, future>>
        /\ UNCHANGED <<connState, endpoints, forgotten, went, record>>

\* disconnect() and close(): the state is set by the calling thread, then the
\* socket is closed by a task.
closeSocketWithState(t, f, target) ==
    setConnectivityState(t, target, "postClose", f) /\ UNCHANGED overlapped

disconnect(t) ==
    /\ NewCall(t, "disconnect")
    /\ future' = [future EXCEPT ![calls + 1] = "pending"]
    /\ closeSocketWithState(t, calls + 1, "TransitentFailure")

close(t) ==
    /\ NewCall(t, "close")
    /\ UNCHANGED future
    /\ closeSocketWithState(t, CloseFuture, "Shutdown")

\* read() and write(): the operation is started by the calling thread, on the
\* socket it finds, after a load of the state.
readOrWrite(t, m) ==
    /\ NewCall(t, m)
    /\ IF connState = "Ready"
       THEN Accept(t, calls + 1, "start", [NoJob EXCEPT !.next = "start", !.kind = m])
       ELSE Refuse(calls + 1)
    /\ UNCHANGED overlapped

read(t) == readOrWrite(t, "read")
write(t) == readOrWrite(t, "write")

\* async_read_some and async_write, async_receive and async_send: on a socket that
\* cannot do it, the completion is queued at once. On one that is being connected
\* this depends on the system: the operation may also wait for the connection.
\* Nothing keeps an operation of the same kind from being under way.
StartOperation(t) ==
    LET op == [kind |-> job[t].kind, future |-> job[t].future]
    IN  /\ pc[t] = "start"
        /\ \/ /\ socket # "closed"
              /\ pending' = pending \cup {op}
              /\ UNCHANGED ioQueue
           \/ /\ socket # "connected"
              /\ ioQueue' = Append(ioQueue, Item(op.kind, op.future, FALSE))
              /\ UNCHANGED pending
        /\ Idle(t)
        /\ UNCHANGED <<connState, socket, endpoints, future, forgotten, went, record>>

------------------------------------------------------------------------------
\* The body of the close task: an open socket is closed, for asio gives it up
\* also when the system's close fails, and the future is told how that went;
\* otherwise nothing happens, and nobody will report it.
RunClose(f, queue) ==
    \/ /\ socket # "closed"
       /\ socket' = "closed"
       /\ AbortOperations(queue)
       /\ pending' = pending \ OnSocket
       /\ Report(f, "finished") \/ reportErrorCode(f)
       /\ UNCHANGED forgotten
    \/ /\ socket = "closed"
       /\ forgotten' = forgotten \cup {f}
       /\ ioQueue' = queue
       /\ UNCHANGED <<socket, pending, future>>

\* setConnectivityState's store, and what follows it. The UDP version returns
\* false even when it stored.
SetReturned(t) == job[t].store /\ ~Udp

Stored(t) ==
    connState' = IF job[t].store THEN job[t].target ELSE connState

AsyncConnect(t) ==
    /\ job[t].next = "asyncConnect"
    /\ AbortOperations(ioQueue)
    /\ socket' = "open"
    /\ pending' = (pending \ OnSocket) \cup {[kind |-> "connect", future |-> job[t].future]}
    /\ went' = [went EXCEPT ![job[t].future] = endpoints]
    /\ UNCHANGED <<future, forgotten>>

ReportOutcome(t) ==
    /\ \/ job[t].next = "finish" /\ Report(job[t].future, "finished")
       \/ job[t].next = "fail" /\ reportErrorCode(job[t].future)
    /\ UNCHANGED <<socket, pending, ioQueue, forgotten, went>>

CloseNow(t) ==
    /\ job[t].next = "postClose" /\ SetReturned(t)
    /\ t = Io
    /\ RunClose(job[t].future, ioQueue)
    /\ UNCHANGED went

CloseLater(t) ==
    /\ job[t].next = "postClose" /\ SetReturned(t)
    /\ t # Io
    /\ ioQueue' = Append(ioQueue, Item("closeTask", job[t].future, TRUE))
    /\ UNCHANGED <<socket, pending, future, forgotten, went>>

CloseRefused(t) ==
    /\ job[t].next = "postClose" /\ ~SetReturned(t)
    /\ reportErrorCode(job[t].future)
    /\ UNCHANGED <<socket, pending, ioQueue, forgotten, went>>

Store(t) ==
    /\ pc[t] = "store"
    /\ Stored(t)
    /\ \/ AsyncConnect(t) \/ ReportOutcome(t)
       \/ CloseNow(t) \/ CloseLater(t) \/ CloseRefused(t)
    /\ Idle(t)
    /\ UNCHANGED <<endpoints, record>>

------------------------------------------------------------------------------
\* The io thread takes the next task or completion, when it is not in a
\* handler or in a call made from one.
Dequeue(kinds) ==
    /\ pc[Io] = "idle"
    /\ ioQueue # <<>>
    /\ Head(ioQueue).kind \in kinds

Next1 == Head(ioQueue)
Rest == Tail(ioQueue)

connectTask ==
    /\ Dequeue({"connectTask"})
    /\ StartConnect(Io, Next1.future, Rest)
    /\ UNCHANGED <<connState, endpoints, future, forgotten, went, record>>

closeTask ==
    /\ Dequeue({"closeTask"})
    /\ RunClose(Next1.future, Rest)
    /\ UNCHANGED <<connState, endpoints, thread, went, record>>

\* resolverAddress's handler: a failed resolve is reported and leaves the
\* state as it is.
addressResolved ==
    /\ Dequeue({"resolve"})
    /\ ioQueue' = Rest
    /\ \/ /\ Next1.ok
          /\ endpoints' = Next1.future
          /\ setConnectivityState(Io, "Connecting", "asyncConnect", Next1.future)
          /\ UNCHANGED future
       \/ /\ ~Next1.ok
          /\ reportErrorCode(Next1.future)
          /\ UNCHANGED <<endpoints, thread>>
    /\ UNCHANGED <<connState, socket, pending, forgotten, went, record>>

\* Mutant: the completion without asio's test that the socket is still open.
SuccessUnlessAborted(item) == item.ok

\* Before it calls the handler of async_connect, asio turns a success on a
\* socket that was closed meanwhile into an abort.
Success(item) == item.ok /\ socket # "closed"

connected ==
    /\ Dequeue({"connect"})
    /\ ioQueue' = Rest
    /\ IF Success(Next1)
       THEN setConnectivityState(Io, "Ready", "finish", Next1.future)
       ELSE setConnectivityState(Io, "TransitentFailure", "fail", Next1.future)
    /\ UNCHANGED <<connState, socket, endpoints, pending, future, forgotten, went, record>>

\* The completion of a read or a write.
transferred ==
    /\ Dequeue({"read", "write"})
    /\ ioQueue' = Rest
    /\ \/ /\ Next1.ok
          /\ Report(Next1.future, "finished")
          /\ UNCHANGED thread
       \/ /\ ~Next1.ok
          /\ setConnectivityState(Io, "TransitentFailure", "fail", Next1.future)
          /\ UNCHANGED future
    /\ UNCHANGED <<connState, socket, endpoints, pending, forgotten, went, record>>

\* The network: an operation under way ends, well or not.
Complete(op, ok) ==
    /\ op \in pending
    /\ ok /\ op.kind \in {"read", "write"} => socket = "connected"
    /\ pending' = pending \ {op}
    /\ ioQueue' = Append(ioQueue, Item(op.kind, op.future, ok))
    /\ socket' = IF op.kind = "connect" /\ ok THEN "connected" ELSE socket
    /\ UNCHANGED <<connState, endpoints, future, thread, forgotten, went, record>>

------------------------------------------------------------------------------
Call(t) ==
    \/ connect(t) \/ disconnect(t) \/ close(t)
    \/ read(t) \/ write(t)

GoOn(t) == connectChecked(t) \/ StartOperation(t) \/ Store(t)

Handler == connectTask \/ closeTask \/ addressResolved \/ connected \/ transferred

\* The program may stop calling, and what it called may all be over.
Next ==
    \/ \E t \in Threads : Call(t) \/ GoOn(t)
    \/ Handler
    \/ \E op \in pending, ok \in BOOLEAN : Complete(op, ok)

Spec == Init /\ [][Next]_vars

\* Threads run and the io thread serves its queue; a resolve or a connect ends
\* some time, by a timeout of the system if need be. A read may wait for ever.
FairSpec ==
    /\ Spec
    /\ \A t \in Threads : WF_vars(GoOn(t))
    /\ WF_vars(Handler)
    /\ WF_vars(\E op \in pending, ok \in BOOLEAN :
                   op.kind \in {"resolve", "connect"} /\ Complete(op, ok))

------------------------------------------------------------------------------
\* Somebody will report this future: it is in an operation, in the queue or
\* in the hands of a thread.
Carried(f) ==
    \/ \E op \in pending : op.future = f
    \/ \E i \in 1..Len(ioQueue) : ioQueue[i].future = f
    \/ \E t \in Threads : pc[t] # "idle" /\ job[t].future = f

\* No call loses its future on any path of errors, aborts and races, except a
\* disconnect whose close task found the socket already closed.
NoLostFuture ==
    \A f \in 1..calls :
        future[f] = "pending" =>
            Carried(f) \/ (f \in forgotten /\ method[f] = "disconnect")

\* What the safety of the handler rests on: its types, and that no future is lost.
SocketInv == TypeOK /\ NoLostFuture

\* Used from the io thread alone, the handler is Ready only with an open socket, and,
\* unless connects overlapped, with one that was connected: a completion that the
\* closing of its socket overtook does not make it Ready.
ReadyMeansOpen ==
    alone /\ pc[Io] = "idle" /\ connState = "Ready" =>
        socket # "closed" /\ (~overlapped => socket = "connected")

\* All connections go where the first resolve said, whatever endpoints the later
\* connects are given, even after failures and aborts. Only connects that overlap
\* while there is no list replace it, and may use the list of each other.
OneDestination ==
    \A f \in 1..calls : ~overlapped /\ went[f] # 0 => went[f] = endpoints /\ endpoints <= f

\* Used from the io thread alone, Shutdown is for ever: the completions of
\* what was under way when close() was called do not overwrite it.
ShutdownIsFinal == [][alone /\ connState = "Shutdown" => connState' = "Shutdown"]_vars

\* asio's documentation of async_write: "The program must ensure that the stream
\* performs no other write operations" until one completes. write() does not.
OneWriteAtATime ==
    ~Udp => Cardinality({op \in pending : op.kind = "write"}) <= 1

\* Every connect is answered, whatever calls and failures overtake it.
ConnectAnswered ==
    \A f \in Futures \ {CloseFuture} :
        (method[f] = "connect" /\ future[f] = "pending") ~> (future[f] # "pending")

\* Reads and writes under way on a socket that is closed are answered, even if
\* another connection is opened at once.
TransfersEnd ==
    \A f \in Futures \ {CloseFuture} :
        (/\ method[f] \in {"read", "write"} /\ future[f] = "pending" /\ socket = "closed"
         /\ \A t \in Threads : pc[t] = "start" => job[t].future # f)
            ~> (future[f] # "pending")

==============================================================================
