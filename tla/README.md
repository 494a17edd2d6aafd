# Verification of caller

`caller` is a C++17 library for network clients over asio: futures, executors,
TCP and UDP handlers, a pipeline that encodes and decodes messages, routers that
bring replies to the requests that wait for them, and contexts for cancellation.
It has no tests. This directory holds TLA+ models of its components, TLC runs on
small instances, and TLAPS proofs.

Sources named below are under `include/caller/` and `src/caller/`.

## 1. Inventory

| Component | State | Operations | How it interacts | What makes it hard |
|---|---|---|---|---|
| Futures (`async`) | `m_state`, storage, error, exception, listener list, waiting threads | four `report*`, `reportResult`, `addListener`, `removeListener`, `wait`, `result` | settled by handlers, listened to by the pipeline and by contexts | any thread; value written, then published, in two sections; listeners run outside the mutex; late listeners; exceptions of listeners |
| Socket handlers (`call/asio`) | atomic `_M_ConnState`, asio socket, endpoint list, close future | `connect`, `disconnect`, `close`, `read`, `write` and their completions | called by the pipeline context, complete futures on the io thread | state is load-then-store; calls from any thread overlap with completions; resets of the socket abort operations; error paths |
| Single-thread executor (`executor`) | `_M_Closed`, io_context, thread, condition variable | `execute` (now, after a delay), cancel of a delay, `wait`, `close` | runs every handler and listener of the above | start against close, check-then-wait, tasks that throw |
| Temporary router (`route`) | list of one-shot routes | `add`, `remove`, `post` | requests add a route, decoded messages are posted | handlers call the router from inside `post` |
| Persistence, simple, broadcast routers | list or multimap of routes, mutex (not broadcast) | `add`, `remove`, `post` | as above | handlers under the mutex, snapshot of matches, erasure |
| Contexts (`context`) | error, done future, children, listener on the parent | `withValue`, `withCancel`, cancel | built on futures | registration in three steps against cancellation in another thread; nested listeners |
| Pipeline (`call`) | first and last stage, stages, executor of each | `append`, the events, `handleRead`, `handleWrite`, `causeException` | driven by the IO pipeline context | stages on other executors, exceptions told to every stage; typed stages whose try blocks enclose handlers and later stages |
| IO pipeline context | handler, pipeline, read buffer of its first stage | `connect`, `disconnect`, `close`, `read`, `write`, `notify*` | joins handler, futures and pipeline | the read loop: who starts the next read, and how often |
| Ring buffer, frame codec, byte buffer | indices that only grow, array | `put`, `take`, `move`, `unpack` | first read stage of a connection | wrapping, frames cut into arbitrary chunks, a full ring |
| Socket event requests | callbacks or futures | `writeComplete`, `error` | told by the write stage | order of completion and reply |
| Byte buffer, message of the example | a window of a shared storage; fields | `put`, `take`, `slice`; `serialize`, `deserialize` | encoder and decoder | what does not fit, or is not there, is passed over in silence |
| String search | a table of shifts, a window | `find`, `contains` | none | windows that are passed over, or never move |
| Message factory, endpoint, event, `Any` | maps and values | look up, store | used by decoders | nothing over time |
| Example client (`example/main.cpp`) | two counters, routers, message objects | number, encode, route, decode, post | all of the above | replies out of order, twice, or before their route; numbers that begin again |

What should hold of each:

* Futures: one outcome, told once to every registration that was not withdrawn;
  nobody waits for a completed future; what is read is the outcome.
* Socket handlers: every call is answered; *Ready* means an open socket;
  *Shutdown* is for ever.
* Executor: accepted tasks run, `close` returns with nothing running.
* Temporary router: a registration is served at most once; no registered route
  is passed over; keys are unique.
* Contexts: cancellation reaches every descendant, and a finished context leaves
  nothing behind in its parent.
* Pipeline and IO pipeline context: an event reaches every stage it concerns
  once; one read at a time, and always one while the connection is active. An
  object is given to the handler of its type, once, and no exception is lost.
* String search: the first place of the pattern, found in the end.
* Persistence, simple and broadcast routers: a post reaches every route that is
  registered, whatever handlers and other threads remove meanwhile; calls return.
* Frame codec: any way of cutting a stream into chunks gives the same frames, as
  soon as they are there.
* Request and response: every request is accounted for; its callback is given its
  own reply, once; a message that was written is the message that is read.

`PROJECT.json` lists under `hazards`, line by line, what can go wrong in this
code, and the properties that would notice.

## 2. Modules

| Module | What it is |
|---|---|
| `Promise` | What a future promises, with no threads and no storage. Abstract. |
| `FutureInterface` | One `FutureInterface<T>` and the threads that use it. |
| `FutureInterface_proofs` | The theorems about it. |
| `SocketHandler`, `SocketHandler_proofs` | One TCP or UDP handler, its callers, its io thread, the network; and the theorems about it. |
| `SingleThreadExecutor` | The executor's thread, its io_context and its users, and what never runs. |
| `TemporaryRouter` | The router, with a stack of `post` loops under way. |
| `ExecutorAndRouter_proofs` | The theorems about the executor and about the temporary router. |
| `SharedRouters`, `SharedRouters_proofs` | The persistence, simple and broadcast routers, and threads that use one of them; and the theorems about them. |
| `ContextTree`, `ContextTree_proofs` | Contexts, their done futures, and threads that nest in listeners; and the theorem about them. |
| `RingBuffer` | The ring as operators on a record. |
| `FrameStream` | The frames of a stream that is never cut. Abstract. |
| `FrameDecoder` | `DelimiterBasedFrameDecoder` over a ring. |
| `TypedStages` | Nested calls of stages that cast, handle, throw and try again. |
| `Pipeline` | The list of stages: how it is built and where an event goes next. Operators. |
| `IOPipeline`, `IOPipeline_proofs` | `IOPipelineContext`: extends `SocketHandler` and `Pipeline` with the stages, the listeners and the users; and the theorems about it. |
| `ByteBuffer`, `NewMessage` | A byte buffer, and the message of the example written to and read from one. Operators. |
| `Requests` | What becomes of a request, with no messages, queues or network. Abstract. |
| `RequestResponse`, `RequestResponse_proofs` | The example: numbering, encoding, routes, replies over UDP; and the theorems about it and about the byte buffer. |
| `StringSearch` | The search of a view in a view. |
| `Stages_proofs` | The theorems about the typed stages, the ring, the decoder and the search. |
| `MC*` | Constants for TLC. |

How they are put together: `FutureInterface` implements `Promise`, and
`SocketHandler`, `ContextTree` and `IOPipeline` use of a future what `Promise`
guarantees. `IOPipeline` composes the handler with the pipeline: a step of the
handler is a step of `IOPipeline` that also runs listeners. `FrameDecoder`
implements `FrameStream`, and `RequestResponse` implements `Requests`. `TypedStages`
is what one event does inside the stages that `IOPipeline` takes as a whole.
`RequestResponse` uses of the frame codec that a
datagram that is a frame is found, and of the router its rule of keys.

Conventions: variables and actions keep the names of the code. A section under
a mutex, an access of an atomic, or a call into asio is a step. Definitions whose
names tell of a fault (`AddListenerUnchecked`, `RemoveChildNothing`, ...) are
variants of the definition that follows them, each with a likely mistake in it;
no specification uses them. They are there to see that the properties notice:
`PROJECT.json` pairs each property with one under `mutants`.

### FutureInterface

`m_state`, `m_storeData`, `m_errorCode`, `m_exceptionPtr`, `m_signal` and the
waiting threads are the fields of `FutureInterfaceBaseImpl`; `pc`, `tempSignal`
and `event` are where a thread is outside the mutex. Each `report*` function is
one action, since the test, the change, `notify_all` and the swap of the list
happen under one lock; posting to the listeners is a step per listener
(`postEvent`). `reportResult` is two: the placement new, then `reportFinished`
or `reportFinishedTooLate`. The rest are history: who was added, removed, told
what, and what `result()` gave. The listener list is a set, so every order of
posting is covered; a listener is registered once. The storage is one cell that
listeners read when they are told, as they share it. A condition variable may
wake a thread for no reason (`SpuriousWakeUp`). `Throwers` are listeners that
throw when they are told; the loop of `sendEvent` ends there.

### SocketHandler

`_M_ConnState` is loaded and stored by separate steps (`setConnectivityState`
loads, `Store` stores and goes on), in calls as in handlers. `ioQueue` holds
tasks and completions; the io thread takes the next only when it is in no call.
Closing the socket aborts what is under way on it, and its completions are
queued in any order; the system's close may fail, which the future is told, and asio gives the
socket up all the same. asio turns the success of a connect into an abort when the
socket is closed by the time the completion runs; it does not notice that the
socket is another one. `protocol` says which of the two handlers it is, and `Udp`
selects the differences: there, `connect` runs on its caller, and
`setConnectivityState` always returns false, so a disconnect or a close stores
the state and fails. A read or a write on a socket that is not connected fails or
stays pending; it does not succeed. The endpoint list is the number of the connect
that filled it (`endpoints`), and `went` is the list that each connect used.
Operations on the asio
socket are atomic, which leaves out the data race of callers with the io thread.

### SingleThreadExecutor

The executor's thread starts, loops, runs the context, and is told to end; every
access of `_M_Closed` is a step. The io_context is a queue that can be stopped,
and then returns from `run` at once for ever, as asio's does when nobody
restarts it. A task may throw and may call `execute`, which dispatches in place: asio
then captures what the inner task throws (`captured`), the task around it goes on, and
`run` throws at its end (`Throws`), unless that task throws itself.
`_M_Closed` has either value at first: the code leaves it uninitialized.

### TemporaryRouter

`frames` is the stack of `post` calls under way: a handler is the place where
the thread may call the router again. A step that erases the element another
loop's iterator stands on sets `dangling`; from there the program is undefined
and the model stops.

### ContextTree

What a thread has left to do is a list of steps; completing a done future puts
the steps of its listeners in front, as they run inside `reportResult`. Done
futures behave as `Promise`, whose implementation is proved. `setError` is
called by nobody but the listener on the parent, so there is a single error.

### SharedRouters

One router of one `kind`, and threads with a stack of frames each, as a handler
may call the router again. A section under the mutex that calls no handler is a
step; `PersistenceRouter::post` holds the mutex across its handlers, and
`SimpleRouter::post` copies what matches and then runs it. `removePersistent` does
what `std::remove` without `erase` does to the elements: the ones behind the
removed one move up, and the places at the end keep a null pointer or what was
there (`Shifted`). `removeSimple` erases another route of the group and leaves the one
it was given. `registered` and `erased` are history: the routes added and not given to a
`remove` since, and those that `removeSimple` took out in place of another. When a null pointer or an erased element is used the model
stops (`undefined`).

### FrameDecoder

`ring` is a record of `RingBuffer`, whose operators are those of the class: the
indices only grow and are reduced modulo the size where the array is used. A call
of `handleRead` brings a block of bytes (`Reads`); `Put` fills the ring, and each
turn of the loop of `unpack` is one action: `Wait` gives up, `Skip` passes over a
delimiter's worth, `MoveToNext` over one byte, `Decode` takes a frame and gives it
to the subclass, which makes an object of it, makes nothing, or throws. Arithmetic
of `size_t` wraps at `Word`, which decides what happens to a frame whose length is
below the size of a delimiter.

### Pipeline and IOPipeline

`Pipeline` has the list as `append` builds it and, for each event, the stage it
enters at (`Entry`) and those it goes to next (`Following`). In `IOPipeline` the
nesting of calls is a stack of work per thread (`todo`): tell a stage, call the
handler, listen to its future, leave a try block. The stages of the library
(`StreamReadStage`, `IOWriteStage`) do what their code does; a stage of the user
reacts in one of the ways of `Reactions`: it forwards, keeps, skips, throws
before or after it forwarded, writes, disconnects or connects again. A stage with
an executor is told by the thread `Worker`. `Posted` are the requests whose
callbacks are run by that executor.

### TypedStages

`frame[i]` is the call of `handleRead` or `handleWrite` of stage i, and the calls up
to `depth` are under way, each inside the handler of the one before. A stage has
its list of types; `tried` is the one it is at. The single-type stages, by value
and by pointer, and those that read and write have lists of one type. A cast that
does not fit throws, but for the stage that reads one type by value, which asks
for a pointer and dereferences null (`dereferenceNull`; the model stops there). The
try block of `invokeBaseReader` and `invokeBaseWriter` is around the cast, the
handler and all that the handler calls, and is missing for the last type: `Catches`
says whether the stage catches what comes by, and `tryNext` and `unwind` are what it
then does. Handlers give the next stage as many objects as they like, return or
throw, also what is no `std::exception`.

### StringSearch

One call of `SundayString`, with the view that `find` or `contains` gives it: a step
per character of the table (`Fill`), then one per window (`Found`, `Move`,
`NotFound`). The comparison within a window is one step, `Matches`. The result
counts from the place that `find` was given, as the code's does. Its
specification is `SearchSpec`, so that one module can prove about it and the decoder.

### ByteBuffer, NewMessage and RequestResponse

A `ByteBuffer` is a record: the storage, and a window of it with its two indices.
A slice is another window; `sharing` gives the one what was written through the
other. `RequestResponse` is the io thread's queue and the network. `handleWrite`
is the whole of a write on the io thread, from the stage that numbers the
message through `serialize` to the socket, and is one for all that a stage writes
when the pipeline becomes active (`Eager`, as `Empty::pipelineActive` does); `writeComplete` and `writeError` are
what the two kinds of request do when the send ends; `handleRead` is the decoder,
the factory, `deserialize` and the router. Which messages the factory makes is
fixed by what was registered before (`Registered`). Datagrams are sequences of bytes and are produced
and read by the operators of `NewMessage`. The peer answers with the message it
was sent. An answer that was lost is one that is never received. `routes` is a set: one
route at most has a key and replies carry exact keys, so that the order of the list is
not seen. What `RequestResponseAssumption` says of the constants is their C++ types: bytes, numbers
of sixteen bits, names no longer than `toUInt16` of their length can say, and a
buffer that holds its first number. It also takes the requests of `Eager` to
come before the others of their kind, which is how they are named.
`RegisteredAssumption` is `main.cpp:468`: the
message of the example is registered, and before any other of its id. `ReplyAssumption`
says that no datagram but an answer is a message of the example, and that buffers have
room for the age (those of `main.cpp:430` have 512 bytes).

## 3. Runs

Each run takes between a few seconds and two minutes on two cores.

| Run | Instance | Shows |
|---|---|---|
| `future` | 3 threads, 2 listeners, one of which throws, 1 value, 1 error, 1 exception; symmetric; fair | the inductive invariant and its parts; nothing changes after completion; blocked threads return; `Promise` is implemented with its liveness |
| `socket_threads` | TCP and UDP, 2 users and the io thread, 3 calls; fair | `SocketInv`: types, and no call loses its future; `OneDestination`, `ConnectAnswered`, `TransfersEnd`; and of the behaviours in which only the io thread calls, `ReadyMeansOpen`, `ShutdownIsFinal` |
| `socket_writes` | TCP and UDP, io thread, 3 calls | **violated**: `OneWriteAtATime` |
| `router_reentrant` | 4 routes, 2 events, 2 loops deep, 2 adds each | `RouterInv` (unique keys, one-shot registrations), `PostReachesAll` |
| `shared_routers` | 3 routers, 2 threads, 3 routes, 2 events, 5 calls, 2 deep; fair | `RoutersInv` (no remove takes others away but that of a simple router, handlers under the mutex are alone), `PostReachesAll`, `CallsReturn` |
| `context_tree` | 3 threads, 4 contexts of 3 levels, one of `withValue`; fair | `TreeInv` (nothing left behind, an error before the done future tells), `CancelPropagates` |
| `executor` | 2 threads, 3 tasks, one throws, one is delayed; fair | `ExecutorInv` (a task cancelled in time never runs, nothing runs after `close`), `TasksRun`, `CloseReturns`, `WaitersWoken` |
| `frame_decoder` | ring of 7, 3 byte values, up to 10 bytes in reads of 1, 2, 5 and 10; fair | `DecoderInv`, `NothingHeldBack`, `StreamSpec`, `HandleReadReturns` |
| `io_pipeline` | 2 layouts of 2 stages, 5 calls of the handler, 2 writes; fair | `ContextInv` (requests answered once), `OneReadAtATime`, `ReadingGoesOn`, `LossIsTold` |
| `request_response` | 4 requests of both kinds and of none, two of them written by a stage; bytes of 4 values, 3 datagrams received, counters at 15 of 16; fair | `RequestsInv` (each is accounted for), `AnswerReaches`, `WireIsMessage`, and `RequestsFairSpec`: `Requests` is implemented with its liveness |
| `typed_stages` | 3 chains of 2 and 3 stages, of 1 to 3 types each; 3 types of objects; exceptions of every kind | `StagesInv` (handled once), `ExceptionArrives` |
| `string_search` | all texts of up to 6 of two characters and patterns of up to 4, and texts that end in a third; fair | `SearchInv` (the first place), `SearchEnds` |

Bounds. A future's hazards need a completing thread, a second reporter that has
written its value, and a third that listens or waits; two listeners make the
order of posting and a late registration matter; with a second value the run takes
three times as long and finds nothing else, and the proofs are for all. The handler's need two calls
that overlap and a third that closes or transfers, on two threads and the io
thread; `MaxCalls` is the only bound. The temporary router's need a route in front
of, at and behind the iterator and one with a key already listed; depth 2 gives
an inner loop (`MaxDepth`), and two registrations of a route a route that comes
back (`MaxAdds`). The shared routers' need a route in front of and one behind the
removed one, one of another group, a second thread, and calls enough (`MaxCalls`)
to add two routes, post, remove within, and post again. A tree of three levels
with a fork has nested completions and siblings; the third thread makes contexts
while two cancel. The executor needs a task that throws in front of one that does
not, and an owner beside one user. The decoder's ring holds one frame and a piece
of another, so that indices wrap within `MaxBytes` and a read of two frames fills
it; delimiters share a byte, and the alphabet has a right length, one that is too
small and one as short as a delimiter. The pipeline's `MaxCalls` allow a connect,
two reads, a loss and a second connect. The requests are: two of equal number,
one whose number begins again, one with an empty name, one whose buffer is too
small, and one of a type nobody handles; three datagrams (`MaxReads`) are a
duplicate and a reply in the wrong order, or one that is not registered. The typed
stages have no bound but their chains, which are those of the example and one whose
types overlap. Patterns of up to four of two characters repeat themselves in every
way, and texts of up to six move the window three times; `MaxFrom` also starts the
search behind the end of what is left.

`CHECK_DEADLOCK FALSE` is said where a program may be over: the calls, adds,
tasks, bytes and requests of these runs are finite.

### What is only true under a condition

* `OneDestination` excepts connects that overlap while there is no list: both resolve,
  the later result replaces the earlier, and either may be used for the other.
* `ReadyMeansOpen` and `ShutdownIsFinal` hold for a handler used from its io
  thread, and fail with other users: load-then-store in `setConnectivityState`
  lets a completion overwrite *Shutdown*, and a disconnect during the completion
  of a connect leaves *Ready* with a closed socket.
* Two connects that both passed the test of the state follow one another; the
  second tears down the connection the first has made. Each is answered all the same.
* `NoLostFuture` (in `SocketInv`) excepts a disconnect whose close task found no
  open socket, and the close future: nobody reports those
  (`tcpsockethandler.cpp:175`).
* `ResultIsOutcome` excepts a thread that was woken spuriously: `wait()` does not
  test again, and `result()` then reads whatever is stored.
* `NoListenerLost` excepts listeners behind one that threw.
* `CloseReturns` and `WaitersWoken` need the executor's thread to have begun before
  `close`; else `run()` clears `_M_Closed` and spins. A thread that tested
  `_M_Closed` before the end and sleeps after it is not woken.
* `PostReachesAll` and the others of the temporary router hold until a handler
  erases the element an outer loop stands on.
* `Err()` of a context that was itself cancelled is empty: `cancel()` reports the
  error to the done future only.
* `RoutersInv` and `PostReachesAll` of `SharedRouters` except the routes that `remove` of
  a `SimpleRouter` erased although it was given another of their group
  (`simplerouter.cpp:63`): they are registered (`erased`), and neither listed nor called.
  They say that no other route is missing. The route that was given stays in the list.
  A `remove` of a `PersistenceRouter` leaves the removed route in the list when it is the
  last one, and a null pointer at the end otherwise, which the next `post` uses
  (`undefined`).
* `CallsReturn` excepts a handler of a `PersistenceRouter` that calls the router: it
  waits for a mutex its own thread holds.
* `NothingHeldBack` excepts a read that `decode` ended by throwing
  (`delimiterbasedframedecoder.hpp:37`): `handleRead` is left at once, with the frames
  behind that one in the ring, where they are until the next read (`cut`). The objects
  that were decoded before it in the same turn are lost (`DataList`).
* `HandleReadReturns` excepts a ring that is full of the beginning of a frame that
  claims to be longer than the ring, or shorter than a delimiter: `put` then writes
  nothing, and the loop of `handleRead` does not end. The comment on the last check
  of `unpack` (`delimiterbasedframedecoder.hpp:88`) finds it a little redundant;
  it decides for the frame that is shorter than its delimiter.
* `OneReadAtATime` needs connects that do not overlap and no stage with an executor:
  such a stage replaces a read by `pipelineInactive`, loses the read, and may
  complete a read of an earlier connection. Nor may a stage that is told of something
  else than a read have the reading go on (`SkipAssumption`): that starts a second read.
  In the repository only the decoder does it, told what was read
  (`delimiterbasedframedecoder.hpp:45`). A stage with an executor loses the requests written through
  it as well, which `ContextInv` counts as lost (`pipelinestage.hpp:158`).
* `ReadingGoesOn` excepts connections whose reading a stage broke (`stalled`): one
  that keeps what was read, or a decoder that throws before it passed on, as
  the first stage is never told of exceptions.
* `LossIsTold` excepts overlapping connects, stalled connections, and `close()`,
  which tells the pipeline only by the read it aborts. A disconnect tells it
  twice, by its listener and by the aborted read. When the system's close fails
  (`tcpsockethandler.cpp:180`) the future of the disconnect fails, and its listener tells
  nobody (`iopipelinecontext.cpp:146`): the aborted read alone does (`ReadAborted`), and
  if there was none, as its completion was in the queue already, the pipeline stays
  active without a connection (`CloseFailed`).
* In `RequestResponse` the two counters begin at the same value, so that requests of
  different kinds share numbers: the route of the second is refused, and its callback is
  never called.
* `AnswerReaches` is about replies handled after the write was complete. One that is
  handled before finds no route and is lost, and its request then waits for ever,
  as does one whose reply was lost: there is no timeout.
* `RequestsFairSpec` needs `ReplyAssumption`: a message of the example that nobody was
  asked for is taken for the reply of whoever waits for its number, and the reply to a
  request whose buffer had no room for the age has none.
* `WireIsMessage` needs a buffer that is large enough, as `put` drops what does not
  fit and `encode` says yes all the same, and a frame below 2^16 bytes. A message
  with an empty name loses its last field on the way back: `take(view, 0)` reads a
  length in front of the bytes (`bytebuffer.cpp:94`).
* `ExceptionArrives`: an exception of a handler, or of any stage behind it, that
  passes a stage with types left to try is replaced by `bad_any_cast`, as the other
  types do not fit (`pipelinereadstage.hpp:113`). What was thrown is not to be seen
  by `notifyException` then. It is `HandledOnce` that keeps this from handling an
  object twice, and only because the types of a stage differ and casts are exact.
* `SearchEnds` excepts a window that does not match in front of a character that
  is not in the pattern: the table has 0 there, not the whole length and one, and
  the search stays where it is for ever (`stringview.cpp:45`).

### Findings

`asio::async_write` is a composed operation, and asio asks that "the program must
ensure that the stream performs no other write operations" until it completes
(`third_party/asio/include/asio/write.hpp:785`). `AsioTcpSocketHandler::write`
(`tcpsockethandler.cpp:75`) starts one whatever is under way, and nothing above it
queues writes: the example's `Empty::pipelineActive` writes twice in a row
(`example/main.cpp:408-411`), and every user's `write` is a task of its own. Run
`socket_writes` has a connect and two writes. UDP has no such rule, as a datagram
is one operation.

Two more, found by reading. `temporaryrouter.hpp:24` says that `add` returns false
when the id of the route exists; the code (`temporaryrouter.cpp:33`) also asks for
an equal sequence number, as it must for several requests of one kind to wait at a
time. `StringView::endsWith` (`stringview.cpp:91`) returns the result of `strncmp`
without comparing it with 0, and so says the opposite.

### Fairness

Nobody has to call anything. A thread inside a call goes on (`GoOn` of each
module): the operating system schedules threads, and the sections under mutexes
are short. The io thread serves its queue (`asio` runs ready handlers in order).
Resolving and connecting end, by the system's timeouts; a read need not end
unless its socket is closed, when asio aborts it. Tasks of the executor and handlers
of routes end, and so does a send of the example, well or not. A search runs on the
thread that calls it. No network is fair: nothing is said of replies that do not come.

## 4. Proofs

`FutureInterface_proofs` proves, for any sets of threads, listeners, values,
errors and exceptions:

* `Invariant`: `Spec => []FutureInv`;
* `ListenersAgree`, `ListenersServedOnce`, `WaitersServed`: what users need of it;
* `Final`: `Spec => CompletionIsFinal`, the storage included;
* `ImplementsPromise`: `Spec => PromiseSpec`, the safety of the refinement.

They assume `FutureAssumption` (null values are none of the others, throwers are
listeners) and `NotToldAssumption`, both in `FutureInterface`.

The argument. None of the properties is inductive alone. That listeners agree
with the outcome needs to know what is in the hands of a thread that posts
outside the mutex: `PostingInv` says that it is the outcome and that no two
threads hold the same listener, and `SignalInv` that a completed future has no
list left. That the outcome is fixed needs `StoreInv`: a thread between the two
halves of `reportResult` has written a value, and only a pending future is
written to. That waiters are served needs `WaitingInv`: a thread that is out of
the condition variable without a spurious wakeup was notified. The proof goes
action by action for types, storage, waiting and results, and treats alike, for
what is told, the actions that complete (`CompleteTells`), those that leave
the listeners alone (`QuietTells`), and posting, adding and removing. The
refinement follows from the invariant: a completion settles, the rest maps to
one step of `Promise` or to none.

`Stages_proofs` proves, of the ring, for any size of the ring and any bytes:

* `PutKeeps`, `CopyToReads`, `MoveKeeps`, `TakeKeeps`: what `put`, `copyTo`,
  `moveToNext` and `take` do to the bytes in the ring at their places. `At(ring, i)`
  is byte i of all that were ever put, for i from the header to the tailer; what
  makes this work is that two indices less than the size apart have different
  slots (`NextMultiple`, `SlotOfSum`: the arithmetic of the remainder).

then, for any alphabet, delimiters, length field, ring size,
reads and word size that `FrameAssumption` allows:

* `DecoderInvHolds`: `Spec => []DecoderInv`. Its core is `RingHolds`, which ties
  the ring and what is left of the read to the stream as one sequence; it is
  inductive together with the types and what is known between reads.
* `DecoderImplementsStream`: `Spec => StreamSpec`. Every turn of the loop passes a
  delimiter, passes a byte, finds a frame or waits, as `FrameStream` does for the
  same position of the uncut stream. `WholeIsComplete` shows that the code's tests,
  with arithmetic that wraps at `Word`, are `CompleteAt` of the abstract module.
* `NothingHeldBackHolds`: `Spec => []NothingHeldBack`, with its exception for reads that
  `decode` ended.

and, of `StringSearch`, for any characters, texts and patterns:

* `SearchCorrect`: `SearchSpec => []SearchInv`. `TableInv` bounds the shift of a character
  by each of its places, and `MovesOverNone` concludes that a move passes over no
  place of the pattern, as the character behind the window would have to be in it.

and, of `TypedStages`, for any chains of stages, types and exceptions:

* `StagesCorrect`: `StagesSpec => []StagesInv`, and `ExceptionsArrive`:
  `StagesSpec => []ExceptionArrives`.

`StagesInv` is not inductive: while a stage tries its types, `FrameInv` relates the
types it has passed to the handlers it has called (`Past`), `StackInv` says that
every stage above the last is inside a handler, which is what an exception
unwinds through, and `Unwinding` that what is raised is what was thrown or, behind
a stage that tried on, a failed cast of a type that cannot fit any more.

`SocketHandler_proofs` proves, for any users, any number of calls and either protocol
(`SocketAssumption`):

* `NothingLost`: `Spec => []SocketInv`;
* `ReadyIsOpen`: `Spec => []ReadyMeansOpen`, and `StaysShutdown`: `Spec => ShutdownIsFinal`;
* `SameDestination`: `Spec => []OneDestination`;
* `FuturesCarriedOnce`: `Spec => []OnceInv`, which no run checks: the future of a call is
  in one operation, one item of the queue or one thread as long as it is pending, and in
  none once it is settled, so it is reported once. The first report wins by `Promise`;
  here it is the only one.

That no future is lost is not inductive: an answer could go to the future of another
call. `Fits` says which call's future each operation, task, completion and thread
may carry, so that what leaves one place is what the next expects. `OneDestination`
needs that at most one place works on a connect while connects have not overlapped
(`OneConnect`) and that a resolve is under way only for want of a list (`ResolveInv`).
The two properties of a handler used from its own thread need `AloneInv`: no task is
queued by a user, and what was loaded of the state is still true at the store.
That an abort moves every operation from `pending` to the queue, once each and in any
order, is `Aborted`.

`ExecutorAndRouter_proofs` proves, of `SingleThreadExecutor`, for any threads and tasks,
delayed or not, throwing or not:

* `NothingRunsThatMayNot`: `ExecutorSpec => []ExecutorInv`;
* `NoTaskRunsTwice`: an action property that no run checks: neither the queue nor a
  task that dispatches in place begins a task that has begun.

A task that was cancelled in time never runs because it is in one place at a time
(`OnePlace`): with nobody, with the thread about to post it, in its timer, in one
handler of the queue, or begun. That nothing runs after `close` needs that the thread
which was joined had ended (`WorkerInv`).

and, of `TemporaryRouter`, for any routes, masks, events and handlers, at any depth of posts
within handlers:

* `RegistrationsKept`: `Spec => []RouterInv`;
* `NobodyIsPassedOver`: `Spec => []PostReachesAll`.

`PostReachesAll` speaks of the innermost loop when it ends; inductive is that for each
loop of the stack every route it owes the event stands at its iterator or behind
(`LoopsInv`), unless an iterator was erased. Handlers keep this true because the list grows at its end only,
and a removal leaves the order of the others as it was (`Removed`).

`SharedRouters_proofs` proves, for any threads, routes, masks and events, and each of the
three routers:

* `RoutesStayAndHandlersExclude`: `Spec => []RoutersInv`;
* `PostsReachAll`: `Spec => []PostReachesAll`.

Removals and snapshots keep some places of a list. `Kept` numbers the places kept, in
order and without gaps (`Ranks`), and the element at a place kept is at its rank in the new
list, and nothing else is (`KeptAt`, `KeptFrom`). The invariant relates registrations, the
list and the loops: what is registered is listed, or was erased in place of another (`RegisteredIsListed`); a router that is
locked is so by the thread whose post has begun, and nothing runs on top of that post
(`StackInv`); the list is no longer than the adds that were called (`ListInv`), which
bounds the places of loops; and every route a loop owes the event was told of it or is
ahead, in the snapshot or in the list from the place of the loop on (`LoopsInv`), as long as
no element was erased under a loop.

`ContextTree_proofs` proves, for any tree of contexts, cancelable or not, and any number of
threads that make and cancel them:

* `TreeStaysTidy`: `Spec => []TreeInv`.

`TidyTree` speaks of a tree that nobody is at work on. The invariant that carries it
says of each fact which step is still to come while it does not hold (`Ahead`): a context
that is not done is among its parent's children or `addChild` is to come; it is told of
its parent, or `listenParent` or its own `report` is to come; a done one that its parent
still holds has `removeChild` or `listenSelf` to come (`ChildInv`, `SignalInv`). Cancelling
from another thread keeps this true since the steps of one `setParent` are ahead once,
in order and in one thread (`MakingInv`, `OneStep`), and since a report turns each listener
into its steps and no others (`AllHandled`). With no step ahead, all of it has been done
(`Tidy`). `EarlyInv` says that a context is not done, nor about to be, before it listens to
its parent, so a listener is added once and its removal finds it. That the reason comes
first needs `ReasonInv`: the step that sets the error is right before the report.

`IOPipeline_proofs` proves, for any layouts of a pipeline, any reactions of its stages,
any calls and any requests (`IOPipelineAssumption`: among others that no stage object is
appended twice, as `append` would then link it to itself):

* `ContextUsesHandler`: `ContextSpec => Spec`, where `Spec` is that of `SocketHandler`: a
  step of the context is a step of its handler or leaves the handler alone. So what
  is proved of a handler with any callers holds of the one in a context
  (`HandlerInContext`: `ContextSpec => []SocketInv`);
* `BuiltLinks`: a pipeline that was built links the stages appended, in order, in both
  directions, and no others. With it, `Writable` and `Readable`: the walks of
  `findWritableStage` and `findReadableStage` end, at the nearest stage that can do it;
* `RequestsAreAnswered`: `ContextSpec => []ContextInv`;
* `ConnectionIsRead`: `ContextSpec => []ReadingGoesOn`;
* `ReadsTakeTurns`: `ContextSpec => []OneReadAtATime`, with `SkipAssumption`.

`ContextInv` counts answers, and nothing in it says why there is no second one. The
invariant (`ContextIInv`) says that a request is held by one item at a time (`HeldOnce`): a task
of `write()`, an event on its way through the stages, a call of the handler, a listen to
the future of that call, an answer, or a task of the executor; or by a future
that has a listener and is pending (`HeldAlone`). What an item of each kind can be about is
`Sound`: of events only a write carries a request, and only to a stage behind the first, of calls only that of `write`; so a
stage that is told of a connection or of what was read answers nobody (and only the future of
a write is about a request, `RequestOfInv`). A future is listened to once, and an item that listens is the only one for its
future (`ListenInv`). A step then does one of four things to a request: it stays with its
item, goes from one item to one other, is lost or is answered (`RequestStep`,
`QueueStep`); it is the handler that needs an argument, as its step may settle a future and
run a listener: it settles one at a time (`HandlerSettles`), and a request
held by a pending future is not held elsewhere. Throwing is the other hard step: it cuts
the stack at the innermost try block, and what it drops is counted as lost.

`ReadingGoesOn` speaks of the moments when all is quiet. Between them (`ReadingInv`) a
connection that is Ready has a pending future of a read, or a stack of some thread, or a
task of the executor, that will start one (`WillRead`): there is a token in it - a call of
`read`, an event of which the first stage makes one, possibly through the stages in front of it, or
the listener that tells such an event - and in front of the token only what cannot throw
and does not change the state. So exceptions need no account of their own: when
a throw is at the top of a stack no token of it counts, and what a stage does is an
exception behind the token that it passed on, or one instead of it, which is
`stalled`. The handler is the hard part again. Whoever's future is pending is
listened to or is about to be (`AwaitInv`), so a connect or a read that ends has its
listener bring a token; a thread in a call has nothing to do before it listens (`BusyInv`); a
store that leaves the state as it is finds a handler that was closed (`LoadInv`); and the
future that a step settles is in no other place (`OnceInv`), so it is settled by this step alone.

`OneReadAtATime` is about the buffer, which a read keeps after its operation has ended, until
its completion is handled (`BufferUsers`). One turn to read exists (`TurnInv`): what the io
thread has to do holds once, at most, a call of `read`, or an event that leads to one, and
while it does nobody has the buffer. Each stage makes a turn only of a turn: it is an
activation told to the first stage, or what was read and its completion told to any
(`LocalFollows`, `LocalItems`, `ItemFollows`). A listener makes one when a connect or a read is
done, so the buffer has to be free then. For a read it is, as there was one (`BufferInv`), and it
is the one that is handled. For a connect this is the order of the queue (`FreshInv`): while a connect
is under way the state is not Ready, so nobody starts a read, and closing the socket has
aborted the one that there was; a read that had ended well before is in the queue
in front of all that the connect puts there, as the queue is served in order. So a late
completion of an earlier connection has been handled, and has found no connection to
read, when the new one is told. Last, nothing else brings a turn (`LocalInv`): without stages
that have an executor only the io thread uses the handler, the executor answers
requests; the io thread listens to a connect or a read before it is answered (`Late`); and
it stores the outcome of a connect with nothing else to do. `LocalInv` holds also when
connects overlap; the other three parts need that they do not.

`RequestResponse_proofs` proves, for any requests, messages, sizes of buffers,
first numbers and datagrams that `RequestResponseAssumption` and
`RegisteredAssumption` allow:

* `RequestsAreAccountedFor`: `Spec => []RequestsInv`;
* `AnswersReach`: `Spec => []AnswerReaches`;
* `WireIsTheMessage`: `Spec => []WireIsMessage`;
* `ImplementsRequests`: `Spec => RequestsSpec`, the safety of the refinement, with
  `ReplyAssumption`.

The argument has two halves. One follows a request through the queue: it is in one task,
sent, or told (`PlacesInv`); the requests of a kind are numbered in the order they were
named in, so that the number of a request is its place modulo 2^16 (`NumbersInv`,
`CountersGoOn`); a route is that of a request which was told of its write and has no reply
(`RoutesInv`). A refused route then has another request of its number behind it, which
was written before it (`SameRemainder`). The other half is the bytes, as a reply is taken
for its request by what `decode` finds: what is put stays where it is and `put` writes all
or nothing (`PutNumber`, `PutView`, `Grows`), so `serialize` leaves each field at its
place (`Serialized`) also through the slice that writes the length last; `deserialize`
looks for them there (`ReadsNumbers`, `ReadsWhole`), and a number comes back from its two bytes
(`ThereAndBack`). `WireOf` puts them together: what was sent for a request that fits is
a frame with its id and its number. `AnswersReach` holds for requests that did not fit
as well: what is long enough to be a frame has the id and the number in it.
`ImplementsRequests` needs two facts more: a key is listed once (`KeysInv`), so that an
event calls one callback at most, and a datagram in the queue is a stray or was sent for
a request (`ReadsInv`). What is given to a callback is then the reply of the request that
the datagram was sent for, and two requests of one number share it (`OfOneNumber`).

TLC only: liveness everywhere (`WaitersReturn`, `ConnectAnswered`, `TasksRun`, the fair
half of the refinements, `HandleReadReturns`, `SearchEnds`, and the other temporal
properties but `CompletionIsFinal` and `ShutdownIsFinal`), as liveness and ENABLED are
out of this prover's reach. Every invariant that a run checks is stated by a theorem.

Induction over data. The theorems of the library that take an operator are of no use to
these provers; where a fact needs induction, as `BuiltLinks` and the walks do, it
is by a least counterexample (`LeastElement`). No module here declares a RECURSIVE operator.

## 5. Plan

Done: every module of section 2 and the theorems of section 4. What is left is not within reach
of these provers: liveness, for which TLC's instances have to do.

## 6. Not modelled

Endpoints, events, reference-counted pointers and the thread-local stack of
execution contexts are values without behaviour over time. Of the message factory,
a map under a mutex with a single section per operation, `RequestResponse` has
registration and lookup; the attributes of a message have no caller. Of the byte
buffer, numbers of other widths, little endian, `copy`, `reset` and storage that the
caller owns are left out. A `StringView` is a pointer and a size; its methods other
than the search compare or cut what it points to. `call/socketpipelinecontext.cpp` and `call/pipelinestagewrapper.*` are
not part of the build (`Caller.pri`). `third_party/asio` is modelled only by what
the handlers and the executor use of it; `sigslot` is not in the repository. Data
races inside the asio socket, destruction order, and memory that a cycle of
references keeps for ever (a context that is never done holds itself through its
listeners) are not states of these models.
